----------------------- MODULE TransactionPolicy_proofs -----------------------
(***************************************************************************)
(* Proofs about TransactionPolicy for any wallet, allowlist and assets,    *)
(* and bodies of any number of values, each of any number of transactions. *)
(***************************************************************************)
EXTENDS TransactionPolicy, WellFoundedInduction, SequenceTheorems, TLAPS

-----------------------------------------------------------------------------
\* A set of naturals has a least element.
LEMMA Least ==
  ASSUME NEW T \in SUBSET Nat, T # {}
  PROVE  \E i \in T : \A j \in T : i <= j
<1> DEFINE R == OpToRel(<, Nat)
<1>1. IsWellFoundedOn(R, Nat)
  BY NatLessThanWellFounded
<1>2. \A i, j \in Nat : <<j, i>> \in R <=> j < i
  BY DEF OpToRel
<1> HIDE DEF R
<1>3. PICK i \in T : \A j \in T : ~(<<j, i>> \in R)
  BY <1>1, WFMin
<1>4. T \subseteq Nat
  OBVIOUS
<1>5. \A j \in T : ~(j < i)
  BY <1>2, <1>3, <1>4, Zenon
<1> QED
  BY <1>4, <1>5
\* What holds of 0, and of n + 1 when it holds of n, holds of every natural.
LEMMA Inductive ==
  ASSUME NEW S, 0 \in S, \A n \in Nat : n \in S => n + 1 \in S
  PROVE  Nat \subseteq S
<1> SUFFICES ASSUME NEW m \in Nat \ S PROVE FALSE
  OBVIOUS
<1>1. PICK i \in Nat \ S : \A j \in Nat \ S : i <= j
  BY Least
<1>2. i # 0 /\ i - 1 \in Nat /\ ~(i <= i - 1) /\ (i - 1) + 1 = i
  BY <1>1
<1> QED
  BY <1>1, <1>2

-----------------------------------------------------------------------------
(* decodeSignedTransactions: the list holds what the values hold.          *)

Holds(s, x) == \E k \in DOMAIN s : s[k] = x

\* A concatenation holds what its parts hold.
LEMMA ConcatHolds ==
  ASSUME NEW T, NEW s \in Seq(T), NEW t \in Seq(T), NEW x
  PROVE  Holds(s \o t, x) <=> Holds(s, x) \/ Holds(t, x)
<1> DEFINE st == s \o t
<1>1. /\ Len(st) = Len(s) + Len(t) /\ DOMAIN st = 1..Len(st)
      /\ \A i \in 1..(Len(s) + Len(t)) : st[i] = IF i <= Len(s) THEN s[i] ELSE t[i - Len(s)]
  BY ConcatProperties
<1>2. /\ Len(s) \in Nat /\ Len(t) \in Nat
      /\ DOMAIN s = 1..Len(s) /\ DOMAIN t = 1..Len(t)
  OBVIOUS
<1> HIDE DEF st
<1>3. ASSUME NEW k \in DOMAIN st, st[k] = x PROVE Holds(s, x) \/ Holds(t, x)
  <2>1. CASE k <= Len(s)
    BY <1>1, <1>2, <1>3, <2>1 DEF Holds
  <2>2. CASE ~(k <= Len(s))
    <3>1. k - Len(s) \in DOMAIN t /\ t[k - Len(s)] = x
      BY <1>1, <1>2, <1>3, <2>2
    <3> QED
      BY <3>1 DEF Holds
  <2> QED
    BY <2>1, <2>2
<1>4. ASSUME NEW k \in DOMAIN s, s[k] = x PROVE Holds(st, x)
  BY <1>1, <1>2, <1>4 DEF Holds
<1>5. ASSUME NEW k \in DOMAIN t, t[k] = x PROVE Holds(st, x)
  <2>1. Len(s) + k \in DOMAIN st /\ st[Len(s) + k] = x
    BY <1>1, <1>2, <1>5
  <2> QED
    BY <2>1 DEF Holds
<1> QED
  BY <1>3, <1>4, <1>5 DEF Holds, st

\* The function that FlattenSeq defines over the positions of a sequence.
IsFlattening(f, seqs, m) ==
  f = [i \in 1..m |-> IF i = 1 THEN seqs[i] ELSE f[i - 1] \o seqs[i]]

\* It exists.
LEMMA FlatteningExists ==
  ASSUME NEW seqs, NEW n \in Nat
  PROVE  \E f : IsFlattening(f, seqs, n)
<1> DEFINE S == {m \in Nat : \E f : IsFlattening(f, seqs, m)}
<1>1. 0 \in S
  <2>1. IsFlattening(<< >>, seqs, 0)
    BY DEF IsFlattening
  <2> QED
    BY <2>1
<1>2. ASSUME NEW m \in Nat, m \in S PROVE m + 1 \in S
  <2>1. PICK f : IsFlattening(f, seqs, m)
    BY <1>2
  <2> DEFINE g == [i \in 1..(m + 1) |->
                     IF i = m + 1 /\ i # 1 THEN f[m] \o seqs[m + 1]
                     ELSE IF i = 1 THEN seqs[1] ELSE f[i]]
  <2>2. ASSUME NEW i \in 1..(m + 1)
        PROVE  g[i] = IF i = 1 THEN seqs[i] ELSE g[i - 1] \o seqs[i]
    <3>1. CASE i = 1
      BY <3>1
    <3>2. CASE i # 1
      <4>1. /\ i - 1 \in 1..m /\ i - 1 # m + 1 /\ i - 1 \in 1..(m + 1)
            /\ (i # m + 1 => i \in 1..m) /\ (m + 1) - 1 = m
        BY <3>2
      <4>2. \A j \in 1..m : f[j] = IF j = 1 THEN seqs[j] ELSE f[j - 1] \o seqs[j]
        BY <2>1 DEF IsFlattening
      <4>3. g[i - 1] = f[i - 1]
        BY <4>1, <4>2
      <4>4. g[i] = f[i - 1] \o seqs[i]
        BY <3>2, <4>1, <4>2
      <4> QED
        BY <3>2, <4>3, <4>4
    <3> QED
      BY <3>1, <3>2
  <2>3. IsFlattening(g, seqs, m + 1)
    <3>1. g = [i \in 1..(m + 1) |-> g[i]]
      OBVIOUS
    <3> HIDE DEF g
    <3> QED
      BY <2>2, <3>1 DEF IsFlattening
  <2> QED
    BY <2>3
<1>3. Nat \subseteq S
  <2> HIDE DEF S
  <2> QED
    BY <1>1, <1>2, Inductive
<1> QED
  BY <1>3

\* FlattenSeq gives the last of its values.
LEMMA FlattenIsLast ==
  ASSUME NEW seqs, Len(seqs) # 0, Len(seqs) \in Nat
  PROVE  \E f : IsFlattening(f, seqs, Len(seqs)) /\ FlattenSeq(seqs) = f[Len(seqs)]
<1> DEFINE g == CHOOSE f : f = [i \in 1..Len(seqs) |->
                                  IF i = 1 THEN seqs[i] ELSE f[i - 1] \o seqs[i]]
<1>1. FlattenSeq(seqs) = g[Len(seqs)]
  BY Zenon DEF FlattenSeq
<1>2. \E f : IsFlattening(f, seqs, Len(seqs))
  BY FlatteningExists
<1>3. IsFlattening(g, seqs, Len(seqs))
  BY <1>2, Zenon DEF IsFlattening
<1> QED
  BY <1>1, <1>3

\* The list holds the transactions of the values and no others.
LEMMA FlattenHolds ==
  ASSUME NEW T, NEW seqs \in Seq(Seq(T))
  PROVE  /\ FlattenSeq(seqs) \in Seq(T)
         /\ \A x : Holds(FlattenSeq(seqs), x) <=> \E i \in DOMAIN seqs : Holds(seqs[i], x)
<1> DEFINE n == Len(seqs)
<1>1. n \in Nat /\ DOMAIN seqs = 1..n /\ \A i \in 1..n : seqs[i] \in Seq(T)
  OBVIOUS
<1>2. CASE n = 0
  <2>1. FlattenSeq(seqs) = seqs
    BY <1>2 DEF FlattenSeq
  <2>2. seqs = << >> /\ DOMAIN seqs = {}
    BY <1>1, <1>2
  <2> QED
    BY <2>1, <2>2 DEF Holds
<1>3. CASE n # 0
  <2>1. PICK f : IsFlattening(f, seqs, n) /\ FlattenSeq(seqs) = f[n]
    BY <1>1, <1>3, FlattenIsLast
  <2>2. \A i \in 1..n : f[i] = IF i = 1 THEN seqs[i] ELSE f[i - 1] \o seqs[i]
    BY <2>1 DEF IsFlattening
  <2> DEFINE Covers(m) == /\ f[m] \in Seq(T)
                          /\ \A x : Holds(f[m], x) <=> \E i \in 1..m : Holds(seqs[i], x)
             S == {m \in Nat : m \in 1..n => Covers(m)}
  <2>3. 0 \in S
    OBVIOUS
  <2>4. ASSUME NEW m \in Nat, m \in S PROVE m + 1 \in S
    <3> SUFFICES ASSUME m + 1 \in 1..n PROVE Covers(m + 1)
      OBVIOUS
    <3>1. CASE m = 0
      <4>1. f[1] = seqs[1] /\ 1 \in 1..n /\ m + 1 = 1
        BY <2>2, <3>1
      <4>2. \A i : i \in 1..1 <=> i = 1
        OBVIOUS
      <4> QED
        BY <1>1, <4>1, <4>2
    <3>2. CASE m # 0
      <4>1. m \in 1..n /\ m + 1 # 1 /\ (m + 1) - 1 = m
        BY <1>1, <3>2
      <4>2. Covers(m)
        BY <2>4, <4>1
      <4>3. f[m + 1] = f[m] \o seqs[m + 1] /\ seqs[m + 1] \in Seq(T)
        BY <1>1, <2>2, <4>1
      <4>4. f[m + 1] \in Seq(T)
        BY <4>2, <4>3, ConcatProperties
      <4>5. \A i : i \in 1..(m + 1) <=> i \in 1..m \/ i = m + 1
        OBVIOUS
      <4>6. \A x : Holds(f[m + 1], x) <=> Holds(f[m], x) \/ Holds(seqs[m + 1], x)
        BY <4>2, <4>3, ConcatHolds
      <4>7. \A x : Holds(f[m + 1], x) <=> \E i \in 1..(m + 1) : Holds(seqs[i], x)
        BY <4>2, <4>5, <4>6
      <4> QED
        BY <4>4, <4>7
    <3> QED
      BY <3>1, <3>2
  <2>5. Nat \subseteq S
    <3> HIDE DEF S
    <3> QED
      BY <2>3, <2>4, Inductive
  <2>6. n \in S
    BY <1>1, <2>5, Zenon
  <2>7. n \in 1..n
    BY <1>1, <1>3
  <2>8. Covers(n)
    BY <2>6, <2>7
  <2> QED
    BY <1>1, <2>1, <2>8
<1> QED
  BY <1>2, <1>3
-----------------------------------------------------------------------------
(* The decision on one transaction.                                        *)

\* The first error is 0 if no check fails, else the status of a check that fails.
LEMMA FirstErrorIs ==
  ASSUME NEW n \in Nat, NEW checks, DOMAIN checks = 1..n
  PROVE  /\ FirstError(checks) = 0 <=> \A i \in 1..n : checks[i] = 0
         /\ FirstError(checks) # 0 => \E i \in 1..n : FirstError(checks) = checks[i]
<1> DEFINE failing == {i \in 1..n : checks[i] # 0}
           first == CHOOSE i \in failing : \A j \in failing : i <= j
<1>1. FirstError(checks) = IF failing = {} THEN 0 ELSE checks[first]
  BY DEF FirstError
<1>2. failing # {} => first \in failing
  <2>1. failing \subseteq Nat
    OBVIOUS
  <2> HIDE DEF failing
  <2> QED
    BY <2>1, Least
<1> HIDE DEF first
<1> QED
  BY <1>1, <1>2

\* The parts of a transaction, each with the check made of it.
LEMMA PartsDecide ==
  /\ \A r : ReceiverStatus(r) \in {0, 400, 403}
  /\ \A r : ReceiverStatus(r) = 0 <=> r = Wallet
  /\ \A r : r \notin {Absent, Misfit} => ReceiverStatus(r) \in {0, 403}
  /\ \A a : AmountStatus(a) \in {0, 400, 403}
  /\ \A a : AmountStatus(a) = 0 <=> Unsigned(a) /\ a # 0
  /\ \A a : a \notin {Absent, Misfit} => AmountStatus(a) \in {0, 403}
  /\ \A a : AssetStatus(a) \in {0, 400, 403}
  /\ \A a : AssetStatus(a) = 0 <=>
              Unsigned(a) /\ (AllowedAssets = {} \/ a \in AllowedAssets)
  /\ \A a : a \notin {Absent, Misfit} => AssetStatus(a) \in {0, 403}
  /\ \A f : FieldStatus(f) \in {0, 403}
  /\ \A f : FieldStatus(f) = 0 <=> f = Absent
<1>1. ASSUME NEW r
      PROVE  /\ ReceiverStatus(r) \in {0, 400, 403}
             /\ ReceiverStatus(r) = 0 <=> r = Wallet
             /\ r \notin {Absent, Misfit} => ReceiverStatus(r) \in {0, 403}
  <2>1. Wallet \notin {Absent, Misfit}
    BY PolicyAssumption, Zenon DEF PolicyAssumption
  <2> QED
    BY <2>1 DEF ReceiverStatus
<1>2. ASSUME NEW a
      PROVE  /\ AmountStatus(a) \in {0, 400, 403}
             /\ AmountStatus(a) = 0 <=> Unsigned(a) /\ a # 0
             /\ a \notin {Absent, Misfit} => AmountStatus(a) \in {0, 403}
  BY DEF AmountStatus, Unsigned
<1>3. ASSUME NEW a
      PROVE  /\ AssetStatus(a) \in {0, 400, 403}
             /\ AssetStatus(a) = 0 <=>
                  Unsigned(a) /\ (AllowedAssets = {} \/ a \in AllowedAssets)
             /\ a \notin {Absent, Misfit} => AssetStatus(a) \in {0, 403}
  BY DEF AssetStatus, Unsigned
<1>4. ASSUME NEW f
      PROVE  FieldStatus(f) \in {0, 403} /\ (FieldStatus(f) = 0 <=> f = Absent)
  BY DEF FieldStatus, Present
<1> QED
  BY <1>1, <1>2, <1>3, <1>4

\* A transaction passes exactly when it is a plain transfer to the wallet; if it spells
\* its fields out and does not pass, it is forbidden.
Decided(txn) ==
  /\ TransactionStatus(txn) = 0 <=> PaysWallet(txn)
  /\ Explicit(txn) => TransactionStatus(txn) \in {0, 403}

\* The four checks of a payment.
LEMMA PaymentDecided == \A txn \in Payment : Decided(txn)
<1> SUFFICES ASSUME NEW txn \in Payment PROVE Decided(txn)
  OBVIOUS
<1> DEFINE checks == <<ReceiverStatus(txn.receiver), AmountStatus(txn.amount),
                       FieldStatus(txn.close), FieldStatus(txn.rekey)>>
<1>1. /\ txn.type = "pay" /\ txn.amount \in Amounts
      /\ DOMAIN txn = {"type", "receiver", "amount", "close", "rekey"}
  BY DEF Payment
<1>2. TransactionStatus(txn) = FirstError(checks)
  BY <1>1 DEF TransactionStatus, AlgoPaymentStatus
<1>3. /\ DOMAIN checks = 1..4
      /\ checks[1] = ReceiverStatus(txn.receiver) /\ checks[2] = AmountStatus(txn.amount)
      /\ checks[3] = FieldStatus(txn.close) /\ checks[4] = FieldStatus(txn.rekey)
  OBVIOUS
<1>4. \A i : i \in 1..4 <=> i \in {1, 2, 3, 4}
  OBVIOUS
<1> HIDE DEF checks
<1>5. /\ FirstError(checks) = 0 <=> \A i \in 1..4 : checks[i] = 0
      /\ FirstError(checks) # 0 => \E i \in 1..4 : FirstError(checks) = checks[i]
  BY <1>3, FirstErrorIs
<1>6. FirstError(checks) = 0 <=>
        /\ txn.receiver = Wallet /\ Unsigned(txn.amount) /\ txn.amount # 0
        /\ txn.close = Absent /\ txn.rekey = Absent
  BY <1>3, <1>4, <1>5, PartsDecide
<1>7. Unsigned(txn.amount) /\ txn.amount # 0 <=> Unsigned(txn.amount) /\ txn.amount > 0
  BY <1>1 DEF Amounts, Unsigned
<1>8. PaysWallet(txn) <=>
        /\ txn.receiver = Wallet /\ Unsigned(txn.amount) /\ txn.amount > 0
        /\ txn.close = Absent /\ txn.rekey = Absent
  BY <1>1
  DEF PaysWallet, Beneficiaries, AssetWanted, TakesFromOthers, ChangesAuthority,
      EmptiesAccount
<1>9. Explicit(txn) => FirstError(checks) \in {0, 403}
  <2>1. Explicit(txn) => txn.receiver \notin {Absent, Misfit} /\ txn.amount \notin {Absent, Misfit}
    BY <1>1 DEF Explicit
  <2> QED
    BY <1>3, <1>4, <1>5, <2>1, PartsDecide
<1> QED
  BY <1>2, <1>6, <1>7, <1>8, <1>9 DEF Decided

\* The six checks of an asset transfer.
LEMMA TransferDecided == \A txn \in AssetTransfer : Decided(txn)
<1> SUFFICES ASSUME NEW txn \in AssetTransfer PROVE Decided(txn)
  OBVIOUS
<1> DEFINE checks == <<ReceiverStatus(txn.receiver), AssetStatus(txn.asset),
                       AmountStatus(txn.amount), FieldStatus(txn.clawback),
                       FieldStatus(txn.close), FieldStatus(txn.rekey)>>
<1>1. /\ txn.type = "axfer" /\ txn.amount \in Amounts
      /\ DOMAIN txn = {"type", "receiver", "asset", "amount", "clawback", "close", "rekey"}
  BY DEF AssetTransfer
<1>2. TransactionStatus(txn) = FirstError(checks)
  BY <1>1 DEF TransactionStatus, AsaTransferStatus
<1>3. /\ DOMAIN checks = 1..6
      /\ checks[1] = ReceiverStatus(txn.receiver) /\ checks[2] = AssetStatus(txn.asset)
      /\ checks[3] = AmountStatus(txn.amount) /\ checks[4] = FieldStatus(txn.clawback)
      /\ checks[5] = FieldStatus(txn.close) /\ checks[6] = FieldStatus(txn.rekey)
  OBVIOUS
<1>4. \A i : i \in 1..6 <=> i \in {1, 2, 3, 4, 5, 6}
  OBVIOUS
<1> HIDE DEF checks
<1>5. /\ FirstError(checks) = 0 <=> \A i \in 1..6 : checks[i] = 0
      /\ FirstError(checks) # 0 => \E i \in 1..6 : FirstError(checks) = checks[i]
  BY <1>3, FirstErrorIs
<1>6. FirstError(checks) = 0 <=>
        /\ txn.receiver = Wallet /\ Unsigned(txn.amount) /\ txn.amount # 0
        /\ Unsigned(txn.asset) /\ (AllowedAssets = {} \/ txn.asset \in AllowedAssets)
        /\ txn.clawback = Absent /\ txn.close = Absent /\ txn.rekey = Absent
  BY <1>3, <1>4, <1>5, PartsDecide
<1>7. Unsigned(txn.amount) /\ txn.amount # 0 <=> Unsigned(txn.amount) /\ txn.amount > 0
  BY <1>1 DEF Amounts, Unsigned
<1>8. PaysWallet(txn) <=>
        /\ txn.receiver = Wallet /\ Unsigned(txn.amount) /\ txn.amount > 0
        /\ Unsigned(txn.asset) /\ (AllowedAssets = {} \/ txn.asset \in AllowedAssets)
        /\ txn.clawback = Absent /\ txn.close = Absent /\ txn.rekey = Absent
  BY <1>1
  DEF PaysWallet, Beneficiaries, AssetWanted, TakesFromOthers, ChangesAuthority,
      EmptiesAccount
<1>9. Explicit(txn) => FirstError(checks) \in {0, 403}
  <2>1. Explicit(txn) => /\ txn.receiver \notin {Absent, Misfit}
                         /\ txn.asset \notin {Absent, Misfit}
                         /\ txn.amount \notin {Absent, Misfit}
    BY <1>1 DEF Explicit
  <2> QED
    BY <1>3, <1>4, <1>5, <2>1, PartsDecide
<1> QED
  BY <1>2, <1>6, <1>7, <1>8, <1>9 DEF Decided

\* Whatever its type.
LEMMA TransactionDecided == \A txn \in SignedTransaction : Decided(txn)
<1>1. ASSUME NEW txn \in Other \union {NoTxn} PROVE Decided(txn)
  BY <1>1 DEF Other, NoTxn, Decided, TransactionStatus, PaysWallet, Explicit
<1> QED
  BY <1>1, PaymentDecided, TransferDecided DEF SignedTransaction

-----------------------------------------------------------------------------
(* The decision on a body.                                                 *)

Bodies == {Undecodable} \union Seq(Seq(SignedTransaction))
Sent == body \in Bodies

\* Whatever a client sends is a sequence of values, if it decodes.
LEMMA BodiesAreSent == Spec => []Sent
<1>1. Init => Sent
  <2>1. \A txn \in SignedTransaction : << <<txn>> >> \in Seq(Seq(SignedTransaction))
    <3>1. \A txn \in SignedTransaction : <<txn>> \in Seq(SignedTransaction)
      OBVIOUS
    <3> QED
      BY <3>1
  <2>2. << >> \in Seq(Seq(SignedTransaction))
    OBVIOUS
  <2>3. Init => body = Undecodable \/ body = << >>
                \/ \E txn \in SignedTransaction : body = << <<txn>> >>
    BY Zenon DEF Init
  <2> QED
    BY <2>1, <2>2, <2>3, Zenon DEF Bodies, Sent
<1>2. Sent /\ [Next]_vars => Sent'
  <2> SUFFICES ASSUME body \in Bodies, [Next]_vars PROVE body' \in Bodies
    BY DEF Sent
  <2>1. ASSUME NEW group \in Seq(SignedTransaction), MayGrow, body' = Append(body, group)
        PROVE  body' \in Bodies
    BY <2>1 DEF MayGrow, Bodies
  <2>2. CASE AppendTransaction
    <3>1. PICK txn \in Corpus : body' = Append(body, <<txn>>)
      BY <2>2 DEF AppendTransaction
    <3>2. <<txn>> \in Seq(SignedTransaction)
      BY CorpusAssumption DEF CorpusAssumption
    <3> QED
      BY <2>1, <2>2, <3>1, <3>2 DEF AppendTransaction
  <2>3. CASE AppendArray
    <3>1. PICK n \in 0..MaxGroup : \E group \in [1..n -> Corpus] : body' = Append(body, group)
      BY <2>3 DEF AppendArray
    <3>2. PICK group \in [1..n -> Corpus] : body' = Append(body, group)
      BY <3>1
    <3>3. n \in Nat
      BY PolicyAssumption DEF PolicyAssumption
    <3>4. group \in Seq(SignedTransaction)
      BY <3>3, CorpusAssumption DEF CorpusAssumption
    <3> QED
      BY <2>1, <2>3, <3>2, <3>4 DEF AppendArray
  <2> QED
    BY <2>2, <2>3 DEF Next, vars
<1> QED
  BY <1>1, <1>2, PTL DEF Spec

\* The status of a body that decodes: 400 if it holds nothing, else that of a
\* transaction in it, 0 only if every one passes.
LEMMA BodyStatus ==
  ASSUME NEW b \in Seq(Seq(SignedTransaction)), b # Undecodable
  PROVE  /\ Contents(b) \subseteq SignedTransaction
         /\ Contents(b) = {} => PolicyStatus(b) = 400
         /\ Contents(b) # {} =>
              /\ PolicyStatus(b) = 0 <=> \A txn \in Contents(b) : TransactionStatus(txn) = 0
              /\ PolicyStatus(b) # 0 =>
                   \E txn \in Contents(b) : PolicyStatus(b) = TransactionStatus(txn)
<1> DEFINE txns == SignedTransactions(b)
           n == Len(txns)
           statuses == [i \in DOMAIN txns |-> TransactionStatus(txns[i])]
<1>1. /\ txns \in Seq(SignedTransaction)
      /\ \A x : Holds(txns, x) <=> \E i \in DOMAIN b : Holds(b[i], x)
  BY FlattenHolds DEF SignedTransactions
<1>2. \A x : x \in Contents(b) <=> \E i \in DOMAIN b : Holds(b[i], x)
  BY DEF Contents, Holds
<1>3. n \in Nat /\ DOMAIN txns = 1..n /\ \A i \in 1..n : txns[i] \in SignedTransaction
  BY <1>1
<1>4. \A x : x \in Contents(b) <=> \E i \in 1..n : txns[i] = x
  BY <1>1, <1>2, <1>3 DEF Holds
<1>5. PolicyStatus(b) = IF txns = << >> THEN 400 ELSE FirstError(statuses)
  BY DEF PolicyStatus
<1>6. /\ DOMAIN statuses = 1..n
      /\ \A i \in 1..n : statuses[i] = TransactionStatus(txns[i])
  BY <1>3
<1>7. txns = << >> <=> n = 0
  BY <1>1
<1> HIDE DEF txns, n, statuses
<1>8. /\ FirstError(statuses) = 0 <=> \A i \in 1..n : statuses[i] = 0
      /\ FirstError(statuses) # 0 => \E i \in 1..n : FirstError(statuses) = statuses[i]
  BY <1>3, <1>6, FirstErrorIs
<1>9. Contents(b) = {} <=> n = 0
  <2>1. n # 0 => 1 \in 1..n
    BY <1>3
  <2>2. n = 0 => 1..n = {}
    OBVIOUS
  <2> QED
    BY <1>4, <2>1, <2>2
<1> QED
  BY <1>3, <1>4, <1>5, <1>6, <1>7, <1>8, <1>9

\* For every wallet, allowlist and body, of any number of values and arrays: the body
\* goes on to algod exactly when all it holds, and it holds something, are plain
\* transfers of something to the wallet (enforceSubmissionPolicy).
THEOREM PlainTransfers == Spec => []OnlyPlainTransfersPass
<1>1. ASSUME Sent PROVE OnlyPlainTransfersPass
  <2>1. CASE body = Undecodable
    BY <2>1 DEF PolicyStatus, OnlyPlainTransfersPass
  <2>2. CASE body # Undecodable
    <3>1. body \in Seq(Seq(SignedTransaction))
      BY <1>1, <2>2 DEF Bodies, Sent
    <3>2. \A txn \in Contents(body) : TransactionStatus(txn) = 0 <=> PaysWallet(txn)
      BY <2>2, <3>1, BodyStatus, TransactionDecided DEF Decided
    <3> QED
      BY <2>2, <3>1, <3>2, BodyStatus DEF OnlyPlainTransfersPass
  <2> QED
    BY <2>1, <2>2
<1> QED
  BY <1>1, BodiesAreSent, PTL

\* A body whose transactions spell out receiver, asset and amount and that breaks the
\* policy is answered with 403, wherever in it the transaction stands.
THEOREM Violations == Spec => []ExplicitViolationIsForbidden
<1>1. ASSUME Sent PROVE ExplicitViolationIsForbidden
  <2> SUFFICES ASSUME body # Undecodable, \A txn \in Contents(body) : Explicit(txn)
               PROVE  PolicyStatus(body) = 403 <=> \E txn \in Contents(body) : ~PaysWallet(txn)
    BY DEF ExplicitViolationIsForbidden
  <2>1. body \in Seq(Seq(SignedTransaction))
    BY <1>1 DEF Bodies, Sent
  <2>2. \A txn \in Contents(body) :
          /\ TransactionStatus(txn) = 0 <=> PaysWallet(txn)
          /\ TransactionStatus(txn) \in {0, 403}
    BY <2>1, BodyStatus, TransactionDecided DEF Decided
  <2>3. CASE Contents(body) = {}
    BY <2>1, <2>3, BodyStatus
  <2>4. CASE Contents(body) # {}
    BY <2>1, <2>2, <2>4, BodyStatus
  <2> QED
    BY <2>3, <2>4
<1> QED
  BY <1>1, BodiesAreSent, PTL
=============================================================================
