--------------------------- MODULE TransactionPolicy --------------------------
(***************************************************************************)
(* enforceSubmissionPolicy of src/transaction-policy.js: which bodies of   *)
(* signed transactions a gateway with a receiver wallet lets through, and  *)
(* the status of the error for the others.                                 *)
(*                                                                         *)
(* A body is the sequence of MessagePack values it decodes to, or          *)
(* Undecodable; a value that is an array stands for its elements, so every *)
(* value is written as a sequence.  An address is a model value and an     *)
(* asset ID or amount a small number; Absent is a field the map lacks,     *)
(* Misfit a value of a wrong kind or length.                               *)
(***************************************************************************)
EXTENDS Naturals, Sequences, SequencesExt

CONSTANTS
  Wallet,         \* config.submission.receiverWallet
  Stranger,       \* any other address
  AllowLists,     \* what config.submission.allowedAssetIds may be set to
  Assets,
  Absent,
  Misfit,
  Undecodable,
  Corpus,         \* signed transactions that longer bodies are made of
  MaxValues,      \* bound on the values of a body
  MaxGroup        \* bound on the transactions of an array

ASSUME PolicyAssumption ==
  /\ Wallet # Stranger
  /\ {Wallet, Stranger} \cap {Absent, Misfit} = {}
  /\ AllowLists \subseteq SUBSET Assets /\ Assets \subseteq Nat
  /\ MaxValues \in Nat /\ MaxGroup \in Nat

Address == {Wallet, Stranger}
Received == Address \union {Absent, Misfit}
Optional == Address \union {Absent}
Amounts == {0, 1, Absent, Misfit}

Payment ==
  [type : {"pay"}, receiver : Received, amount : Amounts,
   close : Optional, rekey : Optional]
AssetTransfer ==
  [type : {"axfer"}, receiver : Received, asset : Assets \union {Absent, Misfit},
   amount : Amounts, clawback : Optional, close : Optional, rekey : Optional]
Other == [type : {"appl"}]
NoTxn == [type |-> "none"]   \* not a map, or one without a txn map

SignedTransaction == Payment \union AssetTransfer \union Other \union {NoTxn}

ASSUME CorpusAssumption == Corpus \subseteq SignedTransaction

VARIABLES
  body,
  AllowedAssets  \* config.submission.allowedAssetIds, {} if there are none

vars == <<body, AllowedAssets>>

-----------------------------------------------------------------------------
Unsigned(n) == n \notin {Absent, Misfit}
Present(field) == field # Absent

ReceiverStatus(receiver) ==
  IF receiver \in {Absent, Misfit} THEN 400 ELSE IF receiver # Wallet THEN 403 ELSE 0

\* Mutant: a zero amount counts as a malformed one.
AmountStatusMalformed(amount) == IF ~Unsigned(amount) \/ amount = 0 THEN 400 ELSE 0

AmountStatus(amount) ==
  IF ~Unsigned(amount) THEN 400 ELSE IF amount = 0 THEN 403 ELSE 0

AssetStatus(asset) ==
  IF ~Unsigned(asset) THEN 400
  ELSE IF AllowedAssets # {} /\ asset \notin AllowedAssets THEN 403 ELSE 0

FieldStatus(field) == IF Present(field) THEN 403 ELSE 0

\* The first check that throws decides.
FirstError(checks) ==
  LET failing == {i \in DOMAIN checks : checks[i] # 0}
  IN  IF failing = {} THEN 0
      ELSE checks[CHOOSE i \in failing : \A j \in failing : i <= j]

AlgoPaymentStatus(txn) ==
  FirstError(<<ReceiverStatus(txn.receiver), AmountStatus(txn.amount),
               FieldStatus(txn.close), FieldStatus(txn.rekey)>>)

AsaTransferStatus(txn) ==
  FirstError(<<ReceiverStatus(txn.receiver), AssetStatus(txn.asset),
               AmountStatus(txn.amount), FieldStatus(txn.clawback),
               FieldStatus(txn.close), FieldStatus(txn.rekey)>>)

TransactionStatus(txn) ==
  CASE txn.type = "pay" -> AlgoPaymentStatus(txn)
    [] txn.type = "axfer" -> AsaTransferStatus(txn)
    [] txn.type = "none" -> 400
    [] OTHER -> 403

\* Mutant: only the first value of the body is looked at.
SignedTransactionsFirst(values) == IF values = <<>> THEN <<>> ELSE Head(values)

\* decodeSignedTransactions: arrays are spread into one list.
SignedTransactions(values) == FlattenSeq(values)

\* enforceSubmissionPolicy: the status it throws, 0 if it returns.
PolicyStatus(b) ==
  IF b = Undecodable THEN 400
  ELSE LET txns == SignedTransactions(b)
       IN  IF txns = <<>> THEN 400
           ELSE FirstError([i \in DOMAIN txns |-> TransactionStatus(txns[i])])

-----------------------------------------------------------------------------
(* The bodies a client may send: any transaction alone, and sequences of   *)
(* values made of the corpus, one value after the other.                   *)

Contents(b) == UNION {{b[i][j] : j \in DOMAIN b[i]} : i \in DOMAIN b}

Init ==
  /\ body \in {Undecodable, <<>>} \union {<< <<txn>> >> : txn \in SignedTransaction}
  /\ AllowedAssets \in AllowLists

MayGrow ==
  body # Undecodable /\ Len(body) < MaxValues /\ Contents(body) \subseteq Corpus

AppendTransaction ==
  /\ MayGrow
  /\ \E txn \in Corpus : body' = Append(body, <<txn>>)
  /\ UNCHANGED AllowedAssets

AppendArray ==
  /\ MayGrow
  /\ \E n \in 0..MaxGroup : \E group \in [1..n -> Corpus] : body' = Append(body, group)
  /\ UNCHANGED AllowedAssets

Next == AppendTransaction \/ AppendArray

Spec == Init /\ [][Next]_vars

-----------------------------------------------------------------------------
(* What the ledger does with a transaction: the reference the policy is    *)
(* held against.  In the canonical encoding a field that is zero is        *)
(* absent.                                                                 *)

LedgerAmount(n) == IF n = Absent THEN 0 ELSE n

\* Accounts that receive ALGO or an asset, were the transaction executed.
Beneficiaries(txn) ==
  {txn.receiver} \union IF txn.close = Absent THEN {} ELSE {txn.close}

TakesFromOthers(txn) == txn.type = "axfer" /\ txn.clawback # Absent
ChangesAuthority(txn) == txn.rekey # Absent
EmptiesAccount(txn) == txn.close # Absent
AssetWanted(txn) ==
  txn.type = "axfer" => Unsigned(txn.asset) /\ (AllowedAssets = {} \/ txn.asset \in AllowedAssets)

\* A plain transfer of something to the wallet, and to nobody else.
PaysWallet(txn) ==
  /\ txn.type \in {"pay", "axfer"}
  /\ Beneficiaries(txn) = {Wallet}
  /\ Unsigned(txn.amount) /\ txn.amount > 0
  /\ AssetWanted(txn)
  /\ ~TakesFromOthers(txn) /\ ~ChangesAuthority(txn) /\ ~EmptiesAccount(txn)

\* A body goes on to algod exactly when it holds a transaction and all it holds,
\* in whatever mixture of arrays and values, are plain transfers of something to
\* the wallet (enforceSubmissionPolicy, README.md:101).
OnlyPlainTransfersPass ==
  PolicyStatus(body) = 0 <=>
    /\ body # Undecodable
    /\ Contents(body) # {}
    /\ \A txn \in Contents(body) : PaysWallet(txn)

\* A body that breaks the policy, all of whose transactions spell out receiver,
\* asset and amount, is answered with 403, whatever the order of the checks.
Explicit(txn) ==
  /\ txn.type # "none"
  /\ \A f \in DOMAIN txn \cap {"receiver", "asset", "amount"} :
       txn[f] \notin {Absent, Misfit}
ExplicitViolationIsForbidden ==
  body # Undecodable /\ (\A txn \in Contents(body) : Explicit(txn)) =>
    (PolicyStatus(body) = 403 <=> \E txn \in Contents(body) : ~PaysWallet(txn))

\* What the guide says of every zero-amount payment to the wallet: it is refused
\* with 403.  The amount a client leaves out, as the canonical encoding of zero
\* does, is answered with 400.
ZeroPayment(txn) ==
  /\ txn.type = "pay" /\ txn.receiver = Wallet
  /\ txn.amount # Misfit /\ LedgerAmount(txn.amount) = 0
ZeroAmountIsViolation ==
  body # Undecodable /\ Contents(body) # {}
    /\ (\A txn \in Contents(body) : ZeroPayment(txn))
    => PolicyStatus(body) = 403
=============================================================================
