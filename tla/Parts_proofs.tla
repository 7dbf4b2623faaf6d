------------------------------ MODULE Parts_proofs ------------------------------
(***************************************************************************)
(* Proofs about the parts that compute and do not wait, taken together as   *)
(* MCParts takes them: SubmissionBody, Configuration, ServerlessInstances,  *)
(* IpRules, RequestPath, SettlementReconciliation, AlgorandAddress and       *)
(* CanonicalJson.                                                           *)
(* Induction over naturals, and what FlattenSeq is, are lemmas of           *)
(* MessagePack_proofs.                                                      *)
(***************************************************************************)
EXTENDS MessagePack_proofs, SubmissionBody, IpRules, RequestPath, ServerlessInstances,
        SettlementReconciliation, AlgorandAddress, CanonicalJson,
        FiniteSetTheorems, Integers, TLAPS

-----------------------------------------------------------------------------
(* SubmissionBody: every limit and every body, cut into chunks of any sizes. *)

\* What is kept is what has come, and no more than the limit; an outcome that is not
\* the end of the connection is the one of the whole body.
UInv ==
  /\ upload \in [content : Contents, length : 0..MaxSent, received : Nat, kept : Nat,
                 outcome : Nat, forwarded : Nat]
  /\ upload.received <= upload.length
  /\ upload.kept <= MaxBodyBytes
  /\ upload.outcome = Reading => upload.kept = upload.received
  /\ upload.outcome \notin {Reading, Aborted} =>
       upload.outcome = IF upload.length > MaxBodyBytes THEN 413
                        ELSE Status(upload.content, upload.length)
  /\ upload.outcome = 200 =>
       /\ upload.length <= MaxBodyBytes
       /\ upload.forwarded = Forwarded(upload.content, upload.length)

\* The status of a whole body is none of the other outcomes.
LEMMA StatusRange == \A c, n : Status(c, n) \in {200, 400, 500}
BY DEF Status

\* What is forwarded is a number of bytes.
LEMMA ForwardedRange ==
  ASSUME NEW c \in Contents, NEW n \in Nat
  PROVE  Forwarded(c, n) \in Nat
<1>1. c.chars \in Nat
  BY BodyAssumption DEF Contents, BodyAssumption
<1>2. DecodedLength(c) \in Nat
  BY <1>1 DEF DecodedLength
<1> QED
  BY <1>2 DEF Forwarded

\* Nothing is kept of a body that has not begun.
LEMMA InitUInv == UploadInit => UInv
<1> SUFFICES ASSUME UploadInit PROVE UInv
  OBVIOUS
<1>1. /\ upload \in [content : Contents, length : 0..MaxSent, received : {0}, kept : {0},
                     outcome : {Reading}, forwarded : {0}]
  BY DEF UploadInit
<1>2. MaxSent \in Nat /\ MaxBodyBytes \in Nat
  BY BodyAssumption DEF BodyAssumption
<1> QED
  BY <1>1, <1>2 DEF UInv, Reading, Aborted

\* Every turn keeps the invariant: a chunk takes the total over the limit at once or
\* never, and only a body that has ended is interpreted.
LEMMA StepUInv == UInv /\ [UploadNext]_upload => UInv'
<1> SUFFICES ASSUME UInv, [UploadNext]_upload PROVE UInv'
  OBVIOUS
<1>1. MaxSent \in Nat /\ MaxBodyBytes \in Nat
  BY BodyAssumption DEF BodyAssumption
<1>2. /\ upload \in [content : Contents, length : 0..MaxSent, received : Nat, kept : Nat,
                     outcome : Nat, forwarded : Nat]
      /\ upload.received <= upload.length /\ upload.kept <= MaxBodyBytes
  BY DEF UInv
<1>3. CASE Receive
  <2>1. upload.outcome = Reading /\ upload.kept = upload.received
    BY <1>3 DEF Receive, UInv
  <2>2. PICK size \in 1..(upload.length - upload.received) :
          upload' = IF TooLarge(upload.received + size, size)
                    THEN [upload EXCEPT !.received = upload.received + size, !.outcome = 413]
                    ELSE [upload EXCEPT !.received = upload.received + size,
                                        !.kept = upload.kept + size]
    BY <1>3 DEF Receive
  <2> DEFINE total == upload.received + size
  <2>3. total \in Nat /\ total <= upload.length /\ upload.length \in Nat
    BY <1>1, <1>2, <2>2
  <2>4. CASE TooLarge(total, size)
    <3> DEFINE refusal == 413
    <3>1. upload' = [upload EXCEPT !.received = total, !.outcome = refusal]
      BY <2>2, <2>4
    <3>2. upload.length > MaxBodyBytes
      BY <1>1, <2>3, <2>4 DEF TooLarge
    <3>3. refusal \in Nat
      OBVIOUS
    <3> HIDE DEF total, refusal
    <3>4. /\ upload' \in [content : Contents, length : 0..MaxSent, received : Nat,
                         kept : Nat, outcome : Nat, forwarded : Nat]
          /\ upload'.received = total /\ upload'.outcome = refusal
          /\ upload'.kept = upload.kept /\ upload'.length = upload.length
      BY <1>2, <2>3, <3>1, <3>3
    <3> QED
      BY <1>2, <2>3, <3>2, <3>4 DEF UInv, Reading, Aborted, refusal
  <2>5. CASE ~TooLarge(total, size)
    <3>1. upload' = [upload EXCEPT !.received = total, !.kept = total]
      BY <2>1, <2>2, <2>5
    <3>2. total <= MaxBodyBytes
      BY <1>1, <2>3, <2>5 DEF TooLarge
    <3> QED
      BY <1>1, <1>2, <2>1, <2>3, <3>1, <3>2 DEF UInv, Reading, Aborted
  <2> QED
    BY <2>4, <2>5
<1>4. CASE Interpret
  <2>1. /\ upload.kept = upload.length /\ upload.length <= MaxBodyBytes
        /\ upload.length \in Nat
        /\ upload' = [upload EXCEPT
             !.outcome = Status(upload.content, upload.length),
             !.forwarded = Forwarded(upload.content, upload.length)]
    BY <1>1, <1>2, <1>4 DEF Interpret, UInv
  <2>2. Status(upload.content, upload.length) \in {200, 400, 500}
    BY StatusRange
  <2>3. Forwarded(upload.content, upload.length) \in Nat
    BY <1>2, <2>1, ForwardedRange
  <2>4. ~(upload.length > MaxBodyBytes)
    BY <1>1, <2>1
  <2> DEFINE status == Status(upload.content, upload.length)
             bytes == Forwarded(upload.content, upload.length)
  <2>5. status \in Nat /\ bytes \in Nat
    BY <2>2, <2>3
  <2>6. upload' = [upload EXCEPT !.outcome = status, !.forwarded = bytes]
    BY <2>1
  <2> HIDE DEF status, bytes
  <2>7. /\ upload' \in [content : Contents, length : 0..MaxSent, received : Nat,
                       kept : Nat, outcome : Nat, forwarded : Nat]
        /\ upload'.received = upload.received /\ upload'.kept = upload.kept
        /\ upload'.length = upload.length /\ upload'.content = upload.content
        /\ upload'.outcome = status /\ upload'.forwarded = bytes
    BY <1>2, <2>5, <2>6
  <2> QED
    BY <1>2, <2>1, <2>2, <2>4, <2>7 DEF UInv, Reading, Aborted, status, bytes
<1>5. CASE Abort
  <2>1. upload' = [upload EXCEPT !.outcome = Aborted]
    BY <1>5 DEF Abort
  <2> QED
    BY <1>2, <2>1 DEF UInv, Reading, Aborted
<1>6. CASE UNCHANGED upload
  BY <1>6 DEF UInv
<1> QED
  BY <1>3, <1>4, <1>5, <1>6 DEF UploadNext

\* UInv holds in every reachable state.
LEMMA Uploads == UploadSpec => []UInv
<1> QED
  BY InitUInv, StepUInv, PTL DEF UploadSpec

\* For every limit, body and way to cut it: the answer is that of the whole body, 413
\* exactly when it is over the limit, and no more than the limit is held.
THEOREM Chunking == UploadSpec => []ChunksDoNotMatter
<1>1. UInv => ChunksDoNotMatter
  BY DEF UInv, ChunksDoNotMatter
<1> QED
  BY <1>1, Uploads, PTL

\* Of a base64 text that is not padded, or padded as it should be, less than a
\* character of bits is dropped: the ones that fill no byte.
LEMMA BitsDropped ==
  ASSUME NEW c \in Contents, IsStrictBase64(c), c.pads = 0 \/ (c.chars + c.pads) % 4 = 0
  PROVE  6 * c.chars - 8 * DecodedLength(c) < 6
<1>1. c.chars \in Nat /\ c.pads \in 0..3
  BY BodyAssumption DEF Contents, BodyAssumption
<1>2. (c.chars + c.pads) % 4 # 1 /\ c.pads \in {0, 1, 2}
  BY <1>1 DEF IsStrictBase64
<1>3. PICK q \in Nat, r \in 0..3 : c.chars = 4 * q + r
  <2>1. ASSUME NEW n \in Nat PROVE \E q \in Nat : \E r \in 0..3 : n = 4 * q + r
    <3>1. n = 4 * (n \div 4) + (n % 4)
      OBVIOUS
    <3>2. n \div 4 \in Nat /\ n % 4 \in 0..3
      OBVIOUS
    <3> QED
      BY <3>1, <3>2
  <2> QED
    BY <1>1, <2>1
<1>4. r # 1
  BY <1>1, <1>2, <1>3
<1>5. DecodedLength(c) = (6 * (4 * q + r)) \div 8
  BY <1>3 DEF DecodedLength
<1>6. /\ r = 0 => (6 * (4 * q + r)) \div 8 = 3 * q
      /\ r = 2 => (6 * (4 * q + r)) \div 8 = 3 * q + 1
      /\ r = 3 => (6 * (4 * q + r)) \div 8 = 3 * q + 2
  BY <1>3
<1> QED
  BY <1>3, <1>4, <1>5, <1>6

\* For every limit and body: the transaction forwarded is the one the client wrote.
THEOREM Characters == UploadSpec => []NoCharacterIsLost
<1>1. ASSUME UInv, upload.outcome = 200, upload.content.kind = "base64",
             \/ upload.content.pads = 0
             \/ (upload.content.chars + upload.content.pads) % 4 = 0
      PROVE  6 * upload.content.chars - 8 * upload.forwarded < 6
  <2> DEFINE c == upload.content
  <2>1. /\ c \in Contents /\ Status(c, upload.length) = 200
        /\ upload.forwarded = Forwarded(c, upload.length)
    BY <1>1, BodyAssumption DEF UInv, Reading, Aborted, BodyAssumption
  <2>2. IsStrictBase64(c) /\ upload.forwarded = DecodedLength(c)
    BY <1>1, <2>1 DEF Status, Forwarded
  <2> QED
    BY <1>1, <2>1, <2>2, BitsDropped
<1>2. UInv => NoCharacterIsLost
  BY <1>1 DEF NoCharacterIsLost
<1> QED
  BY <1>2, Uploads, PTL
-----------------------------------------------------------------------------
(* Configuration: every environment.                                       *)

\* A page limit that is accepted is a number of its range.
LEMMA LimitsAreNumbers ==
  ASSUME NEW e, Accepted(e)
  PROVE  /\ Integer(e, "DEFAULT_PAGE_LIMIT") \in Nat \ {0}
         /\ Integer(e, "MAX_PAGE_LIMIT") \in Nat \ {0}
         /\ e["MAX_PAGE_LIMIT"] # Unset =>
              Integer(e, "DEFAULT_PAGE_LIMIT") <= Integer(e, "MAX_PAGE_LIMIT")
<1> DEFINE first == e["DEFAULT_PAGE_LIMIT"]
           top == e["MAX_PAGE_LIMIT"]
           default == Integer(e, "DEFAULT_PAGE_LIMIT")
           max == Integer(e, "MAX_PAGE_LIMIT")
           most == IntegerSettings["MAX_PAGE_LIMIT"].max
<1>1. /\ IntegerFits(e, "DEFAULT_PAGE_LIMIT") /\ IntegerFits(e, "MAX_PAGE_LIMIT")
  BY DEF Accepted, IntegerSettings
<1>2. /\ IntegerSettings["DEFAULT_PAGE_LIMIT"].default = 100
      /\ IntegerSettings["DEFAULT_PAGE_LIMIT"].min = 1
      /\ IntegerSettings["DEFAULT_PAGE_LIMIT"].max = most
      /\ IntegerSettings["MAX_PAGE_LIMIT"].default = 1000
      /\ most \in Nat
  BY DEF IntegerSettings, Parsed
<1>3. Least(e, "DEFAULT_PAGE_LIMIT") = 1 /\ Least(e, "MAX_PAGE_LIMIT") = default
  BY <1>2 DEF Least
<1> HIDE DEF most
<1>4. first # Unset => first \in 1..most
  BY <1>1, <1>2, <1>3 DEF IntegerFits
<1>5. default = IF first = Unset THEN 100 ELSE first
  BY <1>2 DEF Integer
<1>6. top # Unset => top \in default..most
  BY <1>1, <1>2, <1>3 DEF IntegerFits, most
<1>7. max = IF top = Unset THEN 1000 ELSE top
  BY <1>2 DEF Integer
<1> HIDE DEF first, top, default, max
<1>8. default \in Nat \ {0}
  BY <1>2, <1>4, <1>5
<1>9. max \in Nat \ {0} /\ (top # Unset => default <= max)
  BY <1>2, <1>6, <1>7, <1>8
<1> QED
  BY <1>8, <1>9 DEF top, default, max

\* For every set of environments: the pages asked of the indexer are not empty, and
\* larger than the maximum only when the maximum is left below the default.
THEOREM Pages == ConfigSpec => []PagesFitMaximum
<1>1. ASSUME Accepted(env) PROVE PagesFitMaximum
  <2> DEFINE default == Integer(env, "DEFAULT_PAGE_LIMIT")
             max == Integer(env, "MAX_PAGE_LIMIT")
             unset == env["MAX_PAGE_LIMIT"] = Unset
  <2>1. default \in Nat \ {0} /\ max \in Nat \ {0} /\ (~unset => default <= max)
    BY <1>1, LimitsAreNumbers
  <2>2. ASSUME NEW limit
        PROVE  BoundedInteger(limit, max) \in {PageRefused} \union 1..max
    BY DEF BoundedInteger
  <2>3. /\ \A limit : TransactionPage(env, limit) =
             IF limit = Unset THEN default ELSE BoundedInteger(limit, max)
        /\ \A limit : EvidencePage(env, limit) =
             IF limit = Unset THEN IF max < 10 THEN max ELSE 10 ELSE BoundedInteger(limit, max)
    BY DEF TransactionPage, EvidencePage
  <2> HIDE DEF default, max, unset
  <2>4. ~(unset /\ default > max) => default \in 1..max
    BY <2>1
  <2>5. /\ (IF max < 10 THEN max ELSE 10) \in 1..max
        /\ (IF max < 10 THEN max ELSE 10) # PageRefused
    BY <2>1 DEF PageRefused
  <2>6. ASSUME NEW limit
        PROVE  /\ limit # Unset \/ ~(unset /\ default > max) =>
                    TransactionPage(env, limit) \in {PageRefused} \union 1..max
               /\ EvidencePage(env, limit) \in {PageRefused} \union 1..max
               /\ limit = Unset => EvidencePage(env, limit) # PageRefused
    BY <2>2, <2>3, <2>4, <2>5, Zenon
  <2> QED
    BY <2>6, Zenon DEF PagesFitMaximum, default, max, unset
<1>2. PagesFitMaximum
  BY <1>1 DEF PagesFitMaximum
<1> QED
  BY <1>2, PTL
-----------------------------------------------------------------------------
(* IpRules: addresses of any width.                                        *)

IpTypeOK ==
  visit \in [platform : {"server", "serverless"}, peer : AddressTexts,
             forwarded : {NoAddress} \union Forwardings, trustProxy : BOOLEAN,
             rule : {{}} \union {{rule} : rule \in RuleSet}]

\* A request and the rule it meets are what they are said to be.
LEMMA IpTypes == IpSpec => []IpTypeOK
<1>1. IpInit => IpTypeOK
  BY DEF IpInit, IpTypeOK
<1>2. IpTypeOK /\ [IpNext]_visit => IpTypeOK'
  BY DEF IpTypeOK, IpNext
<1> QED
  BY <1>1, <1>2, PTL DEF IpSpec

\* In the two notations of IPv4 an address is read as the same register, and a text
\* of another kind as no IPv4 address but the one of the loopback interface.
LEMMA AddressesAre ==
  /\ AllZeros \in Ipv4
  /\ \A text \in AddressTexts :
       /\ NormalizeIp(text).kind = "v4" => NormalizeIp(text).number \in Ipv4
       /\ text.kind \in {"v4", "mapped"} => NormalizeIp(text) = Ip("v4", text.number)
       /\ text.kind \in {"v4", "mapped"} => text.number \in Ipv4
<1>1. AllZeros \in Ipv4 /\ Loopback \in Ipv4
  BY IpAssumption DEF IpAssumption, AllZeros, Ipv4
<1>2. ASSUME NEW text \in AddressTexts
      PROVE  /\ text = Ip(text.kind, text.number)
             /\ text.kind \in {"v4", "mapped", "loop", "text"}
             /\ text.kind \in {"v4", "mapped"} => text.number \in Ipv4
  BY DEF AddressTexts, Ip
<1> QED
  BY <1>1, <1>2 DEF NormalizeIp, Ip

\* A client with an IPv4 address has a register for it.
LEMMA ClientsAre ==
  ASSUME IpTypeOK
  PROVE  GetClientIp(visit).kind = "v4" => GetClientIp(visit).number \in Ipv4
<1>1. Forwardings \subseteq AddressTexts
  BY IpAssumption DEF IpAssumption
<1>2. /\ visit.peer \in AddressTexts
      /\ visit.forwarded = NoAddress \/ visit.forwarded \in AddressTexts
  BY <1>1 DEF IpTypeOK
<1>3. RemoteAddress(visit) \in AddressTexts
  BY <1>2 DEF RemoteAddress
<1> QED
  BY <1>2, <1>3, AddressesAre DEF GetClientIp

\* The mask of a prefix is ones in its places and zeros in the others, with no shift
\* by the width of the register that a prefix of no bits would ask for.
LEMMA MaskIs ==
  ASSUME NEW prefix \in 0..IpBits
  PROVE  /\ Mask(prefix) \in Ipv4
         /\ \A bit \in Bits : Mask(prefix)[bit] = IF bit >= IpBits - prefix THEN 1 ELSE 0
<1>1. IpBits \in Nat \ {0}
  BY IpAssumption DEF IpAssumption
<1>2. CASE prefix = 0
  <2>1. Mask(prefix) = AllZeros
    BY <1>2 DEF Mask
  <2>2. \A bit \in Bits : ~(bit >= IpBits - prefix)
    BY <1>1, <1>2 DEF Bits
  <2> QED
    BY <2>1, <2>2, AddressesAre DEF AllZeros
<1>3. CASE prefix # 0
  <2> DEFINE count == IpBits - prefix
  <2>1. count \in Nat /\ count < IpBits
    BY <1>1, <1>3
  <2>2. count % IpBits = count
    BY <1>1, <2>1
  <2>3. Mask(prefix) = ShiftLeft(AllOnes, count)
    BY <1>3 DEF Mask
  <2> HIDE DEF count
  <2>4. Mask(prefix) = [bit \in Bits |-> IF bit < count THEN 0 ELSE AllOnes[bit - count]]
    BY <2>2, <2>3 DEF ShiftLeft
  <2>5. \A bit \in Bits : ~(bit < count) => bit - count \in Bits
    BY <1>1, <2>1 DEF Bits
  <2>6. Mask(prefix) = [bit \in Bits |-> IF bit < count THEN 0 ELSE 1]
    BY <2>4, <2>5 DEF AllOnes
  <2>7. \A bit \in Bits : bit < count <=> ~(bit >= count)
    BY <1>1, <2>1 DEF Bits
  <2> QED
    BY <2>6, <2>7 DEF Ipv4, count
<1> QED
  BY <1>2, <1>3

\* Two registers agree under a mask when they agree where it is one.
LEMMA MaskedEqual ==
  ASSUME NEW m \in Ipv4, NEW n \in Ipv4, NEW prefix \in 0..IpBits
  PROVE  BitwiseAnd(m, Mask(prefix)) = BitwiseAnd(n, Mask(prefix)) <=>
           \A bit \in (IpBits - prefix)..(IpBits - 1) : m[bit] = n[bit]
<1>1. IpBits \in Nat \ {0}
  BY IpAssumption DEF IpAssumption
<1> DEFINE mask == Mask(prefix)
<1>2. \A bit \in Bits : mask[bit] = IF bit >= IpBits - prefix THEN 1 ELSE 0
  BY MaskIs
<1> HIDE DEF mask
<1>3. \A bit \in Bits : m[bit] \in {0, 1} /\ n[bit] \in {0, 1}
  BY DEF Ipv4
<1>4. \A bit \in Bits : m[bit] * mask[bit] = n[bit] * mask[bit] <=>
        (bit >= IpBits - prefix => m[bit] = n[bit])
  BY <1>2, <1>3
<1>5. \A bit : bit \in (IpBits - prefix)..(IpBits - 1) <=>
                 bit \in Bits /\ bit >= IpBits - prefix
  BY <1>1 DEF Bits
<1>6. BitwiseAnd(m, mask) = BitwiseAnd(n, mask) <=>
        \A bit \in Bits : m[bit] * mask[bit] = n[bit] * mask[bit]
  BY DEF BitwiseAnd
<1> QED
  BY <1>4, <1>5, <1>6 DEF mask

\* For every width of an address: a rule with a prefix lets in the clients whose
\* address begins with it, and no others.
THEOREM PrefixRules == IpSpec => []CidrMatchesPrefix
<1>1. ASSUME IpTypeOK, NEW rule \in visit.rule, rule.hasPrefix, rule.prefix \in 0..IpBits,
             rule.address.kind \in {"v4", "mapped"}
      PROVE  MatchesIpRule(GetClientIp(visit), rule) <=>
               /\ GetClientIp(visit).kind = "v4"
               /\ \A bit \in (IpBits - rule.prefix)..(IpBits - 1) :
                    GetClientIp(visit).number[bit] = NormalizeIp(rule.address).number[bit]
  <2> DEFINE client == GetClientIp(visit)
             network == NormalizeIp(rule.address)
  <2>1. rule.address \in AddressTexts
    BY <1>1 DEF IpTypeOK, RuleSet
  <2>2. network.kind = "v4" /\ network.number \in Ipv4
    BY <1>1, <2>1, AddressesAre DEF Ip
  <2>3. RuleNetwork(rule) = network
    BY <1>1 DEF RuleNetwork
  <2>4. client.kind = "v4" => client.number \in Ipv4
    BY <1>1, ClientsAre
  <2> HIDE DEF client, network
  <2>5. MatchesIpRule(client, rule) <=>
          /\ client.kind = "v4"
          /\ BitwiseAnd(client.number, Mask(rule.prefix)) =
               BitwiseAnd(network.number, Mask(rule.prefix))
    BY <1>1, <2>2, <2>3, Zenon DEF MatchesIpRule
  <2> QED
    BY <1>1, <2>2, <2>4, <2>5, MaskedEqual DEF client, network
<1>2. IpTypeOK => CidrMatchesPrefix
  BY <1>1 DEF CidrMatchesPrefix
<1> QED
  BY <1>2, IpTypes, PTL
-----------------------------------------------------------------------------
(* ServerlessInstances: any finite number of instances, started and stopped *)
(* in any order.                                                            *)

Burst == Integer(fleet.env, "RATE_LIMIT_BURST")

\* The tokens left at the instances, and the instances with nothing to replay.
Tokens ==
  {token \in Instances \X (1..Burst) :
     \/ fleet.instance[token[1]].made = "none"
     \/ token[2] <= fleet.instance[token[1]].level}
Fresh == {i \in Instances : ~fleet.instance[i].cached}

FleetTypeOK ==
  fleet \in [env : Deployments,
             instance : [Instances -> [made : {"none", "handler", "error"}, level : Nat,
                                       cached : BOOLEAN]],
             starts : Nat, granted : Nat, acknowledged : Nat, failed : BOOLEAN]

\* Only an instance with a handler has something to replay, an accepted environment makes no
\* error and another one no handler, and no bucket holds more than a burst.
InstancesOK ==
  \A i \in Instances :
    /\ fleet.instance[i].made # "handler" => ~fleet.instance[i].cached
    /\ fleet.instance[i].made # IF Accepted(fleet.env) THEN "error" ELSE "handler"
    /\ Accepted(fleet.env) => fleet.instance[i].level <= Burst

\* Every token and every first acknowledgement is still at an instance, has been
\* given, or went with an instance.
FInv ==
  /\ FleetTypeOK /\ InstancesOK
  /\ ~Accepted(fleet.env) => fleet.granted = 0
  /\ fleet.failed => ~Accepted(fleet.env)
  /\ fleet.acknowledged + Cardinality(Fresh) <= fleet.starts
  /\ Accepted(fleet.env) /\ Flag(fleet.env, "RATE_LIMIT_ENABLED") =>
       fleet.granted + Cardinality(Tokens) <= Burst * fleet.starts

\* The burst of an accepted environment is a number.
LEMMA BurstIsNat ==
  ASSUME NEW e, Accepted(e)
  PROVE  Integer(e, "RATE_LIMIT_BURST") \in Nat
<1> DEFINE set == e["RATE_LIMIT_BURST"]
           burst == Integer(e, "RATE_LIMIT_BURST")
           most == IntegerSettings["RATE_LIMIT_BURST"].max
<1>1. IntegerFits(e, "RATE_LIMIT_BURST")
  BY DEF Accepted, IntegerSettings
<1>2. /\ IntegerSettings["RATE_LIMIT_BURST"].default = 120
      /\ IntegerSettings["RATE_LIMIT_BURST"].min = 1
      /\ most \in Nat
  BY DEF IntegerSettings, Parsed
<1>3. Least(e, "RATE_LIMIT_BURST") = 1
  BY <1>2 DEF Least
<1>4. set # Unset => set \in 1..most
  BY <1>1, <1>2, <1>3 DEF IntegerFits
<1>5. burst = IF set = Unset THEN 120 ELSE set
  BY <1>2 DEF Integer
<1> HIDE DEF set, burst, most
<1>6. burst \in Nat
  BY <1>2, <1>4, <1>5
<1> QED
  BY <1>6 DEF burst

\* There are finitely many tokens and instances.
LEMMA FleetIsFinite ==
  /\ IsFiniteSet(Fresh) /\ Cardinality(Fresh) \in Nat
  /\ Accepted(fleet.env) => IsFiniteSet(Tokens) /\ Cardinality(Tokens) \in Nat
<1>1. IsFiniteSet(Instances)
  BY InstancesAssumption DEF InstancesAssumption
<1>2. Fresh \in SUBSET Instances
  BY DEF Fresh
<1>3. IsFiniteSet(Fresh)
  BY <1>1, <1>2, FS_Subset
<1>4. ASSUME Accepted(fleet.env) PROVE IsFiniteSet(Tokens)
  <2>1. Burst \in Nat
    BY <1>4, BurstIsNat DEF Burst
  <2>2. IsFiniteSet(1..Burst)
    BY <2>1, FS_Interval
  <2>3. IsFiniteSet(Instances \X (1..Burst))
    BY <1>1, <2>2, FS_Product
  <2>4. Tokens \in SUBSET (Instances \X (1..Burst))
    BY DEF Tokens
  <2> QED
    BY <2>3, <2>4, FS_Subset
<1> QED
  BY <1>3, <1>4, FS_CardinalityType

\* At first every instance has a burst of tokens and nothing to replay.
LEMMA InitFInv == FleetInit => FInv
<1> SUFFICES ASSUME FleetInit PROVE FInv
  OBVIOUS
<1>1. PICK e \in Deployments : fleet = FleetOf(e)
  BY DEF FleetInit
<1>2. IsFiniteSet(Instances) /\ Cardinality(Instances) \in Nat
  BY InstancesAssumption, FS_CardinalityType DEF InstancesAssumption
<1>3. FleetTypeOK
  BY <1>1, <1>2 DEF FleetTypeOK, FleetOf, NoHandler, Made
<1>4. /\ fleet.env = e /\ fleet.starts = Cardinality(Instances)
      /\ fleet.granted = 0 /\ fleet.acknowledged = 0 /\ fleet.failed = FALSE
      /\ \A i \in Instances : fleet.instance[i] = NoHandler
  BY <1>1 DEF FleetOf
<1>5. Fresh = Instances
  BY <1>4 DEF Fresh, NoHandler, Made
<1>6. ASSUME Accepted(fleet.env)
      PROVE  fleet.granted + Cardinality(Tokens) <= Burst * fleet.starts
  <2>1. Burst \in Nat
    BY <1>6, BurstIsNat DEF Burst
  <2>2. Tokens = Instances \X (1..Burst)
    BY <1>4 DEF Tokens, NoHandler, Made
  <2>3. IsFiniteSet(1..Burst) /\ Cardinality(1..Burst) = Burst
    BY <2>1, FS_Interval
  <2>4. Cardinality(Tokens) = Cardinality(Instances) * Burst
    BY <1>2, <2>2, <2>3, FS_Product
  <2> QED
    BY <1>2, <1>4, <2>1, <2>4
<1>7. InstancesOK
  BY <1>4, BurstIsNat DEF InstancesOK, NoHandler, Made, Burst
<1> QED
  BY <1>2, <1>3, <1>4, <1>5, <1>6, <1>7 DEF FInv
-----------------------------------------------------------------------------
\* What an instance has made, once a request reached it.
LEMMA PreparedIs ==
  ASSUME FInv, NEW i \in Instances
  PROVE  LET made == fleet.instance[i]
             m == Prepared(made)
         IN  /\ m \in [made : {"handler", "error"}, level : Nat, cached : BOOLEAN]
             /\ m.cached = made.cached
             /\ m.made = IF Accepted(fleet.env) THEN "handler" ELSE "error"
             /\ Accepted(fleet.env) => m.level <= Burst
             /\ Accepted(fleet.env) =>
                  \A n \in 1..Burst : n <= m.level <=> made.made = "none" \/ n <= made.level
<1> DEFINE made == fleet.instance[i]
           m == Prepared(made)
<1>1. /\ made \in [made : {"none", "handler", "error"}, level : Nat, cached : BOOLEAN]
      /\ made.made # "handler" => ~made.cached
      /\ made.made # IF Accepted(fleet.env) THEN "error" ELSE "handler"
      /\ Accepted(fleet.env) => made.level <= Burst
  BY DEF FInv, FleetTypeOK, InstancesOK
<1>2. Accepted(fleet.env) => Burst \in Nat
  BY BurstIsNat DEF Burst
<1> HIDE DEF made
<1>3. CASE made.made # "none"
  <2>1. m = made
    BY <1>3 DEF Prepared
  <2> QED
    BY <1>1, <1>2, <1>3, <2>1 DEF made
<1>4. CASE made.made = "none" /\ Accepted(fleet.env)
  <2>1. m = Made("handler", Burst, FALSE)
    BY <1>4 DEF Prepared, Burst
  <2>2. \A n \in 1..Burst : n <= Burst
    BY <1>2, <1>4
  <2> HIDE DEF m
  <2>3. m.made = "handler" /\ m.level = Burst /\ m.cached = FALSE
    BY <2>1 DEF Made
  <2>4. m \in [made : {"handler", "error"}, level : Nat, cached : BOOLEAN]
    BY <1>2, <1>4, <2>1 DEF Made
  <2> QED
    BY <1>1, <1>2, <1>4, <2>2, <2>3, <2>4 DEF made, m
<1>5. CASE made.made = "none" /\ ~Accepted(fleet.env)
  <2>1. m = Made("error", 0, FALSE)
    BY <1>5 DEF Prepared
  <2> HIDE DEF m
  <2>2. m.made = "error" /\ m.cached = FALSE
    BY <2>1 DEF Made
  <2>3. m \in [made : {"handler", "error"}, level : Nat, cached : BOOLEAN]
    BY <2>1 DEF Made
  <2> QED
    BY <1>1, <1>5, <2>2, <2>3 DEF made, m
<1> QED
  BY <1>3, <1>4, <1>5

\* What a request does to an instance that it does not get a token from.
LEMMA UnspentKeeps ==
  ASSUME FInv, NEW i \in Instances,
         fleet'.instance = Keep(i, Prepared(fleet.instance[i])), fleet'.env = fleet.env
  PROVE  /\ fleet'.instance \in [Instances -> [made : {"none", "handler", "error"},
                                              level : Nat, cached : BOOLEAN]]
         /\ InstancesOK' /\ Fresh' = Fresh
         /\ Accepted(fleet.env) => Tokens' = Tokens
<1> DEFINE made == fleet.instance[i]
           m == Prepared(made)
<1>1. /\ m \in [made : {"handler", "error"}, level : Nat, cached : BOOLEAN]
      /\ m.cached = made.cached
      /\ m.made = IF Accepted(fleet.env) THEN "handler" ELSE "error"
      /\ Accepted(fleet.env) => m.level <= Burst
      /\ Accepted(fleet.env) =>
           \A n \in 1..Burst : n <= m.level <=> made.made = "none" \/ n <= made.level
  BY PreparedIs
<1>2. FleetTypeOK /\ InstancesOK /\ fleet'.instance = Keep(i, m)
  BY DEF FInv
<1> HIDE DEF m
<1>3. /\ \A j \in Instances : fleet'.instance[j] = IF j = i THEN m ELSE fleet.instance[j]
      /\ fleet'.instance \in [Instances -> [made : {"none", "handler", "error"},
                                           level : Nat, cached : BOOLEAN]]
  BY <1>1, <1>2 DEF Keep, FleetTypeOK
<1>4. Burst' = Burst
  BY DEF Burst
<1>5. Fresh' = Fresh
  BY <1>1, <1>3 DEF Fresh
<1>6. m.made # "handler" => ~m.cached
  BY <1>1, <1>2 DEF InstancesOK
<1>7. InstancesOK'
  BY <1>1, <1>2, <1>3, <1>4, <1>6 DEF InstancesOK
<1>8. ASSUME Accepted(fleet.env) PROVE Tokens' = Tokens
  <2>1. m.made # "none"
    BY <1>1
  <2>2. \A token \in Instances \X (1..Burst) :
          /\ token[1] \in Instances /\ token[2] \in 1..Burst
          /\ fleet'.instance[token[1]] = IF token[1] = i THEN m ELSE fleet.instance[token[1]]
    BY <1>3
  <2>3. ASSUME NEW token \in Instances \X (1..Burst)
        PROVE  (\/ fleet'.instance[token[1]].made = "none"
                \/ token[2] <= fleet'.instance[token[1]].level) <=>
               (\/ fleet.instance[token[1]].made = "none"
                \/ token[2] <= fleet.instance[token[1]].level)
    <3>1. CASE token[1] = i
      <4>1. fleet'.instance[token[1]] = m /\ fleet.instance[token[1]] = made
        BY <2>2, <3>1
      <4>2. token[2] <= m.level <=> made.made = "none" \/ token[2] <= made.level
        BY <1>1, <1>8, <2>2
      <4> QED
        BY <2>1, <4>1, <4>2
    <3>2. CASE token[1] # i
      BY <2>2, <3>2
    <3> QED
      BY <3>1, <3>2
  <2> QED
    BY <1>4, <2>3 DEF Tokens
<1> QED
  BY <1>3, <1>5, <1>7, <1>8

\* Every step keeps the invariant: a token is given away once, and only an instance
\* that starts brings a burst of new ones.
LEMMA StepFInv == FInv /\ [FleetNext]_fleet => FInv'
<1> SUFFICES ASSUME FInv, [FleetNext]_fleet PROVE FInv'
  OBVIOUS
<1> DEFINE starts == fleet.starts
           granted == fleet.granted
<1>1. FleetTypeOK /\ InstancesOK /\ starts \in Nat /\ granted \in Nat /\ fleet.acknowledged \in Nat
  BY DEF FInv, FleetTypeOK
<1>2. ASSUME NEW i \in Instances, FailConfiguration(i) PROVE FInv'
  <2>1. /\ Prepared(fleet.instance[i]).made = "error"
        /\ fleet' = [fleet EXCEPT !.instance = Keep(i, Prepared(fleet.instance[i])),
                                  !.failed = TRUE]
    BY <1>2 DEF FailConfiguration
  <2>2. ~Accepted(fleet.env)
    BY <2>1, PreparedIs
  <2>3. /\ fleet'.instance = Keep(i, Prepared(fleet.instance[i])) /\ fleet'.env = fleet.env
        /\ fleet'.starts = starts /\ fleet'.granted = granted
        /\ fleet'.acknowledged = fleet.acknowledged /\ fleet'.failed = TRUE
    BY <1>1, <2>1 DEF FleetTypeOK
  <2>4. /\ fleet'.instance \in [Instances -> [made : {"none", "handler", "error"},
                                             level : Nat, cached : BOOLEAN]]
        /\ InstancesOK' /\ Fresh' = Fresh
    BY <2>3, UnspentKeeps
  <2>5. FleetTypeOK'
    BY <1>1, <2>1, <2>3, <2>4 DEF FleetTypeOK
  <2> QED
    BY <2>2, <2>3, <2>4, <2>5 DEF FInv
<1>3. ASSUME NEW i \in Instances, RefuseSubmit(i) PROVE FInv'
  <2>1. fleet' = [fleet EXCEPT !.instance = Keep(i, Prepared(fleet.instance[i]))]
    BY <1>3 DEF RefuseSubmit
  <2>2. /\ fleet'.instance = Keep(i, Prepared(fleet.instance[i])) /\ fleet'.env = fleet.env
        /\ fleet'.starts = starts /\ fleet'.granted = granted
        /\ fleet'.acknowledged = fleet.acknowledged /\ fleet'.failed = fleet.failed
    BY <1>1, <2>1 DEF FleetTypeOK
  <2>3. /\ fleet'.instance \in [Instances -> [made : {"none", "handler", "error"},
                                             level : Nat, cached : BOOLEAN]]
        /\ InstancesOK' /\ Fresh' = Fresh
        /\ Accepted(fleet.env) => Tokens' = Tokens
    BY <2>2, UnspentKeeps
  <2>4. FleetTypeOK'
    BY <1>1, <2>1, <2>2, <2>3 DEF FleetTypeOK
  <2>5. Burst' = Burst
    BY <2>2 DEF Burst
  <2> QED
    BY <2>2, <2>3, <2>4, <2>5 DEF FInv
<1>4. ASSUME NEW i \in Instances, NEW cached \in BOOLEAN, NEW taken \in {0, 1},
             Prepared(fleet.instance[i]).cached => cached /\ taken = 0,
             ~cached => taken = 0,
             Serve(i, cached, taken)
      PROVE  FInv'
  <2> DEFINE made == fleet.instance[i]
             before == Prepared(made)
             left == IF before.level > 0 THEN before.level - 1 ELSE 0
             m == Made("handler", left, cached)
  <2>1. /\ before.made = "handler" /\ Admits(before)
        /\ before.cached => cached /\ taken = 0
        /\ fleet' = [fleet EXCEPT !.instance = Keep(i, m), !.granted = @ + 1,
                                  !.acknowledged = @ + taken]
    BY <1>4 DEF Serve
  <2>2. /\ before \in [made : {"handler", "error"}, level : Nat, cached : BOOLEAN]
        /\ before.cached = made.cached
        /\ before.made = IF Accepted(fleet.env) THEN "handler" ELSE "error"
        /\ Accepted(fleet.env) => before.level <= Burst
        /\ Accepted(fleet.env) =>
             \A n \in 1..Burst : n <= before.level <=> made.made = "none" \/ n <= made.level
    BY PreparedIs
  <2> HIDE DEF before
  <2>3. Accepted(fleet.env)
    BY <2>1, <2>2
  <2>4. left \in Nat /\ left <= before.level /\ (before.level > 0 => left = before.level - 1)
    BY <2>2
  <2> HIDE DEF left
  <2>5. /\ m.made = "handler" /\ m.level = left /\ m.cached = cached
        /\ m \in [made : {"none", "handler", "error"}, level : Nat, cached : BOOLEAN]
    BY <2>4 DEF Made
  <2> HIDE DEF m
  <2>6. /\ fleet'.instance = Keep(i, m) /\ fleet'.env = fleet.env
        /\ fleet'.starts = starts /\ fleet'.granted = granted + 1
        /\ fleet'.acknowledged = fleet.acknowledged + taken
        /\ fleet'.failed = fleet.failed
    BY <1>1, <2>1 DEF FleetTypeOK
  <2>7. /\ \A j \in Instances : fleet'.instance[j] = IF j = i THEN m ELSE fleet.instance[j]
        /\ fleet'.instance \in [Instances -> [made : {"none", "handler", "error"},
                                             level : Nat, cached : BOOLEAN]]
    BY <1>1, <2>5, <2>6 DEF Keep, FleetTypeOK
  <2>8. FleetTypeOK'
    <3> DEFINE instance == Keep(i, m)
               acknowledged == fleet.acknowledged + taken
               more == granted + 1
    <3>1. fleet' = [fleet EXCEPT !.instance = instance, !.granted = more,
                                 !.acknowledged = acknowledged]
      BY <2>1
    <3>2. /\ instance \in [Instances -> [made : {"none", "handler", "error"},
                                         level : Nat, cached : BOOLEAN]]
          /\ more \in Nat /\ acknowledged \in Nat
      BY <1>1, <2>2, <2>6, <2>7
    <3> HIDE DEF instance, acknowledged, more, granted, starts
    <3> QED
      BY <1>1, <3>1, <3>2 DEF FleetTypeOK
  <2>9. Burst' = Burst /\ Burst \in Nat
    BY <2>3, <2>6, BurstIsNat DEF Burst
  <2>10. InstancesOK'
    <3>1. left <= Burst
      BY <2>2, <2>3, <2>4, <2>9
    <3> QED
      BY <1>1, <2>3, <2>5, <2>6, <2>7, <2>9, <3>1 DEF InstancesOK
  <2>11. fleet'.acknowledged + Cardinality(Fresh)' <= starts
    <3>1. Fresh' = IF cached THEN Fresh \ {i} ELSE Fresh \union {i}
      BY <2>5, <2>7 DEF Fresh
    <3>2. i \in Fresh <=> ~before.cached
      BY <2>2 DEF Fresh
    <3>3. Cardinality(Fresh \ {i}) = IF i \in Fresh THEN Cardinality(Fresh) - 1 ELSE Cardinality(Fresh)
      BY FleetIsFinite, FS_RemoveElement
    <3>4. fleet.acknowledged + Cardinality(Fresh) <= starts /\ Cardinality(Fresh) \in Nat
      BY FleetIsFinite DEF FInv
    <3>5. CASE cached
      BY <1>1, <1>4, <2>1, <2>6, <3>1, <3>2, <3>3, <3>4, <3>5
    <3>6. CASE ~cached
      <4>1. i \in Fresh /\ taken = 0
        BY <1>4, <2>1, <3>2, <3>6
      <4>2. Fresh' = Fresh
        BY <3>1, <3>6, <4>1
      <4> QED
        BY <1>1, <2>6, <3>4, <4>1, <4>2
    <3> QED
      BY <3>5, <3>6
  <2>12. ASSUME Flag(fleet.env, "RATE_LIMIT_ENABLED")
         PROVE  fleet'.granted + Cardinality(Tokens)' <= Burst * starts
    <3> DEFINE spent == <<i, before.level>>
    <3>1. before.level > 0
      BY <2>1, <2>12 DEF Admits
    <3>2. before.level \in 1..Burst
      BY <2>2, <2>3, <2>9, <3>1
    <3>3. spent \in Tokens
      BY <2>2, <2>3, <3>2 DEF Tokens
    <3>4. Tokens' = Tokens \ {spent}
      <4>1. ASSUME NEW token \in Instances \X (1..Burst)
            PROVE  (\/ fleet'.instance[token[1]].made = "none"
                    \/ token[2] <= fleet'.instance[token[1]].level) <=>
                   /\ \/ fleet.instance[token[1]].made = "none"
                      \/ token[2] <= fleet.instance[token[1]].level
                   /\ token # spent
        <5>1. token[1] \in Instances /\ token[2] \in 1..Burst /\ token = <<token[1], token[2]>>
          OBVIOUS
        <5>2. CASE token[1] = i
          <6>1. fleet'.instance[token[1]] = m /\ fleet.instance[token[1]] = made
            BY <2>7, <5>1, <5>2
          <6>2. token[2] <= before.level <=> made.made = "none" \/ token[2] <= made.level
            BY <2>2, <2>3, <5>1
          <6>3. token # spent <=> token[2] # before.level
            BY <5>1, <5>2
          <6>4. token[2] <= left <=> token[2] <= before.level /\ token[2] # before.level
            BY <2>4, <2>9, <3>1, <3>2, <5>1
          <6> QED
            BY <2>5, <6>1, <6>2, <6>3, <6>4
        <5>3. CASE token[1] # i
          BY <2>7, <5>1, <5>3
        <5> QED
          BY <5>2, <5>3
      <4> HIDE DEF spent
      <4> QED
        BY <2>9, <4>1 DEF Tokens
    <3>5. Cardinality(Tokens \ {spent}) = Cardinality(Tokens) - 1
      BY <2>3, <3>3, FleetIsFinite, FS_RemoveElement
    <3>6. granted + Cardinality(Tokens) <= Burst * starts /\ Cardinality(Tokens) \in Nat
      BY <2>3, <2>12, FleetIsFinite DEF FInv
    <3>7. Burst * starts \in Nat
      BY <1>1, <2>9
    <3> QED
      BY <1>1, <2>6, <3>4, <3>5, <3>6, <3>7
  <2> QED
    BY <2>3, <2>6, <2>8, <2>9, <2>10, <2>11, <2>12 DEF FInv
<1>5. ASSUME NEW i \in Instances, ReplaceInstance(i) PROVE FInv'
  <2>1. fleet' = [fleet EXCEPT !.instance = Keep(i, NoHandler), !.starts = @ + 1]
    BY <1>5 DEF ReplaceInstance
  <2>2. /\ fleet'.instance = Keep(i, NoHandler) /\ fleet'.env = fleet.env
        /\ fleet'.starts = starts + 1 /\ fleet'.granted = granted
        /\ fleet'.acknowledged = fleet.acknowledged /\ fleet'.failed = fleet.failed
    BY <1>1, <2>1 DEF FleetTypeOK
  <2>3. /\ \A j \in Instances :
             fleet'.instance[j] = IF j = i THEN NoHandler ELSE fleet.instance[j]
        /\ fleet'.instance \in [Instances -> [made : {"none", "handler", "error"},
                                             level : Nat, cached : BOOLEAN]]
    BY <1>1, <2>2 DEF Keep, FleetTypeOK, NoHandler, Made
  <2>4. FleetTypeOK'
    <3> DEFINE instance == Keep(i, NoHandler)
               more == starts + 1
    <3>1. fleet' = [fleet EXCEPT !.instance = instance, !.starts = more]
      BY <2>1
    <3>2. /\ instance \in [Instances -> [made : {"none", "handler", "error"},
                                         level : Nat, cached : BOOLEAN]]
          /\ more \in Nat
      BY <1>1, <2>2, <2>3
    <3> HIDE DEF instance, more, granted, starts
    <3> QED
      BY <1>1, <3>1, <3>2 DEF FleetTypeOK
  <2>5. Burst' = Burst /\ (Accepted(fleet.env) => Burst \in Nat)
    BY <2>2, BurstIsNat DEF Burst
  <2>6. InstancesOK'
    BY <1>1, <2>2, <2>3, <2>5 DEF InstancesOK, NoHandler, Made
  <2>7. fleet'.acknowledged + Cardinality(Fresh)' <= starts + 1
    <3>1. Fresh' = Fresh \union {i}
      BY <2>3 DEF Fresh, NoHandler, Made
    <3>2. Cardinality(Fresh \union {i}) <= Cardinality(Fresh) + 1 /\ Cardinality(Fresh \union {i}) \in Nat
      <4>1. IsFiniteSet(Fresh) /\ Cardinality(Fresh) \in Nat
        BY FleetIsFinite
      <4>2. Cardinality(Fresh \union {i}) =
              IF i \in Fresh THEN Cardinality(Fresh) ELSE Cardinality(Fresh) + 1
        BY <4>1, FS_AddElement
      <4> QED
        BY <4>1, <4>2
    <3>3. fleet.acknowledged + Cardinality(Fresh) <= starts /\ Cardinality(Fresh) \in Nat
      BY FleetIsFinite DEF FInv
    <3> QED
      BY <1>1, <2>2, <3>1, <3>2, <3>3
  <2>8. ASSUME Accepted(fleet.env), Flag(fleet.env, "RATE_LIMIT_ENABLED")
        PROVE  granted + Cardinality(Tokens)' <= Burst * (starts + 1)
    <3> DEFINE new == {i} \X (1..Burst)
    <3>1. Burst \in Nat
      BY <2>5, <2>8
    <3>2. IsFiniteSet(new) /\ Cardinality(new) = Burst
      <4>1. IsFiniteSet(1..Burst) /\ Cardinality(1..Burst) = Burst
        BY <3>1, FS_Interval
      <4>2. IsFiniteSet({i}) /\ Cardinality({i}) = 1
        BY FS_Singleton
      <4>3. Cardinality(new) = 1 * Burst /\ IsFiniteSet(new)
        BY <4>1, <4>2, FS_Product, ZenonT(40)
      <4> QED
        BY <3>1, <4>3
    <3>3. Tokens' \subseteq Tokens \union new
      <4>1. ASSUME NEW token \in Instances \X (1..Burst), token[1] # i,
                   \/ fleet'.instance[token[1]].made = "none"
                   \/ token[2] <= fleet'.instance[token[1]].level
            PROVE  token \in Tokens
        BY <2>3, <4>1 DEF Tokens
      <4>2. ASSUME NEW token \in Instances \X (1..Burst), token[1] = i
            PROVE  token \in new
        BY <4>2
      <4> HIDE DEF new
      <4> QED
        BY <2>5, <4>1, <4>2 DEF Tokens
    <3>4. IsFiniteSet(Tokens) /\ Cardinality(Tokens) \in Nat
      BY <2>8, FleetIsFinite
    <3> HIDE DEF new
    <3>5. /\ IsFiniteSet(Tokens \union new)
          /\ Cardinality(Tokens \union new) <= Cardinality(Tokens) + Burst
      <4>1. IsFiniteSet(Tokens \intersect new)
        BY <3>4, FS_Subset
      <4>2. Cardinality(Tokens \intersect new) \in Nat
        BY <4>1, FS_CardinalityType
      <4>3. /\ IsFiniteSet(Tokens \union new)
            /\ Cardinality(Tokens \union new) =
                 Cardinality(Tokens) + Cardinality(new) - Cardinality(Tokens \intersect new)
        BY <3>2, <3>4, FS_Union
      <4> QED
        BY <3>1, <3>2, <3>4, <4>2, <4>3
    <3>6. /\ Cardinality(Tokens)' <= Cardinality(Tokens \union new)
          /\ Cardinality(Tokens)' \in Nat /\ Cardinality(Tokens \union new) \in Nat
      <4>1. Tokens' \in SUBSET (Tokens \union new)
        BY <3>3
      <4>2. IsFiniteSet(Tokens') /\ Cardinality(Tokens') <= Cardinality(Tokens \union new)
        BY <3>5, <4>1, FS_Subset
      <4> QED
        BY <3>5, <4>2, FS_CardinalityType
    <3>7. granted + Cardinality(Tokens) <= Burst * starts
      BY <2>8 DEF FInv
    <3>8. Burst * (starts + 1) = Burst * starts + Burst /\ Burst * starts \in Nat
      BY <1>1, <3>1
    <3> HIDE DEF starts, granted
    <3> QED
      BY <1>1, <3>1, <3>4, <3>5, <3>6, <3>7, <3>8
  <2> QED
    BY <2>2, <2>4, <2>5, <2>6, <2>7, <2>8 DEF FInv
<1>6. CASE UNCHANGED fleet
  BY <1>6 DEF FInv, FleetTypeOK, InstancesOK, Fresh, Tokens, Burst
<1>7. ASSUME NEW i \in Instances, Replay(i) \/ Forward(i) \/ ForwardFails(i) PROVE FInv'
  <2>1. CASE Replay(i)
    BY <1>4, <2>1 DEF Replay
  <2>2. CASE Forward(i)
    BY <1>4, <2>2 DEF Forward
  <2>3. CASE ForwardFails(i)
    BY <1>4, <2>3 DEF ForwardFails
  <2> QED
    BY <1>7, <2>1, <2>2, <2>3
<1> QED
  BY <1>2, <1>3, <1>5, <1>6, <1>7 DEF FleetNext

\* FInv holds in every reachable state.
LEMMA Fleets == FleetSpec => []FInv
<1> QED
  BY InitFInv, StepFInv, PTL DEF FleetSpec

\* For every finite number of instances, every environment, and as many starts and
\* submissions, failed ones too, as there may be: no instance gives more than a burst,
\* none acknowledges the submission anew a second time, and none of an environment
\* that is refused gives anything.
THEOREM Fleet == FleetSpec => []InstancesRemember
<1>1. ASSUME FInv PROVE InstancesRemember
  <2>1. /\ fleet.acknowledged \in Nat /\ fleet.starts \in Nat /\ fleet.granted \in Nat
        /\ Cardinality(Fresh) \in Nat /\ fleet.acknowledged + Cardinality(Fresh) <= fleet.starts
    BY <1>1, FleetIsFinite DEF FInv, FleetTypeOK
  <2>2. fleet.failed => fleet.granted = 0
    BY <1>1 DEF FInv
  <2>3. ASSUME fleet.granted > 0, Flag(fleet.env, "RATE_LIMIT_ENABLED")
        PROVE  fleet.granted <= Burst * fleet.starts
    <3>1. Accepted(fleet.env)
      BY <1>1, <2>1, <2>3 DEF FInv
    <3>2. /\ fleet.granted + Cardinality(Tokens) <= Burst * fleet.starts
          /\ Cardinality(Tokens) \in Nat /\ Burst \in Nat
      BY <1>1, <2>3, <3>1, FleetIsFinite, BurstIsNat DEF FInv, Burst
    <3>3. Burst * fleet.starts \in Nat
      BY <2>1, <3>2
    <3> QED
      BY <2>1, <3>2, <3>3
  <2>4. fleet.acknowledged <= fleet.starts
    BY <2>1
  <2> QED
    BY <2>2, <2>3, <2>4 DEF InstancesRemember, Burst
<1> QED
  BY <1>1, Fleets, PTL
-----------------------------------------------------------------------------
(* RequestPath: paths of any words and of any length.                      *)

Singles(seq, dropped) ==
  [i \in DOMAIN seq |-> IF seq[i] \in dropped THEN <<>> ELSE <<seq[i]>>]

IsSingles(r, seq, V, dropped) ==
  /\ r \in Seq(Seq(V)) /\ Len(r) = Len(seq) /\ Len(seq) \in Nat
  /\ \A i \in 1..Len(seq) : r[i] = IF seq[i] \in dropped THEN <<>> ELSE <<seq[i]>>

\* The sequences Without puts together, each of none or one of the elements.
LEMMA SinglesAre ==
  ASSUME NEW W, NEW seq \in Seq(W), NEW dropped
  PROVE  IsSingles(Singles(seq, dropped), seq, W \ dropped, dropped)
<1> DEFINE s == Singles(seq, dropped)
<1>1. Len(seq) \in Nat /\ DOMAIN seq = 1..Len(seq) /\ \A i \in 1..Len(seq) : seq[i] \in W
  BY LenProperties, ElementOfSeq
<1>2. ASSUME NEW i \in 1..Len(seq)
      PROVE  (IF seq[i] \in dropped THEN <<>> ELSE <<seq[i]>>) \in Seq(W \ dropped)
  <2>1. <<>> \in Seq(W \ dropped)
    BY EmptySeq
  <2>2. seq[i] \notin dropped => <<seq[i]>> \in Seq(W \ dropped)
    BY <1>1
  <2> QED
    BY <2>1, <2>2
<1>3. s = [i \in 1..Len(seq) |-> IF seq[i] \in dropped THEN <<>> ELSE <<seq[i]>>]
  BY <1>1 DEF Singles
<1>4. s \in [1..Len(seq) -> Seq(W \ dropped)]
  BY <1>2, <1>3
<1> HIDE DEF s
<1>5. s \in Seq(Seq(W \ dropped)) /\ Len(s) = Len(seq)
  BY <1>1, <1>4
<1> QED
  BY <1>1, <1>3, <1>5 DEF s, IsSingles

\* What is left has none of what is dropped.
LEMMA WithoutIsSeq ==
  ASSUME NEW W, NEW seq \in Seq(W), NEW dropped
  PROVE  Without(seq, dropped) \in Seq(W \ dropped)
<1> DEFINE V == W \ dropped
           s == Singles(seq, dropped)
<1>1. s \in Seq(Seq(V))
  BY SinglesAre DEF IsSingles
<1>2. Without(seq, dropped) = FlattenSeq(s)
  BY DEF Without, Singles
<1> HIDE DEF V, s
<1>3. PICK h : Flattens(h, s, V)
  BY <1>1, FlattenSeqIs
<1>4. Len(s) \in 0..Len(s)
  BY <1>1, LenProperties
<1> QED
  BY <1>2, <1>3, <1>4 DEF Flattens, V

\* What is left of a sequence is what is left of its front and of its rest.
LEMMA WithoutConcat ==
  ASSUME NEW W, NEW s \in Seq(W), NEW t \in Seq(W), NEW dropped
  PROVE  Without(s \o t, dropped) = Without(s, dropped) \o Without(t, dropped)
<1> DEFINE V == W \ dropped
           a == Singles(s, dropped)
           b == Singles(t, dropped)
           c == Singles(s \o t, dropped)
<1>1. s \o t \in Seq(W) /\ Len(s \o t) = Len(s) + Len(t)
      /\ \A i \in 1..(Len(s) + Len(t)) :
           (s \o t)[i] = IF i <= Len(s) THEN s[i] ELSE t[i - Len(s)]
  BY ConcatProperties
<1>2. IsSingles(a, s, V, dropped) /\ IsSingles(b, t, V, dropped)
      /\ IsSingles(c, s \o t, V, dropped)
  BY <1>1, SinglesAre, Zenon
<1>3. FlattenSeq(a) = Without(s, dropped) /\ FlattenSeq(b) = Without(t, dropped)
      /\ FlattenSeq(c) = Without(s \o t, dropped)
  BY DEF Without, Singles
<1> HIDE DEF V, a, b, c
<1>4. /\ a \in Seq(Seq(V)) /\ Len(a) = Len(s) /\ Len(s) \in Nat
      /\ b \in Seq(Seq(V)) /\ Len(b) = Len(t) /\ Len(t) \in Nat
      /\ c \in Seq(Seq(V)) /\ Len(c) = Len(s) + Len(t)
  BY <1>1, <1>2 DEF IsSingles
<1>5. /\ a \o b \in Seq(Seq(V)) /\ Len(a \o b) = Len(s) + Len(t)
      /\ \A i \in 1..(Len(s) + Len(t)) : (a \o b)[i] = IF i <= Len(s) THEN a[i] ELSE b[i - Len(s)]
  <2> DEFINE T == Seq(V)
  <2>1. a \in Seq(T) /\ b \in Seq(T)
    BY <1>4
  <2> HIDE DEF T
  <2>2. /\ a \o b \in Seq(T) /\ Len(a \o b) = Len(a) + Len(b)
        /\ \A i \in 1..(Len(a) + Len(b)) :
             (a \o b)[i] = IF i <= Len(a) THEN a[i] ELSE b[i - Len(a)]
    BY <2>1, ConcatProperties, SMTT(30)
  <2>3. a \o b \in Seq(Seq(V)) /\ Len(a) = Len(s) /\ Len(b) = Len(t)
    BY <1>4, <2>2 DEF T
  <2> QED
    BY <2>2, <2>3
<1>6. ASSUME NEW i \in 1..(Len(s) + Len(t)) PROVE c[i] = (a \o b)[i]
  <2>1. CASE i <= Len(s)
    <3>1. i \in 1..Len(s)
      BY <1>4, <2>1
    <3>2. a[i] = IF s[i] \in dropped THEN <<>> ELSE <<s[i]>>
      BY <1>2, <3>1 DEF IsSingles
    <3>3. c[i] = IF (s \o t)[i] \in dropped THEN <<>> ELSE <<(s \o t)[i]>>
      BY <1>1, <1>2 DEF IsSingles
    <3>4. (s \o t)[i] = s[i] /\ (a \o b)[i] = a[i]
      BY <1>1, <1>5, <2>1
    <3> QED
      BY <3>2, <3>3, <3>4
  <2>2. CASE ~(i <= Len(s))
    <3> DEFINE k == i - Len(s)
    <3>1. k \in 1..Len(t)
      BY <1>4, <2>2
    <3>2. (s \o t)[i] = t[k] /\ (a \o b)[i] = b[k]
      BY <1>1, <1>5, <2>2
    <3> HIDE DEF k
    <3>3. b[k] = IF t[k] \in dropped THEN <<>> ELSE <<t[k]>>
      BY <1>2, <3>1 DEF IsSingles
    <3>4. c[i] = IF (s \o t)[i] \in dropped THEN <<>> ELSE <<(s \o t)[i]>>
      BY <1>1, <1>2 DEF IsSingles
    <3> QED
      BY <3>2, <3>3, <3>4
  <2> QED
    BY <2>1, <2>2
<1>7. c = a \o b
  BY <1>4, <1>5, <1>6, SeqEqual
<1>8. FlattenSeq(a \o b) = FlattenSeq(a) \o FlattenSeq(b)
  BY <1>4, FlattenSeqConcat
<1> QED
  BY <1>3, <1>7, <1>8

\* What is left of a sequence of one element.
LEMMA WithoutOne ==
  ASSUME NEW W, NEW x \in W, NEW dropped
  PROVE  Without(<<x>>, dropped) = IF x \in dropped THEN <<>> ELSE <<x>>
<1> DEFINE V == W \ dropped
<1>1. ASSUME NEW s \in Seq(Seq(V)), Len(s) = 1 PROVE FlattenSeq(s) = s[1]
  <2> HIDE DEF V
  <2>1. PICK h : Flattens(h, s, V)
    BY FlattenSeqIs
  <2>2. 1 \in 1..Len(s) /\ 1 - 1 = 0 /\ s[1] \in Seq(V)
    BY <1>1, ElementOfSeq
  <2>3. h[1] = h[0] \o s[1] /\ h[0] = <<>> /\ FlattenSeq(s) = h[1]
    BY <1>1, <2>1, <2>2 DEF Flattens
  <2> QED
    BY <2>2, <2>3, ConcatEmptySeq
<1>2. <<x>> \in Seq(W) /\ Len(<<x>>) = 1 /\ <<x>>[1] = x
  OBVIOUS
<1>3. Without(<<x>>, dropped) = FlattenSeq(Singles(<<x>>, dropped))
  BY DEF Without, Singles
<1>4. /\ Singles(<<x>>, dropped) \in Seq(Seq(V)) /\ Len(Singles(<<x>>, dropped)) = 1
      /\ Singles(<<x>>, dropped)[1] = IF x \in dropped THEN <<>> ELSE <<x>>
  <2> DEFINE o == <<x>>
             r == Singles(o, dropped)
  <2>1. o \in Seq(W) /\ 1 \in 1..Len(o) /\ Len(o) = 1 /\ o[1] = x
    BY <1>2
  <2> HIDE DEF o
  <2>2. IsSingles(r, o, V, dropped)
    BY <2>1, SinglesAre
  <2> HIDE DEF r
  <2>3. r \in Seq(Seq(V)) /\ Len(r) = 1 /\ r[1] = IF o[1] \in dropped THEN <<>> ELSE <<o[1]>>
    BY <2>1, <2>2 DEF IsSingles
  <2>4. r[1] = IF x \in dropped THEN <<>> ELSE <<x>>
    BY <2>1, <2>3
  <2> QED
    BY <2>3, <2>4 DEF r, o
<1> HIDE DEF V
<1> QED
  BY <1>1, <1>3, <1>4

\* Nothing is left of an empty sequence.
LEMMA WithoutEmpty ==
  ASSUME NEW dropped
  PROVE  Without(<<>>, dropped) = <<>>
<1> DEFINE V == {} \ dropped
           s == Singles(<<>>, dropped)
<1>1. <<>> \in Seq({}) /\ Len(<<>>) = 0
  OBVIOUS
<1>2. s \in Seq(Seq(V)) /\ Len(s) = 0
  BY <1>1, SinglesAre DEF IsSingles
<1>3. Without(<<>>, dropped) = FlattenSeq(s)
  BY DEF Without, Singles
<1> HIDE DEF V, s
<1>4. PICK h : Flattens(h, s, V)
  BY <1>2, FlattenSeqIs
<1> QED
  BY <1>2, <1>3, <1>4 DEF Flattens

\* Nothing is dropped from a sequence with nothing to drop.
LEMMA WithoutNothing ==
  ASSUME NEW W, NEW dropped, NEW seq \in Seq(W \ dropped)
  PROVE  Without(seq, dropped) = seq
<1> DEFINE V == W \ dropped
           N == Len(seq)
           S == {n \in 0..N : Without(SubSeq(seq, 1, n), dropped) = SubSeq(seq, 1, n)}
<1> HIDE DEF V
<1>1. N \in Nat /\ \A n \in 1..N : seq[n] \in V
  BY LenProperties, ElementOfSeq DEF V
<1>2. 0 \in S
  <2>1. SubSeq(seq, 1, 0) = <<>>
    BY SubSeqEmpty
  <2>2. Without(<<>>, dropped) = <<>>
    BY WithoutEmpty
  <2>3. Without(SubSeq(seq, 1, 0), dropped) = SubSeq(seq, 1, 0)
    BY <2>1, <2>2, Zenon
  <2>4. 0 \in 0..N
    BY <1>1
  <2> QED
    BY <2>3, <2>4, Zenon
<1>3. ASSUME NEW k \in 0..(N - 1), k \in S PROVE k + 1 \in S
  <2>1. k + 1 \in 1..N /\ k + 1 \in 0..N /\ (k + 1) - 1 = k /\ 1 \in 1..N /\ k + 1 \in 1..(k + 1)
    BY <1>1
  <2>2. SubSeq(seq, 1, k + 1) = SubSeq(seq, 1, k) \o <<seq[k + 1]>>
    BY <2>1, SubSeqRecursiveSecond
  <2>3. SubSeq(seq, 1, k) \in Seq(V)
    <3>1. \A i \in 1..k : seq[i] \in V
      BY <1>1, <2>1
    <3> QED
      BY <2>1, <3>1, SubSeqProperties
  <2>4. seq[k + 1] \in V /\ <<seq[k + 1]>> \in Seq(V)
    BY <1>1, <2>1
  <2>5. Without(<<seq[k + 1]>>, dropped) = <<seq[k + 1]>>
    BY <2>4, WithoutOne DEF V
  <2>6. Without(SubSeq(seq, 1, k) \o <<seq[k + 1]>>, dropped) =
          Without(SubSeq(seq, 1, k), dropped) \o Without(<<seq[k + 1]>>, dropped)
    <3> DEFINE p == SubSeq(seq, 1, k)
               q == <<seq[k + 1]>>
    <3>1. p \in Seq(V) /\ q \in Seq(V)
      BY <2>3, <2>4
    <3> HIDE DEF p, q
    <3>2. Without(p \o q, dropped) = Without(p, dropped) \o Without(q, dropped)
      BY <3>1, WithoutConcat
    <3> QED
      BY <3>2 DEF p, q
  <2> QED
    BY <1>3, <2>1, <2>2, <2>5, <2>6
<1>4. N \in S
  <2> HIDE DEF S
  <2>1. 0..N \subseteq S
    BY <1>1, <1>2, <1>3, UpTo
  <2> QED
    BY <1>1, <2>1
<1> QED
  BY <1>4, SubSeqFull
\* What one sequence of words drops, dropping less of it again does not miss.
LEMMA WithoutTwice ==
  ASSUME NEW W, NEW seq \in Seq(W), NEW more, NEW less, less \subseteq more
  PROVE  Without(Without(seq, more), less) = Without(seq, more)
<1> DEFINE V == W \ more
           r == Without(seq, more)
<1>1. r \in Seq(V)
  BY WithoutIsSeq
<1>2. V \ less = V
  OBVIOUS
<1> HIDE DEF V, r
<1>3. r \in Seq(V \ less)
  BY <1>1, <1>2
<1> QED
  BY <1>3, WithoutNothing DEF r

Names == {"gatewayPath", "path", "PATH"}
Captured(path, query) == <<Param("gatewayPath", path)>> \o query

AnyParams == Params(STRING) \union Params({"gatewayPath"})

\* The parameter the rewrite adds is one of the parameters.
LEMMA GatewayPathIs ==
  ASSUME NEW path \in Seq(PathParts)
  PROVE  Param("gatewayPath", path) \in AnyParams
<1>1. Param("gatewayPath", path) \in Params({"gatewayPath"})
  BY DEF Param, Params
<1> QED
  BY <1>1 DEF AnyParams

\* The query of a rewritten URL.
LEMMA CapturedIs ==
  ASSUME NEW path \in Seq(PathParts), NEW query \in Seq(AnyParams)
  PROVE  /\ Captured(path, query) \in Seq(AnyParams)
         /\ DOMAIN Captured(path, query) = 1..(Len(query) + 1) /\ Len(query) \in Nat
         /\ Captured(path, query)[1] = Param("gatewayPath", path)
         /\ \A i \in 2..(Len(query) + 1) : Captured(path, query)[i] = query[i - 1]
<1> DEFINE o == <<Param("gatewayPath", path)>>
<1>2. o \in Seq(AnyParams) /\ Len(o) = 1 /\ o[1] = Param("gatewayPath", path)
  BY GatewayPathIs
<1> HIDE DEF o
<1>3. /\ o \o query \in Seq(AnyParams) /\ Len(o \o query) = Len(o) + Len(query)
      /\ \A i \in 1..(Len(o) + Len(query)) :
           (o \o query)[i] = IF i <= Len(o) THEN o[i] ELSE query[i - Len(o)]
  BY <1>2, ConcatProperties
<1>4. Len(query) \in Nat /\ DOMAIN (o \o query) = 1..Len(o \o query)
  BY <1>3, LenProperties
<1> QED
  BY <1>2, <1>3, <1>4 DEF Captured, o

\* The first parameter of a rewritten URL is the one the rewrite puts there.
LEMMA FirstIsTheRewrites ==
  ASSUME NEW path \in Seq(PathParts), NEW query \in Seq(AnyParams)
  PROVE  First(Captured(path, query), "gatewayPath") = 1
<1> DEFINE q == Captured(path, query)
           Is(i) == q[i].name = "gatewayPath" /\ \A j \in DOMAIN q : q[j].name = "gatewayPath" => i <= j
<1>1. DOMAIN q = 1..(Len(query) + 1) /\ Len(query) \in Nat /\ q[1].name = "gatewayPath"
  <2>1. Param("gatewayPath", path).name = "gatewayPath"
    BY DEF Param
  <2> QED
    BY <2>1, CapturedIs
<1> HIDE DEF q
<1>2. 1 \in DOMAIN q /\ Is(1)
  BY <1>1
<1>3. ASSUME NEW i \in DOMAIN q, Is(i) PROVE i = 1
  BY <1>1, <1>2, <1>3
<1>4. First(q, "gatewayPath") = CHOOSE i \in DOMAIN q : Is(i)
  BY DEF First
<1> HIDE DEF Is
<1> QED
  BY <1>2, <1>3, <1>4 DEF q

\* What the rewrite adds to the query is dropped from it, with whatever names it.
LEMMA CapturedWithout ==
  ASSUME NEW path \in Seq(PathParts), NEW query \in Seq(AnyParams),
         NEW names, "gatewayPath" \in names
  PROVE  Without(Captured(path, query), Params(names)) = Without(query, Params(names))
<1> DEFINE x == Param("gatewayPath", path)
           P == Params(names)
           W == AnyParams
<1>1. x \in W /\ x \in P
  <2> Param("gatewayPath", path) \in Params(names)
    BY DEF Param, Params
  <2> QED
    BY GatewayPathIs
<1>2. Captured(path, query) = <<x>> \o query
  BY DEF Captured
<1> HIDE DEF x, P
<1>3. <<x>> \in Seq(W)
  BY <1>1
<1>4. Without(<<x>>, P) = <<>>
  BY <1>1, WithoutOne
<1> HIDE DEF W
<1>5. query \in Seq(W)
  BY DEF W
<1>6. Without(<<x>> \o query, P) = Without(<<x>>, P) \o Without(query, P)
  <2> DEFINE o == <<x>>
  <2> HIDE DEF o
  <2>1. o \in Seq(W)
    BY <1>3 DEF o
  <2>2. Without(o \o query, P) = Without(o, P) \o Without(query, P)
    BY <1>5, <2>1, WithoutConcat
  <2> QED
    BY <2>2 DEF o
<1>7. Without(query, P) \in Seq(W \ P)
  BY <1>5, WithoutIsSeq
<1>8. <<>> \o Without(query, P) = Without(query, P)
  BY <1>7, ConcatEmptySeq
<1> QED
  BY <1>2, <1>4, <1>6, <1>8 DEF P
\* The path being built is made of words.
LEMMA Placed == PathSpec => [](place \in Seq(Words))
<1> DEFINE I == place \in Seq(Words)
<1>1. PathInit => I
  BY EmptySeq DEF PathInit
<1>2. I /\ [PathNext]_place => I'
  <2> SUFFICES ASSUME I, [PathNext]_place PROVE I'
    OBVIOUS
  <2>1. CASE PathNext
    BY <2>1 DEF PathNext
  <2>2. CASE UNCHANGED place
    BY <2>2
  <2> QED
    BY <2>1, <2>2
<1> QED
  BY <1>1, <1>2, PTL DEF PathSpec

\* Short sequences of some elements.
LEMMA ShortTuples ==
  ASSUME NEW W, NEW a \in W, NEW b \in W, NEW c \in W, NEW d \in W
  PROVE  /\ <<a>> \in Seq(W) /\ <<a, b>> \in Seq(W) /\ <<a, b, c>> \in Seq(W)
         /\ <<a, b, c, d>> \in Seq(W)
OBVIOUS

\* A path of the model is a front and words, and no empty sequence.
LEMMA PathsAre ==
  ASSUME place \in Seq(Words), NEW path \in Paths
  PROVE  /\ path \in Seq(PathParts) /\ path # <<>>
         /\ \E front \in Fronts : path = front \o place
<1>1. PICK front \in Fronts : path = front \o place
  BY DEF Paths, Fronts
<1>2. front \in Seq(PathParts)
  <2> DEFINE P == PathParts
  <2>1. "" \in P /\ "v1" \in P /\ "v2" \in P /\ Key \in P
    BY DEF PathParts
  <2> HIDE DEF P
  <2>2. <<>> \in Seq(P)
    BY EmptySeq
  <2>3. <<"v1">> \in Seq(P) /\ <<"v2", Key>> \in Seq(P)
    BY <2>1, ShortTuples, Zenon
  <2>4. <<"v2", Key, "v1">> \in Seq(P) /\ <<"v2", "", Key>> \in Seq(P)
    BY <2>1, ShortTuples, Zenon
  <2>5. <<"">> \in Seq(P) /\ <<"", "v2", Key>> \in Seq(P) /\ <<"", "v1", "v2", Key>> \in Seq(P)
    BY <2>1, ShortTuples, Zenon
  <2> QED
    BY <2>2, <2>3, <2>4, <2>5, Zenon DEF Fronts, P
<1>3. place \in Seq(PathParts)
  BY SeqMonotonic DEF PathParts
<1>4. path \in Seq(PathParts)
  BY <1>1, <1>2, <1>3, ConcatProperties
<1>5. Len(path) > 0
  BY DEF Paths
<1>6. path # <<>>
  BY <1>5
<1> QED
  BY <1>1, <1>4, <1>6

\* A path that names no host is a URL's, and its pathname.
LEMMA PlainPath ==
  ASSUME NEW path, ~NamesHost(path)
  PROVE  IsUrl(path) /\ Pathname(path) = path
BY DEF IsUrl, Pathname

\* A part with nothing in it, parts that name a host, and a path behind a host.
EmptyPart == ""
NamesOne(part) == part \notin {EmptyPart, "%"}
Behind(path, host, t) == path = <<EmptyPart, host>> \o t

\* The parts of a pathname are parts of the path.
LEMMA PathnameIs ==
  ASSUME NEW W, EmptyPart \in W, NEW path \in Seq(W), IsUrl(path)
  PROVE  Pathname(path) \in Seq(W)
<1>1. CASE ~NamesHost(path)
  BY <1>1, PlainPath
<1>2. CASE NamesHost(path)
  <2> DEFINE host == CHOOSE i \in DOMAIN path : IsHost(path, i)
  <2>1. host \in DOMAIN path
    <3>1. \E i \in DOMAIN path : IsHost(path, i)
      BY <1>2 DEF IsUrl
    <3> QED
      BY <3>1
  <2> HIDE DEF host
  <2>2. host \in 1..Len(path) /\ Len(path) \in Nat
    BY <2>1, LenProperties
  <2>3. \A i \in (host + 1)..Len(path) : path[i] \in W
    BY <2>2, ElementOfSeq
  <2>4. Drop(path, host) \in Seq(W)
    BY <2>2, <2>3, SubSeqProperties DEF Drop
  <2>5. Root \in Seq(W)
    BY ShortTuples, Zenon DEF Root, EmptyPart
  <2>6. Pathname(path) \in {Drop(path, host), Root}
    BY <1>2 DEF Pathname, host
  <2> QED
    BY <2>4, <2>5, <2>6
<1> QED
  BY <1>1, <1>2

\* What is left of a path behind two slashes and a host.
LEMMA HostFirst ==
  ASSUME NEW W, EmptyPart \in W, NEW host \in W, NamesOne(host), NEW t \in Seq(W),
         t # <<>>, NEW path, Behind(path, host, t)
  PROVE  NamesHost(path) /\ IsUrl(path) /\ Pathname(path) = t
<1> DEFINE o == <<EmptyPart, host>>
<1>1. o \in Seq(W)
  BY ShortTuples, Zenon
<1>2. Len(o) = 2 /\ o[1] = EmptyPart /\ o[2] = host
  OBVIOUS
<1> HIDE DEF o
<1>3. Len(t) \in Nat /\ path = o \o t
  BY LenProperties DEF o, Behind
<1>4. /\ path \in Seq(W) /\ Len(path) = Len(o) + Len(t)
      /\ \A i \in 1..(Len(o) + Len(t)) : path[i] = IF i <= Len(o) THEN o[i] ELSE t[i - Len(o)]
  BY <1>1, <1>3, ConcatProperties
<1>5. Len(path) = Len(t) + 2 /\ path[1] = EmptyPart /\ path[2] = host
  BY <1>2, <1>3, <1>4
<1>6. \A i \in 3..Len(path) : path[i] = t[i - 2]
  BY <1>2, <1>3, <1>4
<1>7. DOMAIN path = 1..Len(path) /\ 2 \in DOMAIN path
  BY <1>3, <1>4, <1>5, LenProperties
<1>8. NamesHost(path)
  <2>1. Len(path) > 1
    BY <1>3, <1>5
  <2> QED
    BY <1>5, <2>1, Zenon DEF NamesHost, EmptyPart
<1>9. IsHost(path, 2)
  <2>1. \A j \in 1..(2 - 1) : j = 1
    OBVIOUS
  <2> QED
    BY <1>5, <2>1, Zenon DEF IsHost, NamesOne, EmptyPart
<1>10. ASSUME NEW i \in DOMAIN path, IsHost(path, i) PROVE i = 2
  <2>1. i \in Nat /\ i >= 1
    BY <1>3, <1>5, <1>7
  <2>2. i # 1
    BY <1>5, <1>10, Zenon DEF IsHost, EmptyPart
  <2>3. ~(i > 2)
    <3>1. SUFFICES ASSUME i > 2 PROVE FALSE
      OBVIOUS
    <3>2. 2 \in 1..(i - 1)
      BY <2>1, <3>1
    <3> QED
      BY <1>5, <1>10, <3>2, Zenon DEF IsHost, NamesOne, EmptyPart
  <2> QED
    BY <2>1, <2>2, <2>3
<1>11. IsUrl(path)
  BY <1>5, <1>7, <1>9, Zenon DEF IsUrl, NamesOne
<1>12. (CHOOSE i \in DOMAIN path : IsHost(path, i)) = 2
  BY <1>7, <1>9, <1>10
<1>13. Drop(path, 2) = t
  <2> DEFINE d == SubSeq(path, 3, Len(path))
  <2>0. d = Drop(path, 2)
    <3>1. 2 + 1 = 3
      OBVIOUS
    <3> QED
      BY <3>1, Zenon DEF Drop
  <2>1. \A i \in 3..Len(path) : path[i] \in W
    BY <1>4, ElementOfSeq
  <2>2. d \in Seq(W) /\ Len(d) = Len(t) /\ \A i \in 1..Len(t) : d[i] = path[3 + i - 1]
    BY <1>3, <1>5, <2>1, SubSeqProperties
  <2> HIDE DEF d
  <2>3. ASSUME NEW i \in 1..Len(d) PROVE d[i] = t[i]
    <3>1. 3 + i - 1 \in 3..Len(path) /\ (3 + i - 1) - 2 = i /\ i \in 1..Len(t)
      BY <1>3, <1>5, <2>2
    <3> QED
      BY <1>6, <2>2, <3>1
  <2>4. d = t
    BY <2>2, <2>3, SeqEqual
  <2> QED
    BY <2>0, <2>4
<1> QED
  BY <1>8, <1>11, <1>12, <1>13, Zenon DEF Pathname

\* The root has no segments, and the function's own path two.
LEMMA SegmentsOfRoot ==
  /\ Segments(Root) = <<>>
  /\ Segments(<<"api", "gateway">>) = <<"api", "gateway">>
<1>1. "" \in {""}
  OBVIOUS
<1>2. Without(<<"">>, {""}) = <<>>
  BY <1>1, WithoutOne
<1>3. <<"api", "gateway">> \in Seq({"api", "gateway"} \ {""})
  OBVIOUS
<1>4. Without(<<"api", "gateway">>, {""}) = <<"api", "gateway">>
  BY <1>3, WithoutNothing
<1> QED
  BY <1>2, <1>4 DEF Segments, Root

\* Neither of them is a route or has a key.
LEMMA RootIsNoRoute ==
  ASSUME NEW query, NEW path \in {Root, <<"api", "gateway">>}
  PROVE  Understood(Url(path, query)) =
           [key |-> NoKeyInPath, route |-> "unknown",
            query |-> Without(query, Params({"gatewayPath"}))]
<1> DEFINE s == Segments(path)
           url == Url(path, query)
<1>1. s \in {<<>>, <<"api", "gateway">>}
  BY SegmentsOfRoot
<1>2. s = <<>> \/ s[1] # "v1"
  BY <1>1
<1>3. ~PresentsKey(s)
  BY <1>1 DEF PresentsKey
<1>4. "%" \notin Range(s)
  BY <1>1 DEF Range
<1>5. path # <<"health">> /\ path # <<"ready">>
  <2>1. <<"health">>[1] = "health" /\ <<"ready">>[1] = "ready"
    OBVIOUS
  <2>2. CASE path = Root
    <3>1. path[1] = ""
      BY <2>2 DEF Root
    <3> QED
      BY <2>1, <3>1
  <2>3. CASE path = <<"api", "gateway">>
    <3>1. path[1] = "api"
      BY <2>3
    <3> QED
      BY <2>1, <3>1
  <2> QED
    BY <2>2, <2>3
<1> HIDE DEF s
<1>6. Normalized(path) = path
  BY <1>3 DEF Normalized, s
<1>7. Route(path) = "unknown"
  BY <1>2, <1>4, <1>5 DEF Route, s
<1>8. NoKeyInPath # "%"
  BY DEF NoKeyInPath
<1>9. url.path = path /\ url.query = query
  BY DEF Url
<1>10. ~NamesHost(path)
  <2>1. CASE path = Root
    <3>1. \A part : ~(Len(<<part>>) > 1)
      OBVIOUS
    <3> QED
      BY <2>1, <3>1, Zenon DEF NamesHost, Root
  <2>2. CASE path = <<"api", "gateway">>
    <3>1. path[1] = "api" /\ "api" # ""
      BY <2>2
    <3> QED
      BY <3>1, Zenon DEF NamesHost
  <2> QED
    BY <2>1, <2>2
<1>11. IsUrl(path) /\ Pathname(path) = path
  BY <1>10, PlainPath
<1> QED
  BY <1>3, <1>6, <1>7, <1>8, <1>9, <1>11 DEF Understood, s

\* Behind the rewrite the adapter finds the path the client sent, but for the root.
LEMMA AdapterFindsThePath ==
  ASSUME NEW path \in Seq(PathParts), path # <<>>, path # Root,
         NEW query \in Seq(Params(STRING))
  PROVE  GatewayUrl(Rewritten(Url(path, query))) = Url(path, ExternalSearch(query))
<1> DEFINE q == Captured(path, query)
           url == Url(<<"api", "gateway">>, q)
<1>1. query \in Seq(AnyParams)
  BY SeqMonotonic DEF AnyParams
<1>2. /\ DOMAIN q = 1..(Len(query) + 1) /\ Len(query) \in Nat
      /\ q[1] = Param("gatewayPath", path) /\ First(q, "gatewayPath") = 1
  BY <1>1, CapturedIs, FirstIsTheRewrites
<1>3. Rewritten(Url(path, query)) = url /\ url.query = q
  BY DEF Rewritten, Url, Captured
<1>4. ExternalSearch(q) = ExternalSearch(query)
  BY <1>1, CapturedWithout DEF ExternalSearch
<1> HIDE DEF q
<1>5. q[1].name = "gatewayPath" /\ q[1].value = path /\ 1 \in DOMAIN q
  BY <1>2 DEF Param
<1>6. CapturedGatewayPath(q) = path
  BY <1>2, <1>5 DEF CapturedGatewayPath, Captures
<1> HIDE DEF url
<1> QED
  BY <1>3, <1>4, <1>6 DEF GatewayUrl

\* Behind the rewrite the adapter finds no path for the root.
LEMMA AdapterFindsNoRoot ==
  ASSUME NEW query \in Seq(Params(STRING)), ExternalSearch(query) = query
  PROVE  GatewayUrl(Rewritten(Url(Root, query))) =
           Url(<<"api", "gateway">>, Captured(Root, query))
<1> DEFINE q == Captured(Root, query)
           url == Url(<<"api", "gateway">>, q)
<1>1. query \in Seq(AnyParams) /\ Root \in Seq(PathParts)
  <2>1. Root \in Seq(PathParts)
    BY DEF Root, PathParts
  <2> QED
    BY <2>1, SeqMonotonic DEF AnyParams
<1>2. /\ DOMAIN q = 1..(Len(query) + 1) /\ Len(query) \in Nat
      /\ q[1] = Param("gatewayPath", Root) /\ First(q, "gatewayPath") = 1
      /\ \A i \in 2..(Len(query) + 1) : q[i] = query[i - 1]
  BY <1>1, CapturedIs, FirstIsTheRewrites
<1>3. Rewritten(Url(Root, query)) = url /\ url.query = q
  BY DEF Rewritten, Url, Captured
<1>4. query \in Seq(Params(STRING) \ Params(Names))
  BY WithoutIsSeq DEF ExternalSearch, Names
<1>5. ASSUME NEW i \in 1..Len(query) PROVE query[i].name # "path"
  <2>1. query[i] \in Params(STRING) /\ query[i] \notin Params(Names)
    BY <1>4, ElementOfSeq
  <2> QED
    BY <2>1 DEF Params, Names
<1> HIDE DEF q
<1>6. ASSUME NEW i \in DOMAIN q PROVE q[i].name # "path"
  <2>1. CASE i = 1
    BY <1>2, <2>1 DEF Param
  <2>2. CASE i # 1
    <3> DEFINE k == i - 1
    <3>1. k \in 1..Len(query) /\ q[i] = query[k]
      BY <1>2, <2>2
    <3> HIDE DEF k
    <3> QED
      BY <1>5, <3>1
  <2> QED
    BY <2>1, <2>2
<1>7. q[1].value = Root
  BY <1>2 DEF Param
<1>8. CapturedGatewayPath(q) = <<>>
  BY <1>2, <1>6, <1>7 DEF CapturedGatewayPath, Captures
<1> HIDE DEF url
<1> QED
  BY <1>3, <1>8 DEF GatewayUrl, url, q

\* On the platform and on the server a request has the same key and route, and its
\* query but for the parameters the rewrite uses: for every words, queries and length
\* of a path behind one slash (gatewayUrlFromRequestUrl of src/vercel-adapter.js).
THEOREM Platform == PathSpec => []PlatformMeansTheSame
<1>1. place \in Seq(Words) => PlatformMeansTheSame
  <2> SUFFICES ASSUME place \in Seq(Words), NEW path \in Paths, ~NamesHost(path),
                      NEW query \in Queries,
                      path # Root \/ ExternalSearch(query) = query
               PROVE  Understood(GatewayUrl(Rewritten(Url(path, query)))) =
                        [Understood(Url(path, query)) EXCEPT !.query = ExternalSearch(query)]
    BY DEF PlatformMeansTheSame
  <2> DEFINE gateway == Params({"gatewayPath"})
             search == ExternalSearch(query)
  <2>1. query \in Seq(Params(STRING)) /\ query \in Seq(AnyParams)
    <3>1. query \in Seq(Params(STRING))
      BY WordsAssumption
    <3> QED
      BY <3>1, SeqMonotonic DEF AnyParams
  <2>2. path \in Seq(PathParts) /\ path # <<>>
    BY PathsAre
  <2>3. gateway \subseteq Params(Names)
    BY DEF Params, Names
  <2>4. Without(search, gateway) = search
    BY <2>1, <2>3, WithoutTwice DEF ExternalSearch, Names
  <2>5. CASE path # Root
    <3>1. GatewayUrl(Rewritten(Url(path, query))) = Url(path, search)
      BY <2>1, <2>2, <2>5, AdapterFindsThePath
    <3>2. Understood(Url(path, search)) =
            [Understood(Url(path, query)) EXCEPT !.query = Without(search, gateway)]
      BY DEF Understood, Url
    <3> QED
      BY <2>4, <3>1, <3>2
  <2>6. CASE path = Root
    <3>1. search = query
      BY <2>6
    <3>2. GatewayUrl(Rewritten(Url(path, query))) = Url(<<"api", "gateway">>, Captured(path, query))
      BY <2>1, <2>6, <3>1, AdapterFindsNoRoot
    <3>3. Without(Captured(path, query), gateway) = Without(query, gateway)
      BY <2>1, <2>2, CapturedWithout
    <3>4. Understood(Url(<<"api", "gateway">>, Captured(path, query))) =
            [key |-> NoKeyInPath, route |-> "unknown", query |-> search]
      BY <2>4, <3>1, <3>3, RootIsNoRoute
    <3>5. Understood(Url(path, query)) =
            [key |-> NoKeyInPath, route |-> "unknown", query |-> search]
      BY <2>4, <2>6, <3>1, RootIsNoRoute
    <3>6. [[key |-> NoKeyInPath, route |-> "unknown", query |-> search] EXCEPT !.query = search] =
            [key |-> NoKeyInPath, route |-> "unknown", query |-> search]
      OBVIOUS
    <3> QED
      BY <3>2, <3>4, <3>5, <3>6, Zenon
  <2> QED
    BY <2>5, <2>6
<1> QED
  BY <1>1, Placed, PTL

-----------------------------------------------------------------------------
\* The segments of a path are those of its parts.
LEMMA SegmentsConcat ==
  ASSUME NEW W, NEW s \in Seq(W), NEW t \in Seq(W)
  PROVE  Segments(s \o t) = Segments(s) \o Segments(t)
<1> DEFINE d == {""}
<1> HIDE DEF d
<1>1. Without(s \o t, d) = Without(s, d) \o Without(t, d)
  BY WithoutConcat
<1> QED
  BY <1>1 DEF Segments, d

\* Short sequences put together.
LEMMA ShortConcat ==
  ASSUME NEW a, NEW b, NEW c
  PROVE  /\ <<a>> \o (<<b>> \o <<c>>) = <<a, b, c>>
         /\ <<a>> \o (<<>> \o <<b>>) = <<a, b>>
<1>1. <<b>> \o <<c>> = <<b, c>> /\ <<a>> \o <<b>> = <<a, b>>
  <2>1. ASSUME NEW x, NEW y PROVE <<x>> \o <<y>> = <<x, y>>
    <3>1. <<x>> \in Seq({x, y}) /\ <<y>> \in Seq({x, y}) /\ <<x, y>> \in Seq({x, y})
      OBVIOUS
    <3>2. <<x>> \o <<y>> \in Seq({x, y})
      BY <3>1, ConcatProperties
    <3>3. Len(<<x>> \o <<y>>) = 2 /\ (<<x>> \o <<y>>)[1] = x /\ (<<x>> \o <<y>>)[2] = y
      OBVIOUS
    <3>4. Len(<<x, y>>) = 2 /\ <<x, y>>[1] = x /\ <<x, y>>[2] = y
      OBVIOUS
    <3> DEFINE p == <<x>> \o <<y>>
               q == <<x, y>>
    <3>5. p \in Seq({x, y}) /\ q \in Seq({x, y}) /\ Len(p) = 2 /\ Len(q) = 2
          /\ p[1] = q[1] /\ p[2] = q[2]
      BY <3>1, <3>2, <3>3, <3>4
    <3> HIDE DEF p, q
    <3>6. \A i \in 1..Len(p) : p[i] = q[i]
      BY <3>5
    <3>7. p = q
      BY <3>5, <3>6, SeqEqual
    <3> QED
      BY <3>7 DEF p, q
  <2> QED
    BY <2>1
<1>2. <<a>> \o <<b, c>> = <<a, b, c>>
  <2>1. <<a>> \in Seq({a, b, c}) /\ <<b, c>> \in Seq({a, b, c}) /\ <<a, b, c>> \in Seq({a, b, c})
    OBVIOUS
  <2>2. <<a>> \o <<b, c>> \in Seq({a, b, c})
    BY <2>1, ConcatProperties
  <2>3. /\ Len(<<a>> \o <<b, c>>) = 3 /\ (<<a>> \o <<b, c>>)[1] = a
        /\ (<<a>> \o <<b, c>>)[2] = b /\ (<<a>> \o <<b, c>>)[3] = c
    OBVIOUS
  <2>4. /\ Len(<<a, b, c>>) = 3 /\ <<a, b, c>>[1] = a /\ <<a, b, c>>[2] = b
        /\ <<a, b, c>>[3] = c
    OBVIOUS
  <2> DEFINE p == <<a>> \o <<b, c>>
             q == <<a, b, c>>
  <2>5. p \in Seq({a, b, c}) /\ q \in Seq({a, b, c}) /\ Len(p) = 3 /\ Len(q) = 3
        /\ p[1] = q[1] /\ p[2] = q[2] /\ p[3] = q[3]
    BY <2>1, <2>2, <2>3, <2>4
  <2> HIDE DEF p, q
  <2>6. \A i \in 1..Len(p) : p[i] = q[i]
    BY <2>5
  <2>7. p = q
    BY <2>5, <2>6, SeqEqual
  <2> QED
    BY <2>7 DEF p, q
<1>3. <<>> \o <<b>> = <<b>>
  BY ConcatEmptySeq
<1> QED
  BY <1>1, <1>2, <1>3, Zenon

\* Two parts before one or two.
Follow(a, b, c, d) ==
  <<a, b, c>> = <<a, b>> \o <<c>> /\ <<a, b, c, d>> = <<a, b>> \o <<c, d>>

LEMMA TwoBefore ==
  ASSUME NEW a, NEW b, NEW c, NEW d
  PROVE  Follow(a, b, c, d)
<1> DEFINE W == {a, b, c, d}
           o == <<a, b>>
           p == <<c>>
           q == <<c, d>>
           r == <<a, b, c>>
           s == <<a, b, c, d>>
<1>1. a \in W /\ b \in W /\ c \in W /\ d \in W
  OBVIOUS
<1> HIDE DEF W
<1>2. o \in Seq(W) /\ p \in Seq(W) /\ q \in Seq(W) /\ r \in Seq(W) /\ s \in Seq(W)
  BY <1>1, ShortTuples, Zenon
<1>3. /\ Len(o) = 2 /\ o[1] = a /\ o[2] = b
      /\ Len(p) = 1 /\ p[1] = c /\ Len(q) = 2 /\ q[1] = c /\ q[2] = d
  OBVIOUS
<1>4. /\ Len(r) = 3 /\ r[1] = a /\ r[2] = b /\ r[3] = c
      /\ Len(s) = 4 /\ s[1] = a /\ s[2] = b /\ s[3] = c /\ s[4] = d
  OBVIOUS
<1> HIDE DEF o, p, q, r, s
<1>5. /\ o \o p \in Seq(W) /\ Len(o \o p) = 3
      /\ (o \o p)[1] = a /\ (o \o p)[2] = b /\ (o \o p)[3] = c
  <2>1. /\ o \o p \in Seq(W) /\ Len(o \o p) = Len(o) + Len(p)
        /\ \A i \in 1..(Len(o) + Len(p)) : (o \o p)[i] = IF i <= Len(o) THEN o[i] ELSE p[i - Len(o)]
    BY <1>2, ConcatProperties
  <2>2. Len(o) + Len(p) = 3
    BY <1>3
  <2> DEFINE op == o \o p
  <2> HIDE DEF op
  <2>3. \A i \in 1..3 : op[i] = IF i <= 2 THEN o[i] ELSE p[i - 2]
    BY <1>3, <2>1, <2>2 DEF op
  <2>4. op[1] = o[1] /\ op[2] = o[2] /\ op[3] = p[1]
    BY <2>3
  <2> QED
    BY <1>3, <2>1, <2>2, <2>4 DEF op
<1>6. /\ o \o q \in Seq(W) /\ Len(o \o q) = 4
      /\ (o \o q)[1] = a /\ (o \o q)[2] = b /\ (o \o q)[3] = c /\ (o \o q)[4] = d
  <2>1. /\ o \o q \in Seq(W) /\ Len(o \o q) = Len(o) + Len(q)
        /\ \A i \in 1..(Len(o) + Len(q)) : (o \o q)[i] = IF i <= Len(o) THEN o[i] ELSE q[i - Len(o)]
    BY <1>2, ConcatProperties
  <2>2. Len(o) + Len(q) = 4
    BY <1>3
  <2> DEFINE oq == o \o q
  <2> HIDE DEF oq
  <2>3. \A i \in 1..4 : oq[i] = IF i <= 2 THEN o[i] ELSE q[i - 2]
    BY <1>3, <2>1, <2>2 DEF oq
  <2>4. oq[1] = o[1] /\ oq[2] = o[2] /\ oq[3] = q[1] /\ oq[4] = q[2]
    BY <2>3
  <2> QED
    BY <1>3, <2>1, <2>2, <2>4 DEF oq
<1>7. r = o \o p
  <2>1. \A i \in 1..Len(r) : r[i] = (o \o p)[i]
    BY <1>4, <1>5
  <2> QED
    BY <1>2, <1>4, <1>5, <2>1, SeqEqual
<1>8. s = o \o q
  <2>1. \A i \in 1..Len(s) : s[i] = (o \o q)[i]
    BY <1>4, <1>6
  <2> QED
    BY <1>2, <1>4, <1>6, <2>1, SeqEqual
<1> QED
  BY <1>7, <1>8 DEF o, p, q, r, s, Follow

\* What is behind two slashes and a host.
LEMMA BehindOne ==
  ASSUME NEW W, EmptyPart \in W, NEW host \in W, NEW a \in W, NEW b \in W, NEW t \in Seq(W)
  PROVE  /\ Behind(<<EmptyPart, host, a>> \o t, host, <<a>> \o t)
         /\ Behind(<<EmptyPart, host, a, b>> \o t, host, <<a, b>> \o t)
<1> DEFINE o == <<EmptyPart, host>>
           p == <<a>>
           q == <<a, b>>
<1>1. o \in Seq(W) /\ p \in Seq(W) /\ q \in Seq(W)
  BY ShortTuples, Zenon
<1>2. <<EmptyPart, host, a>> = o \o p /\ <<EmptyPart, host, a, b>> = o \o q
  <2>1. Follow(EmptyPart, host, a, b)
    BY TwoBefore, Zenon
  <2> QED
    BY <2>1, Zenon DEF Follow
<1> HIDE DEF o, p, q
<1>3. (o \o p) \o t = o \o (p \o t)
  BY <1>1, ConcatAssociative, SMTT(30)
<1>4. (o \o q) \o t = o \o (q \o t)
  BY <1>1, ConcatAssociative, SMTT(30)
<1> QED
  BY <1>2, <1>3, <1>4, Zenon DEF Behind, o, p, q

\* The paths with v2 and a key behind two slashes.
SlashesKey == <<"", "v2", Key>> \o place

\* The segments of a path are those of its front and of its words, and the key and
\* v1 are segments.
LEMMA SegmentsOfPaths ==
  ASSUME place \in Seq(Words)
  PROVE  LET rest == Segments(place)
         IN  /\ rest \in Seq(Words \ {""})
             /\ Segments(<<>> \o place) = rest
             /\ Segments(<<"v1">> \o place) = <<"v1">> \o rest
             /\ Segments(<<Key>> \o place) = <<Key>> \o rest
             /\ Segments(<<"v2", Key>> \o place) = <<"v2", Key>> \o rest
             /\ Segments(<<"v2", "", Key>> \o place) = <<"v2", Key>> \o rest
             /\ Segments(<<"v2", Key, "v1">> \o place) = <<"v2", Key, "v1">> \o rest
             /\ Segments(<<"v2", Key>> \o rest) = <<"v2", Key>> \o rest
             /\ Segments(<<"v2", Key, "v1">> \o rest) = <<"v2", Key, "v1">> \o rest
<1> DEFINE rest == Segments(place)
           P == PathParts
           V == P \ {""}
<1>1. rest \in Seq(Words \ {""})
  BY WithoutIsSeq DEF Segments
<1>2. "" \in P /\ "v1" \in P /\ "v2" \in P /\ Key \in P /\ "v1" \in V /\ "v2" \in V /\ Key \in V
  BY WordsAssumption DEF PathParts
<1>3. place \in Seq(P) /\ rest \in Seq(P) /\ rest \in Seq(V)
  BY <1>1, SeqMonotonic DEF PathParts
<1> HIDE DEF P, rest
<1>4. ASSUME NEW front \in Seq(P)
      PROVE  Segments(front \o place) = Segments(front) \o rest
  BY <1>3, SegmentsConcat DEF rest
<1>5. ASSUME NEW front \in Seq(V) PROVE Segments(front) = front /\ front \in Seq(P)
  <2>1. front \in Seq(P)
    BY SeqMonotonic
  <2> QED
    BY <2>1, WithoutNothing DEF Segments
<1>6. ASSUME NEW front \in Seq(V) PROVE Segments(front \o place) = front \o rest
  BY <1>4, <1>5
<1>7. ASSUME NEW front \in Seq(V) PROVE Segments(front \o rest) = front \o rest
  <2>1. front \o rest \in Seq(V)
    BY <1>3, ConcatProperties
  <2> QED
    BY <2>1, <1>5
<1> HIDE DEF V
<1>8. /\ <<>> \in Seq(V) /\ <<"v1">> \in Seq(V) /\ <<Key>> \in Seq(V) /\ <<"v2", Key>> \in Seq(V)
      /\ <<"v2", Key, "v1">> \in Seq(V) /\ <<"v2", "", Key>> \in Seq(P)
  <2>1. <<>> \in Seq(V)
    BY EmptySeq
  <2>2. /\ <<"v1">> \in Seq(V) /\ <<Key>> \in Seq(V) /\ <<"v2", Key>> \in Seq(V)
        /\ <<"v2", Key, "v1">> \in Seq(V)
    BY <1>2, ShortTuples, Zenon
  <2>3. <<"v2", "", Key>> \in Seq(P)
    BY <1>2, ShortTuples, Zenon
  <2> QED
    BY <2>1, <2>2, <2>3
<1>9. Segments(<<"v2", "", Key>>) = <<"v2", Key>>
  <2>1. <<"v2", "", Key>> = <<"v2">> \o (<<"">> \o <<Key>>)
    BY ShortConcat, Zenon
  <2>2. <<"v2">> \in Seq(P) /\ <<"">> \in Seq(P) /\ <<Key>> \in Seq(P)
    BY <1>2, ShortTuples, Zenon
  <2>3. <<"v2">> \in Seq(V) /\ <<Key>> \in Seq(V)
    BY <1>2, ShortTuples, Zenon
  <2>4. Segments(<<"v2">>) = <<"v2">> /\ Segments(<<Key>>) = <<Key>>
    BY <1>5, <2>3, Zenon
  <2>5. Segments(<<"">>) = <<>>
    BY SegmentsOfRoot DEF Root
  <2>6. ASSUME NEW s \in Seq(P), NEW t \in Seq(P) PROVE Segments(s \o t) = Segments(s) \o Segments(t)
    BY SegmentsConcat
  <2>7. ASSUME NEW s \in Seq(P), NEW t \in Seq(P) PROVE s \o t \in Seq(P)
    BY ConcatProperties
  <2>8. Segments(<<"">> \o <<Key>>) = <<>> \o <<Key>> /\ <<"">> \o <<Key>> \in Seq(P)
    BY <2>2, <2>4, <2>5, <2>6, <2>7, Zenon
  <2>9. Segments(<<"v2">> \o (<<"">> \o <<Key>>)) = <<"v2">> \o (<<>> \o <<Key>>)
    BY <2>2, <2>4, <2>6, <2>8, Zenon
  <2>10. <<"v2">> \o (<<>> \o <<Key>>) = <<"v2", Key>>
    BY ShortConcat, Zenon
  <2> QED
    BY <2>1, <2>9, <2>10
<1>10. /\ Segments(<<>> \o place) = <<>> \o rest /\ <<>> \o rest = rest
  BY <1>3, <1>6, <1>8, ConcatEmptySeq
<1>11. /\ Segments(<<"v1">> \o place) = <<"v1">> \o rest
       /\ Segments(<<Key>> \o place) = <<Key>> \o rest
       /\ Segments(<<"v2", Key>> \o place) = <<"v2", Key>> \o rest
       /\ Segments(<<"v2", Key, "v1">> \o place) = <<"v2", Key, "v1">> \o rest
       /\ Segments(<<"v2", Key>> \o rest) = <<"v2", Key>> \o rest
       /\ Segments(<<"v2", Key, "v1">> \o rest) = <<"v2", Key, "v1">> \o rest
  BY <1>6, <1>7, <1>8, Zenon
<1>12. Segments(<<"v2", "", Key>> \o place) = <<"v2", Key>> \o rest
  BY <1>4, <1>8, <1>9, Zenon
<1> QED
  BY <1>1, <1>10, <1>11, <1>12 DEF rest
\* A path with a key presents it, and what is behind the key is dropped from no path.
LEMMA KeyedIs ==
  ASSUME NEW W, NEW rest \in Seq(W)
  PROVE  LET s == <<"v2", Key>> \o rest
         IN  /\ s \in Seq(W \union {"v2", Key}) /\ Len(s) = Len(rest) + 2 /\ Len(rest) \in Nat
             /\ s[1] = "v2" /\ s[2] = Key
             /\ \A i \in 3..Len(s) : s[i] = rest[i - 2]
             /\ PresentsKey(s) /\ Drop(s, 2) = rest
<1> DEFINE o == <<"v2", Key>>
           s == o \o rest
           V == W \union {"v2", Key}
<1>1. "v2" \in V /\ Key \in V
  OBVIOUS
<1>2. rest \in Seq(V) /\ Len(rest) \in Nat
  BY SeqMonotonic, LenProperties
<1> HIDE DEF V
<1>3. o \in Seq(V)
  BY <1>1, ShortTuples, Zenon
<1>4. Len(o) = 2 /\ o[1] = "v2" /\ o[2] = Key
  OBVIOUS
<1> HIDE DEF o
<1>5. /\ s \in Seq(V) /\ Len(s) = Len(o) + Len(rest)
      /\ \A i \in 1..(Len(o) + Len(rest)) : s[i] = IF i <= Len(o) THEN o[i] ELSE rest[i - Len(o)]
  BY <1>2, <1>3, ConcatProperties
<1> HIDE DEF s
<1>6. Len(s) = Len(rest) + 2 /\ s[1] = "v2" /\ s[2] = Key
  BY <1>2, <1>4, <1>5
<1>7. \A i \in 3..Len(s) : s[i] = rest[i - 2]
  BY <1>2, <1>4, <1>5
<1>8. PresentsKey(s)
  BY <1>2, <1>6 DEF PresentsKey
<1>9. Drop(s, 2) = rest
  <2> DEFINE d == SubSeq(s, 3, Len(s))
  <2>1. \A i \in 3..Len(s) : s[i] \in V
    BY <1>5, ElementOfSeq
  <2>2. d \in Seq(V) /\ Len(d) = Len(rest) /\ \A i \in 1..Len(rest) : d[i] = s[3 + i - 1]
    BY <1>2, <1>6, <2>1, SubSeqProperties
  <2> HIDE DEF d
  <2>3. ASSUME NEW i \in 1..Len(d) PROVE d[i] = rest[i]
    <3>1. 3 + i - 1 \in 3..Len(s) /\ (3 + i - 1) - 2 = i /\ i \in 1..Len(rest)
      BY <1>2, <1>6, <2>2
    <3> QED
      BY <1>7, <2>2, <3>1
  <2>4. d = rest
    BY <1>2, <2>2, <2>3, SeqEqual
  <2> QED
    BY <2>4 DEF d, Drop
<1> QED
  BY <1>2, <1>5, <1>6, <1>7, <1>8, <1>9 DEF s, o, V

\* A key and v1 are a key, and v1 of what follows.
LEMMA KeyAndV1 ==
  ASSUME NEW W, NEW rest \in Seq(W)
  PROVE  /\ <<"v2", Key, "v1">> \o rest = <<"v2", Key>> \o (<<"v1">> \o rest)
         /\ LET r == <<"v1">> \o rest
            IN  /\ r \in Seq(W \union {"v1"}) /\ Len(r) = Len(rest) + 1 /\ Len(rest) \in Nat
                /\ r[1] = "v1" /\ \A i \in 2..Len(r) : r[i] = rest[i - 1]
<1> DEFINE V == W \union {"v1", "v2", Key}
           U == W \union {"v1"}
           o == <<"v1">>
           p == <<"v2", Key>>
           q == <<"v2", Key, "v1">>
<1>1. "v1" \in V /\ "v2" \in V /\ Key \in V /\ "v1" \in U
  OBVIOUS
<1>2. rest \in Seq(V) /\ rest \in Seq(U) /\ Len(rest) \in Nat
  BY SeqMonotonic, LenProperties
<1> HIDE DEF V, U
<1>3. o \in Seq(V) /\ p \in Seq(V) /\ q \in Seq(V) /\ o \in Seq(U)
  BY <1>1, ShortTuples, Zenon
<1>4. Len(o) = 1 /\ o[1] = "v1"
  OBVIOUS
<1>5. q = p \o o
  <2>1. q = <<"v2">> \o (<<Key>> \o <<"v1">>) /\ <<Key>> \o <<"v1">> = <<Key, "v1">>
    BY ShortConcat
  <2> QED
    BY <2>1, ShortConcat
<1> HIDE DEF o, p, q
<1>6. (p \o o) \o rest = p \o (o \o rest)
  BY <1>2, <1>3, ConcatAssociative
<1>7. /\ o \o rest \in Seq(U) /\ Len(o \o rest) = Len(o) + Len(rest)
      /\ \A i \in 1..(Len(o) + Len(rest)) :
           (o \o rest)[i] = IF i <= Len(o) THEN o[i] ELSE rest[i - Len(o)]
  BY <1>2, <1>3, ConcatProperties
<1>8. /\ Len(o \o rest) = Len(rest) + 1 /\ (o \o rest)[1] = "v1"
      /\ \A i \in 2..Len(o \o rest) : (o \o rest)[i] = rest[i - 1]
  BY <1>2, <1>4, <1>7
<1> QED
  BY <1>2, <1>5, <1>6, <1>7, <1>8 DEF o, p, q, U

\* Where a path with a key leads.
LEMMA KeyedNormalized ==
  ASSUME NEW W, NEW rest \in Seq(W), NEW path, Segments(path) = <<"v2", Key>> \o rest,
         rest # <<>>, rest \notin ShortNames
  PROVE  Normalized(path) = IF Len(rest) >= 2 /\ rest[1] = "v1" THEN rest ELSE <<"v1">> \o rest
<1> DEFINE s == <<"v2", Key>> \o rest
<1>1. PresentsKey(s) /\ Drop(s, 2) = rest
  BY KeyedIs
<1> HIDE DEF s
<1>2. Segments(path) = s
  BY DEF s
<1>3. /\ rest \notin {<<>>, <<"status">>} /\ rest # <<"params">>
      /\ rest \notin {<<"ready">>, <<"health">>}
  BY Zenon DEF ShortNames
<1> QED
  BY <1>1, <1>2, <1>3, Zenon DEF Normalized
RedactedSegments(s) == IF PresentsKey(s) THEN [s EXCEPT ![2] = Redacted] ELSE s

\* Redacting the second segment leaves no key that is only there.
LEMMA RedactedHasNoKey ==
  ASSUME NEW W, NEW s \in Seq(W), \A i \in 1..Len(s) : i # 2 \/ ~PresentsKey(s) => s[i] # Key
  PROVE  Key \notin Range(RedactedSegments(s))
<1>1. Redacted # Key
  BY WordsAssumption
<1>2. DOMAIN s = 1..Len(s)
  BY LenProperties
<1>3. CASE PresentsKey(s)
  <2> DEFINE r == [s EXCEPT ![2] = Redacted]
  <2>1. DOMAIN r = 1..Len(s) /\ \A i \in 1..Len(s) : r[i] = IF i = 2 THEN Redacted ELSE s[i]
    BY <1>2
  <2> HIDE DEF r
  <2>2. \A i \in DOMAIN r : r[i] # Key
    BY <1>1, <2>1
  <2>3. Key \notin Range(r)
    BY <2>2 DEF Range
  <2> QED
    BY <1>3, <2>3 DEF RedactedSegments, r
<1>4. CASE ~PresentsKey(s)
  <2>1. \A i \in DOMAIN s : s[i] # Key
    BY <1>2, <1>4
  <2>2. Key \notin Range(s)
    BY <2>1 DEF Range
  <2> QED
    BY <1>4, <2>2 DEF RedactedSegments
<1> QED
  BY <1>3, <1>4

\* What is behind the key in a path has no key.
LEMMA NoKeyBehindTheKey ==
  ASSUME NEW W, NEW rest \in Seq(W), Key \notin W
  PROVE  Key \notin Range(RedactedSegments(<<"v2", Key>> \o rest))
<1> DEFINE s == <<"v2", Key>> \o rest
<1>1. /\ s \in Seq(W \union {"v2", Key}) /\ Len(s) = Len(rest) + 2 /\ Len(rest) \in Nat
      /\ s[1] = "v2" /\ \A i \in 3..Len(s) : s[i] = rest[i - 2]
      /\ PresentsKey(s)
  BY KeyedIs
<1>2. "v2" # Key
  BY WordsAssumption
<1>3. \A i \in 1..Len(rest) : rest[i] # Key
  BY ElementOfSeq
<1> HIDE DEF s
<1>4. ASSUME NEW i \in 1..Len(s), i # 2 PROVE s[i] # Key
  <2>1. CASE i = 1
    BY <1>1, <1>2, <2>1
  <2>2. CASE i # 1
    <3> DEFINE k == i - 2
    <3>1. i \in 3..Len(s) /\ k \in 1..Len(rest)
      BY <1>1, <1>4, <2>2
    <3>2. s[i] = rest[k]
      BY <1>1, <3>1
    <3> HIDE DEF k
    <3> QED
      BY <1>3, <3>1, <3>2
  <2> QED
    BY <2>1, <2>2
<1>5. Key \notin Range(RedactedSegments(s))
  BY <1>1, <1>4, RedactedHasNoKey
<1> QED
  BY <1>5 DEF s

\* A path of parts that are no key is logged without one.
LEMMA NoKeyNoLog ==
  ASSUME NEW W, EmptyPart \in W, Key \notin W, NEW path \in Seq(W)
  PROVE  Key \notin Range(LoggedPath(path))
<1>1. Redacted # Key /\ Key # ""
  BY WordsAssumption
<1>2. CASE ~IsUrl(path)
  <2>1. LoggedPath(path) = Root
    BY <1>2 DEF LoggedPath
  <2>2. Key \notin Range(Root)
    <3>1. Root = <<EmptyPart>>
      BY DEF Root, EmptyPart
    <3>2. \A part : \A i \in DOMAIN <<part>> : <<part>>[i] = part
      OBVIOUS
    <3>3. \A i \in DOMAIN Root : Root[i] = EmptyPart
      BY <3>1, <3>2, Zenon
    <3> QED
      BY <1>1, <3>3, Zenon DEF Range, EmptyPart
  <2> QED
    BY <2>1, <2>2
<1>3. CASE IsUrl(path)
  <2> DEFINE p == Pathname(path)
  <2>1. p \in Seq(W)
    BY <1>3, PathnameIs
  <2> HIDE DEF p
  <2>2. \A i \in DOMAIN p : p[i] # Key
    BY <2>1, LenProperties, ElementOfSeq
  <2>3. Key \notin Range(p)
    BY <2>2 DEF Range
  <2>4. Segments(p) \in Seq(W \ {""})
    BY <2>1, WithoutIsSeq DEF Segments
  <2>5. \A i \in 1..Len(Segments(p)) : Segments(p)[i] # Key
    BY <2>4, ElementOfSeq
  <2>6. Key \notin Range(RedactedSegments(Segments(p)))
    BY <2>4, <2>5, RedactedHasNoKey
  <2>7. LoggedPath(path) = Redact(p)
    BY <1>3 DEF LoggedPath, p
  <2> QED
    BY <2>3, <2>6, <2>7 DEF Redact, RedactedSegments
<1> QED
  BY <1>2, <1>3

\* Nor is one that begins with v2 and the key, or has this behind a host.
LEMMA KeyIsRedacted ==
  ASSUME NEW path, IsUrl(path), NEW rest \in Seq(Words \union {"v1"}),
         Segments(Pathname(path)) = <<"v2", Key>> \o rest
  PROVE  Key \notin Range(LoggedPath(path))
<1> DEFINE V == Words \union {"v1"}
           s == <<"v2", Key>> \o rest
<1>1. Key \notin V
  BY WordsAssumption
<1> HIDE DEF V
<1>2. rest \in Seq(V)
  BY DEF V
<1>3. Key \notin Range(RedactedSegments(s))
  BY <1>1, <1>2, NoKeyBehindTheKey
<1>4. PresentsKey(s)
  BY <1>2, KeyedIs
<1> HIDE DEF s
<1>5. Segments(Pathname(path)) = s
  BY DEF s
<1>6. LoggedPath(path) = RedactedSegments(s)
  BY <1>4, <1>5 DEF LoggedPath, Redact, RedactedSegments
<1> QED
  BY <1>3, <1>6

\* Behind two slashes a key is taken from no path that begins with v2.
LEMMA NoKeyBehindSlashes ==
  ASSUME place \in Seq(Words), NEW path, path = SlashesKey
  PROVE  NamesHost(path) /\ Understood(Url(path, <<>>)).key # Key
<1> DEFINE P == PathParts
           t == <<Key>> \o place
           rest == Segments(place)
<1>1. EmptyPart \in P /\ "v2" \in P /\ Key \in P /\ Key # "v2" /\ Key # NoKeyInPath
  BY WordsAssumption DEF PathParts, EmptyPart
<1>2. place \in Seq(P)
  BY SeqMonotonic DEF PathParts
<1> HIDE DEF P
<1>3. <<Key>> \in Seq(P)
  BY <1>1, ShortTuples, Zenon
<1>4. Behind(path, "v2", t) /\ NamesOne("v2")
  <2>1. Behind(<<EmptyPart, "v2", Key>> \o place, "v2", t)
    BY <1>1, <1>2, BehindOne, Zenon
  <2>2. path = <<EmptyPart, "v2", Key>> \o place
    BY Zenon DEF SlashesKey, EmptyPart
  <2>3. NamesOne("v2")
    BY DEF NamesOne, EmptyPart
  <2> QED
    BY <2>1, <2>2, <2>3, Zenon
<1>5. t \in Seq(P) /\ t # <<>>
  <2>1. /\ t \in Seq(P) /\ Len(t) = 1 + Len(place) /\ Len(place) \in Nat
    BY <1>2, <1>3, ConcatProperties, LenProperties
  <2> HIDE DEF t
  <2> QED
    BY <2>1
<1>6. Segments(t) = <<Key>> \o rest
  BY SegmentsOfPaths
<1>7. (<<Key>> \o rest)[1] = Key
  <2>1. rest \in Seq(P)
    <3>1. rest \in Seq(Words \ {""})
      BY SegmentsOfPaths
    <3> QED
      BY <3>1, SeqMonotonic DEF P, PathParts
  <2> HIDE DEF rest
  <2>2. Len(<<Key>>) = 1 /\ <<Key>>[1] = Key /\ Len(rest) \in Nat
    BY <2>1, LenProperties
  <2> QED
    BY <1>3, <2>1, <2>2, ConcatProperties
<1> HIDE DEF t, rest
<1>8. NamesHost(path) /\ Pathname(path) = t
  BY <1>1, <1>4, <1>5, HostFirst
<1>9. ~PresentsKey(Segments(Pathname(path)))
  BY <1>1, <1>6, <1>7, <1>8 DEF PresentsKey
<1>10. Understood(Url(path, <<>>)).key = NoKeyInPath
  BY <1>9 DEF Understood, Url
<1> QED
  BY <1>1, <1>8, <1>10

\* The log has no key that the gateway takes, nor one of a path that names no host;
\* and it has a path that presents none as it is.
LEMMA LogHasNoKey ==
  ASSUME place \in Seq(Words), NEW path \in Paths
  PROVE  /\ Key \in Range(LoggedPath(path)) =>
              NamesHost(path) /\ Understood(Url(path, <<>>)).key # Key
         /\ ~NamesHost(path) /\ ~PresentsKey(Segments(path)) => LoggedPath(path) = path
<1> DEFINE rest == Segments(place)
           P == PathParts
<1>1. /\ rest \in Seq(Words \ {""})
      /\ Segments(<<"v2", Key>> \o place) = <<"v2", Key>> \o rest
      /\ Segments(<<"v2", "", Key>> \o place) = <<"v2", Key>> \o rest
      /\ Segments(<<"v2", Key, "v1">> \o place) = <<"v2", Key, "v1">> \o rest
  BY SegmentsOfPaths
<1>2. rest \in Seq(Words) /\ rest \in Seq(Words \union {"v1"})
  BY <1>1, SeqMonotonic
<1> HIDE DEF rest
<1>3. EmptyPart \in P /\ "v1" \in P /\ "v2" \in P /\ Key \in P
  BY DEF PathParts, EmptyPart
<1>4. place \in Seq(P)
  BY SeqMonotonic DEF PathParts
<1> HIDE DEF P
<1>5. PICK front \in Fronts : path = front \o place
  BY PathsAre
<1>6. ~NamesHost(path) /\ ~PresentsKey(Segments(path)) => LoggedPath(path) = path
  BY PlainPath DEF LoggedPath, Redact
<1>7. CASE front \in {<<>>, <<"">>, <<"v1">>}
  <2> DEFINE W == Words \union {"", "v1"}
  <2>1. EmptyPart \in W /\ "v1" \in W /\ Key \notin W
    BY WordsAssumption DEF EmptyPart
  <2>2. place \in Seq(W)
    BY SeqMonotonic
  <2> HIDE DEF W
  <2>3. <<>> \in Seq(W) /\ <<"">> \in Seq(W) /\ <<"v1">> \in Seq(W)
    BY <2>1, EmptySeq, ShortTuples, Zenon DEF EmptyPart
  <2>4. front \o place \in Seq(W)
    BY <1>7, <2>2, <2>3, ConcatProperties
  <2> QED
    BY <1>5, <1>6, <2>1, <2>4, NoKeyNoLog
<1>8. CASE front \in {<<"v2", Key>>, <<"v2", "", Key>>, <<"v2", Key, "v1">>}
  <2>1. path[1] = "v2"
    <3>1. <<"v2", Key>> \in Seq(P) /\ <<"v2", "", Key>> \in Seq(P) /\ <<"v2", Key, "v1">> \in Seq(P)
      BY <1>3, ShortTuples, Zenon DEF EmptyPart
    <3>2. \A a, b : /\ Len(<<"v2", a>>) >= 1 /\ <<"v2", a>>[1] = "v2"
                    /\ Len(<<"v2", a, b>>) >= 1 /\ <<"v2", a, b>>[1] = "v2"
      OBVIOUS
    <3>3. Len(front) >= 1 /\ front[1] = "v2" /\ front \in Seq(P)
      BY <1>8, <3>1, <3>2, Zenon
    <3>4. Len(front) \in Nat /\ Len(place) \in Nat
      BY <1>4, <3>3, LenProperties
    <3> QED
      BY <1>4, <1>5, <3>3, <3>4, ConcatProperties
  <2>2. ~NamesHost(path)
    BY <2>1 DEF NamesHost
  <2>3. IsUrl(path) /\ Pathname(path) = path
    BY <2>2, PlainPath
  <2>4. CASE front \in {<<"v2", Key>>, <<"v2", "", Key>>}
    <3>1. Segments(path) = <<"v2", Key>> \o rest
      BY <1>1, <1>5, <2>4
    <3> QED
      BY <1>2, <1>6, <2>3, <3>1, KeyIsRedacted
  <2>5. CASE front = <<"v2", Key, "v1">>
    <3> DEFINE r == <<"v1">> \o rest
    <3>1. Segments(path) = <<"v2", Key>> \o r
      BY <1>1, <1>2, <1>5, <2>5, KeyAndV1
    <3>2. r \in Seq(Words \union {"v1"})
      BY <1>2, KeyAndV1
    <3> HIDE DEF r
    <3> QED
      BY <1>6, <2>3, <3>1, <3>2, KeyIsRedacted
  <2> QED
    BY <1>8, <2>4, <2>5
<1>9. CASE front = <<"", "v2", Key>>
  <2>1. path = SlashesKey
    BY <1>5, <1>9, Zenon DEF SlashesKey
  <2> QED
    BY <1>6, <2>1, NoKeyBehindSlashes
<1>10. CASE front = <<"", "v1", "v2", Key>>
  <2> DEFINE t == <<"v2", Key>> \o place
  <2>1. <<"v2", Key>> \in Seq(P)
    BY <1>3, ShortTuples, Zenon
  <2>2. Behind(path, "v1", t) /\ NamesOne("v1")
    <3>1. Behind(<<EmptyPart, "v1", "v2", Key>> \o place, "v1", t)
      BY <1>3, <1>4, BehindOne, Zenon
    <3>2. path = <<EmptyPart, "v1", "v2", Key>> \o place
      BY <1>5, <1>10, Zenon DEF EmptyPart
    <3>3. NamesOne("v1")
      BY DEF NamesOne, EmptyPart
    <3> QED
      BY <3>1, <3>2, <3>3, Zenon
  <2>3. t \in Seq(P) /\ t # <<>>
    <3>1. t \in Seq(P) /\ Len(t) = 2 + Len(place) /\ Len(place) \in Nat
      BY <1>4, <2>1, ConcatProperties, LenProperties
    <3> HIDE DEF t
    <3> QED
      BY <3>1
  <2>4. Segments(t) = <<"v2", Key>> \o rest
    BY <1>1
  <2> HIDE DEF t
  <2>5. IsUrl(path) /\ Pathname(path) = t
    BY <1>3, <2>2, <2>3, HostFirst
  <2> QED
    BY <1>2, <1>6, <2>4, <2>5, KeyIsRedacted
<1> QED
  BY <1>5, <1>7, <1>8, <1>9, <1>10, Zenon DEF Fronts

\* Where a path leads does not depend on the key in it, nor on v1 behind it.
LEMMA KeyedRoutes ==
  ASSUME place \in Seq(Words), Segments(place) # <<>>
  PROVE  LET rest == Segments(place)
             plain == Route(<<"v1">> \o rest)
         IN  /\ Route(Normalized(<<"v2", Key, "v1">> \o rest)) = plain
             /\ rest \notin ShortNames /\ rest[1] # "v1" =>
                  Route(Normalized(<<"v2", Key>> \o rest)) = plain
<1> DEFINE rest == Segments(place)
           r == <<"v1">> \o rest
           V == Words \union {"v1"}
           long == <<"v2", Key, "v1">> \o rest
           short == <<"v2", Key>> \o rest
<1>1. rest \in Seq(Words \ {""}) /\ Segments(short) = <<"v2", Key>> \o rest /\ Segments(long) = long
  BY SegmentsOfPaths
<1> HIDE DEF rest
<1>2. rest \in Seq(Words) /\ Len(rest) \in Nat /\ rest # <<>>
  BY <1>1, SeqMonotonic, LenProperties DEF rest
<1>3. Len(rest) >= 1
  BY <1>2, EmptySeq
<1>4. long = <<"v2", Key>> \o r /\ r \in Seq(V) /\ Len(r) = Len(rest) + 1 /\ r[1] = "v1"
  BY <1>2, KeyAndV1
<1> HIDE DEF r, long, short
<1>5. Len(r) >= 2
  BY <1>2, <1>3, <1>4
<1>6. r # <<>> /\ r \notin ShortNames
  <2>1. ~(Len(<<>>) >= 2) /\ \A t : ~(Len(<<t>>) >= 2)
    OBVIOUS
  <2>2. \A t \in ShortNames \union {<<>>} : ~(Len(t) >= 2)
    BY <2>1, Zenon DEF ShortNames
  <2> QED
    BY <1>5, <2>2, Zenon
<1>7. Normalized(long) = r
  BY <1>1, <1>4, <1>5, <1>6, KeyedNormalized
<1>8. ASSUME rest \notin ShortNames, rest[1] # "v1" PROVE Normalized(short) = r
  BY <1>1, <1>2, <1>8, KeyedNormalized DEF r
<1> QED
  BY <1>7, <1>8 DEF rest, r, long, short

\* A key in the path says who asks and nothing else, and is not logged where it is
\* taken, nor from any path behind one slash: for all words, all keys that are none of
\* them, and paths of any length, behind two slashes and a host too
\* (normalizePathApiKeyRoute, routeRequest and safePath of src/gateway.js).
THEOREM KeyInPath == PathSpec => []KeyInPathOnlyAuthenticates
<1>1. place \in Seq(Words) => KeyInPathOnlyAuthenticates
  BY LogHasNoKey, KeyedRoutes DEF KeyInPathOnlyAuthenticates
<1> QED
  BY <1>1, Placed, PTL
-----------------------------------------------------------------------------
(* SettlementReconciliation: any references, amounts and numbers of records. *)

IsTotals(h, terms, n) ==
  h = [i \in 0..n |-> IF i = 0 THEN 0 ELSE h[i - 1] + terms[i]]

\* There are running totals of any number of terms.
LEMMA TotalsExist ==
  ASSUME NEW terms, NEW n \in Nat
  PROVE  \E h : IsTotals(h, terms, n)
<1> DEFINE S == {m \in 0..n : \E h : IsTotals(h, terms, m)}
<1>1. 0 \in S
  <2> DEFINE h == [i \in 0..0 |-> 0]
  <2>1. h = [i \in 0..0 |-> IF i = 0 THEN 0 ELSE h[i - 1] + terms[i]]
    OBVIOUS
  <2>2. IsTotals(h, terms, 0)
    BY <2>1 DEF IsTotals
  <2>3. 0 \in 0..n
    OBVIOUS
  <2> HIDE DEF h
  <2> QED
    BY <2>2, <2>3
<1>2. ASSUME NEW m \in 0..(n - 1), m \in S PROVE m + 1 \in S
  <2>1. PICK f : IsTotals(f, terms, m)
    BY <1>2
  <2> DEFINE g == [i \in 0..(m + 1) |-> IF i = m + 1 THEN f[m] + terms[m + 1] ELSE f[i]]
  <2>2. ASSUME NEW i \in 0..(m + 1)
        PROVE  g[i] = IF i = 0 THEN 0 ELSE g[i - 1] + terms[i]
    <3>1. CASE i = m + 1
      <4>1. i # 0 /\ i - 1 = m /\ m \in 0..(m + 1) /\ m # m + 1
        BY <3>1
      <4>2. g[m] = f[m]
        BY <4>1
      <4> QED
        BY <3>1, <4>1, <4>2
    <3>2. CASE i # m + 1
      <4>1. i \in 0..m /\ (i # 0 => i - 1 \in 0..(m + 1) /\ i - 1 # m + 1)
        BY <3>2
      <4>2. f[i] = IF i = 0 THEN 0 ELSE f[i - 1] + terms[i]
        BY <2>1, <4>1 DEF IsTotals
      <4>3. g[i] = f[i] /\ (i # 0 => g[i - 1] = f[i - 1])
        BY <4>1, <3>2
      <4> QED
        BY <4>2, <4>3
    <3> QED
      BY <3>1, <3>2
  <2>3. g = [i \in 0..(m + 1) |-> g[i]]
    OBVIOUS
  <2> HIDE DEF g
  <2>4. IsTotals(g, terms, m + 1)
    BY <2>2, <2>3 DEF IsTotals
  <2>5. m + 1 \in 0..n
    OBVIOUS
  <2> QED
    BY <2>4, <2>5
<1>3. 0..n \subseteq S
  <2> HIDE DEF S
  <2> QED
    BY <1>1, <1>2, UpTo
<1> QED
  BY <1>3

\* The running totals of natural numbers.
Totals(h, terms) ==
  /\ h[0] = 0
  /\ \A n \in 1..Len(terms) : h[n] = h[n - 1] + terms[n]
  /\ \A n \in 0..Len(terms) : h[n] \in Nat
  /\ Total(terms) = h[Len(terms)]

\* Total is the last of them.
LEMMA TotalIs ==
  ASSUME NEW terms \in Seq(Nat)
  PROVE  \E h : Totals(h, terms)
<1> DEFINE N == Len(terms)
           h == CHOOSE f : IsTotals(f, terms, N)
           S == {n \in 0..N : h[n] \in Nat}
<1>1. N \in Nat /\ \A n \in 1..N : terms[n] \in Nat
  BY LenProperties, ElementOfSeq
<1>2. IsTotals(h, terms, N)
  <2> HIDE DEF N
  <2> QED
    BY <1>1, TotalsExist
<1>3. Total(terms) = h[N]
  BY DEF Total, IsTotals
<1> HIDE DEF h, N
<1>4. h[0] = 0 /\ \A n \in 1..N : h[n] = h[n - 1] + terms[n]
  BY <1>1, <1>2 DEF IsTotals
<1>5. 0 \in S
  BY <1>1, <1>4
<1>6. ASSUME NEW k \in 0..(N - 1), k \in S PROVE k + 1 \in S
  <2>1. k + 1 \in 1..N /\ k + 1 \in 0..N /\ (k + 1) - 1 = k
    BY <1>1
  <2>2. h[k + 1] = h[k] + terms[k + 1] /\ h[k] \in Nat /\ terms[k + 1] \in Nat
    BY <1>1, <1>4, <1>6, <2>1
  <2> QED
    BY <2>1, <2>2
<1>7. \A n \in 0..N : h[n] \in Nat
  <2> HIDE DEF S
  <2>1. 0..N \subseteq S
    BY <1>1, <1>5, <1>6, UpTo
  <2> QED
    BY <2>1 DEF S
<1> QED
  BY <1>3, <1>4, <1>7 DEF Totals, N

TotalsOf(terms) == CHOOSE h : Totals(h, terms)

\* Smaller terms have a smaller total.
LEMMA TotalIsMonotone ==
  ASSUME NEW s \in Seq(Nat), NEW t \in Seq(Nat), Len(s) = Len(t),
         \A i \in 1..Len(s) : s[i] <= t[i]
  PROVE  Total(s) <= Total(t)
<1> DEFINE N == Len(s)
           f == TotalsOf(s)
           g == TotalsOf(t)
           S == {n \in 0..N : f[n] <= g[n]}
<1>1. Totals(f, s) /\ Totals(g, t) /\ N \in Nat /\ Len(t) = N
  BY TotalIs, LenProperties DEF TotalsOf
<1>2. \A n \in 1..N : s[n] \in Nat /\ t[n] \in Nat /\ s[n] <= t[n]
  BY <1>1, ElementOfSeq
<1>3. /\ f[0] = 0 /\ g[0] = 0
      /\ \A n \in 1..N : f[n] = f[n - 1] + s[n] /\ g[n] = g[n - 1] + t[n]
      /\ \A n \in 0..N : f[n] \in Nat /\ g[n] \in Nat
      /\ Total(s) = f[N] /\ Total(t) = g[N]
  BY <1>1 DEF Totals
<1> HIDE DEF f, g, N
<1>4. 0 \in S
  BY <1>1, <1>3
<1>5. ASSUME NEW k \in 0..(N - 1), k \in S PROVE k + 1 \in S
  <2>1. k + 1 \in 1..N /\ k + 1 \in 0..N /\ (k + 1) - 1 = k /\ k \in 0..N
    BY <1>1
  <2>2. f[k + 1] = f[k] + s[k + 1] /\ g[k + 1] = g[k] + t[k + 1]
    BY <1>3, <2>1
  <2>3. f[k] <= g[k] /\ f[k] \in Nat /\ g[k] \in Nat
        /\ s[k + 1] \in Nat /\ t[k + 1] \in Nat /\ s[k + 1] <= t[k + 1]
    BY <1>2, <1>3, <1>5, <2>1
  <2> QED
    BY <2>1, <2>2, <2>3, SMTT(30)
<1>6. N \in S
  <2> HIDE DEF S
  <2>1. 0..N \subseteq S
    BY <1>1, <1>4, <1>5, UpTo
  <2> QED
    BY <1>1, <2>1
<1> QED
  BY <1>3, <1>6

\* t is s but for one term, which is larger by x.
OneMore(s, t, k, x) ==
  /\ Len(s) = Len(t) /\ k \in 1..Len(s) /\ x \in Nat
  /\ t[k] = s[k] + x
  /\ \A i \in 1..Len(s) : i # k => t[i] = s[i]

\* A term that is larger by x makes the total larger by x.
LEMMA TotalOfOneMore ==
  ASSUME NEW s \in Seq(Nat), NEW t \in Seq(Nat), NEW k, NEW x, OneMore(s, t, k, x)
  PROVE  Total(t) = Total(s) + x
<1> DEFINE N == Len(s)
           f == TotalsOf(s)
           g == TotalsOf(t)
           S == {n \in 0..N : g[n] = f[n] + (IF n < k THEN 0 ELSE x)}
<1>1. /\ Len(t) = N /\ k \in 1..N /\ x \in Nat /\ t[k] = s[k] + x
      /\ \A i \in 1..N : i # k => t[i] = s[i]
  BY DEF OneMore
<1>2. Totals(f, s) /\ Totals(g, t) /\ N \in Nat /\ Len(t) = N
  BY <1>1, TotalIs, LenProperties DEF TotalsOf
<1>3. \A n \in 1..N : s[n] \in Nat /\ t[n] \in Nat /\ t[n] = s[n] + (IF n = k THEN x ELSE 0)
  BY <1>2, <1>1, ElementOfSeq, SMTT(30)
<1>4. /\ f[0] = 0 /\ g[0] = 0
      /\ \A n \in 1..N : f[n] = f[n - 1] + s[n] /\ g[n] = g[n - 1] + t[n]
      /\ \A n \in 0..N : f[n] \in Nat /\ g[n] \in Nat
      /\ Total(s) = f[N] /\ Total(t) = g[N] /\ k \in 1..N /\ x \in Nat
  BY <1>2, <1>1 DEF Totals
<1> HIDE DEF f, g, N
<1>5. 0 \in S
  BY <1>2, <1>4
<1>6. ASSUME NEW m \in 0..(N - 1), m \in S PROVE m + 1 \in S
  <2>1. m + 1 \in 1..N /\ m + 1 \in 0..N /\ (m + 1) - 1 = m /\ m \in 0..N
    BY <1>2
  <2>2. f[m + 1] = f[m] + s[m + 1] /\ g[m + 1] = g[m] + t[m + 1]
    BY <1>4, <2>1
  <2>3. g[m] = f[m] + (IF m < k THEN 0 ELSE x) /\ f[m] \in Nat /\ g[m] \in Nat
    BY <1>4, <1>6, <2>1
  <2>4. s[m + 1] \in Nat /\ t[m + 1] = s[m + 1] + (IF m + 1 = k THEN x ELSE 0)
    BY <1>3, <2>1
  <2>5. CASE m + 1 < k
    BY <1>4, <2>1, <2>2, <2>3, <2>4, <2>5, SMTT(30)
  <2>6. CASE m + 1 = k
    BY <1>4, <2>1, <2>2, <2>3, <2>4, <2>6, SMTT(30)
  <2>7. CASE ~(m + 1 < k) /\ m + 1 # k
    <3>1. ~(m < k)
      BY <1>2, <1>4, <2>1, <2>7
    <3>2. g[m + 1] = f[m + 1] + x
      BY <1>4, <2>2, <2>3, <2>4, <2>7, <3>1, SMTT(30)
    <3> QED
      BY <2>1, <2>7, <3>2
  <2> QED
    BY <2>5, <2>6, <2>7
<1>7. N \in S
  <2> HIDE DEF S
  <2>1. 0..N \subseteq S
    BY <1>2, <1>5, <1>6, UpTo
  <2> QED
    BY <1>2, <2>1
<1> QED
  BY <1>2, <1>4, <1>7
\* The terms of s are some of those of t, each once.
Picks(at, s, t) ==
  /\ at \in [1..Len(s) -> 1..Len(t)]
  /\ \A i, j \in 1..Len(s) : at[i] = at[j] => i = j
  /\ \A i \in 1..Len(s) : s[i] = t[at[i]]

\* Some of the terms have no larger total than all of them.
LEMMA TotalOfSome ==
  ASSUME NEW s \in Seq(Nat), NEW t \in Seq(Nat), NEW at, Picks(at, s, t)
  PROVE  Total(s) <= Total(t)
<1> DEFINE M == Len(s)
           N == Len(t)
           f == TotalsOf(s)
           Seen(n) == {at[i] : i \in 1..n}
           Only(n) == [j \in 1..N |-> IF j \in Seen(n) THEN t[j] ELSE 0]
           S == {n \in 0..M : f[n] <= Total(Only(n))}
<1>1. Totals(f, s) /\ M \in Nat /\ N \in Nat
  BY TotalIs, LenProperties DEF TotalsOf
<1>2. /\ f[0] = 0 /\ Total(s) = f[M] /\ \A n \in 1..M : f[n] = f[n - 1] + s[n]
      /\ \A n \in 0..M : f[n] \in Nat
  BY <1>1 DEF Totals
<1>3. \A j \in 1..N : t[j] \in Nat
  BY ElementOfSeq
<1>4. ASSUME NEW n \in 0..M
      PROVE  /\ Only(n) \in Seq(Nat) /\ Len(Only(n)) = N /\ Total(Only(n)) \in Nat
             /\ \A j \in 1..N : Only(n)[j] = IF j \in Seen(n) THEN t[j] ELSE 0
  <2> DEFINE o == Only(n)
  <2>1. o \in [1..N -> Nat] /\ \A j \in 1..N : o[j] = IF j \in Seen(n) THEN t[j] ELSE 0
    BY <1>3
  <2> HIDE DEF o, N
  <2>2. o \in Seq(Nat) /\ Len(o) = N
    BY <1>1, <2>1
  <2>3. Totals(TotalsOf(o), o)
    BY <2>2, TotalIs DEF TotalsOf
  <2>4. Total(o) \in Nat
    BY <1>1, <2>2, <2>3 DEF Totals
  <2> QED
    BY <2>1, <2>2, <2>4 DEF o
<1>5. at \in [1..M -> 1..N] /\ \A i \in 1..M : s[i] = t[at[i]]
  BY DEF Picks
<1>6. \A i, j \in 1..M : at[i] = at[j] => i = j
  BY DEF Picks
<1> HIDE DEF f, M, N, Only
<1>7. 0 \in S
  <2>1. Total(Only(0)) \in Nat /\ 0 \in 0..M
    BY <1>1, <1>4
  <2>2. f[0] <= Total(Only(0))
    BY <1>2, <2>1
  <2> QED
    BY <2>1, <2>2
<1>8. ASSUME NEW k \in 0..(M - 1), k \in S PROVE k + 1 \in S
  <2> DEFINE n == k + 1
             p == at[n]
             o == Only(k)
             q == Only(n)
  <2>1. /\ n \in 1..M /\ n \in 0..M /\ n - 1 = k /\ k \in 0..M /\ n \notin 1..k
        /\ \A i \in 1..n : i \in 1..M /\ (i = n \/ i \in 1..k)
        /\ \A i \in 1..k : i \in 1..n /\ i \in 1..M /\ i # n
    BY <1>1
  <2>2. f[n] = f[k] + s[n] /\ f[k] \in Nat /\ f[k] <= Total(o)
    BY <1>2, <1>8, <2>1
  <2>3. p \in 1..N /\ s[n] = t[p] /\ t[p] \in Nat
    BY <1>3, <1>5, <2>1
  <2> HIDE DEF n
  <2>4. /\ o \in Seq(Nat) /\ Len(o) = N /\ Total(o) \in Nat
        /\ \A j \in 1..N : o[j] = IF j \in Seen(k) THEN t[j] ELSE 0
        /\ q \in Seq(Nat) /\ Len(q) = N
        /\ \A j \in 1..N : q[j] = IF j \in Seen(n) THEN t[j] ELSE 0
    BY <1>4, <2>1
  <2>5. p \notin Seen(k)
    BY <1>6, <2>1
  <2>6. p \in Seen(n) /\ \A j : j # p => (j \in Seen(n) <=> j \in Seen(k))
    BY <2>1
  <2> HIDE DEF p, o, q, Seen
  <2>7. o[p] = 0 /\ q[p] = t[p]
    BY <2>3, <2>4, <2>5, <2>6
  <2>8. q[p] = o[p] + t[p]
    BY <2>3, <2>7
  <2>9. \A j \in 1..N : j # p => q[j] = o[j]
    BY <2>4, <2>6
  <2>10. Total(q) = Total(o) + t[p]
    <3> DEFINE x == t[p]
    <3>1. OneMore(o, q, p, x)
      BY <2>3, <2>4, <2>8, <2>9 DEF OneMore
    <3> HIDE DEF x
    <3>2. Total(q) = Total(o) + x
      BY <2>4, <3>1, TotalOfOneMore
    <3> QED
      BY <3>2 DEF x
  <2>11. f[n] <= Total(q)
    <3> HIDE DEF n
    <3> QED
      BY <2>2, <2>3, <2>4, <2>10, SMTT(30)
  <2> QED
    BY <2>1, <2>11 DEF n, q
<1>9. M \in S
  <2> HIDE DEF S
  <2>1. 0..M \subseteq S
    BY <1>1, <1>7, <1>8, UpTo
  <2> QED
    BY <1>1, <2>1
<1>10. Total(Only(M)) <= Total(t)
  <2> DEFINE o == Only(M)
  <2>1. /\ o \in Seq(Nat) /\ Len(o) = N
        /\ \A j \in 1..N : o[j] = IF j \in Seen(M) THEN t[j] ELSE 0
    <3>1. M \in 0..M
      BY <1>1
    <3> HIDE DEF Seen
    <3> QED
      BY <1>4, <3>1, Zenon
  <2> HIDE DEF o, Seen
  <2>2. \A j \in 1..Len(o) : o[j] <= t[j]
    BY <1>3, <2>1
  <2>3. Total(o) <= Total(t)
    BY <2>1, <2>2, TotalIsMonotone DEF N
  <2> QED
    BY <2>3 DEF o
<1>11. Total(t) \in Nat
  <2>1. Totals(TotalsOf(t), t)
    BY TotalIs DEF TotalsOf
  <2> QED
    BY <1>1, <2>1 DEF Totals, N
<1>12. f[M] \in Nat /\ f[M] <= Total(Only(M)) /\ Total(Only(M)) \in Nat
  BY <1>1, <1>2, <1>4, <1>9
<1> QED
  BY <1>2, <1>10, <1>11, <1>12
\* The records are records, whatever is put together.
SInv ==
  /\ dataset.debits \in Seq(Debit)
  /\ dataset.settlements \in Seq(Settlement)
  /\ DOMAIN dataset = {"debits", "files", "settlements"}

\* Every audit has lists of debits and of settlements.
LEMMA Audits == SettlementSpec => []SInv
<1>1. SettlementInit => SInv
  BY EmptySeq DEF SettlementInit, SInv
<1>2. SInv /\ [SettlementNext]_dataset => SInv'
  <2> SUFFICES ASSUME SInv, [SettlementNext]_dataset PROVE SInv'
    OBVIOUS
  <2>1. CASE AddDebit
    <3>1. PICK debit \in Debit : dataset' = [dataset EXCEPT !.debits = Append(@, debit)]
      BY <2>1 DEF AddDebit
    <3>2. Append(dataset.debits, debit) \in Seq(Debit)
      BY DEF SInv
    <3> QED
      BY <3>1, <3>2 DEF SInv
  <2>2. CASE AddFile
    BY <2>2 DEF AddFile, SInv
  <2>3. CASE AddSettlement
    <3>1. PICK s \in Settlement : dataset' = [dataset EXCEPT !.settlements = Append(@, s)]
      BY <2>3 DEF AddSettlement
    <3>2. Append(dataset.settlements, s) \in Seq(Settlement)
      BY DEF SInv
    <3> QED
      BY <3>1, <3>2 DEF SInv
  <2>4. CASE UNCHANGED dataset
    BY <2>4 DEF SInv
  <2> QED
    BY <2>1, <2>2, <2>3, <2>4 DEF SettlementNext
<1> QED
  BY <1>1, <1>2, PTL DEF SettlementSpec

\* The total of no, one and two terms.
LEMMA ShortTotals ==
  ASSUME NEW t \in Seq(Nat)
  PROVE  /\ Len(t) = 0 => Total(t) = 0
         /\ Len(t) = 1 => Total(t) = t[1]
         /\ Len(t) = 2 => Total(t) = t[1] + t[2]
<1>1. PICK h : Totals(h, t)
  BY TotalIs
<1>2. h[0] = 0 /\ Total(t) = h[Len(t)]
  BY <1>1 DEF Totals
<1>3. Len(t) = 0 => Total(t) = 0
  BY <1>2
<1>4. ASSUME Len(t) \in {1, 2} PROVE h[1] = t[1] /\ t[1] \in Nat
  <2>1. 1 \in 1..Len(t) /\ 1 - 1 = 0
    BY <1>4
  <2>2. h[1] = h[1 - 1] + t[1] /\ t[1] \in Nat
    BY <1>1, <2>1, ElementOfSeq DEF Totals
  <2> QED
    BY <1>2, <2>1, <2>2
<1>5. ASSUME Len(t) = 2 PROVE h[2] = h[1] + t[2]
  <2>1. 2 \in 1..Len(t) /\ 2 - 1 = 1
    BY <1>5
  <2>2. h[2] = h[2 - 1] + t[2]
    BY <1>1, <2>1 DEF Totals
  <2> QED
    BY <2>1, <2>2
<1> QED
  BY <1>2, <1>3, <1>4, <1>5

\* Padding with zeros and reading digits at their places agree.
LEMMA CentsAreHundredths ==
  ASSUME NEW amount, amount.whole \in Nat, amount.digits \in Seq(0..9), IsDecimal(amount)
  PROVE  Cents(amount) = Hundredths(amount) /\ Cents(amount) \in Nat
<1> DEFINE d == amount.digits
           w == amount.whole
           p == d \o <<0, 0>>
           t == [i \in DOMAIN d |-> Places[i] * d[i]]
<1>1. d \in Seq(0..9) /\ w \in Nat /\ Len(d) \in Nat /\ Len(d) <= 2 /\ DOMAIN d = 1..Len(d)
  BY LenProperties DEF IsDecimal
<1>2. Cents(amount) = 100 * w + 10 * p[1] + p[2] /\ Hundredths(amount) = 100 * w + Total(t)
  BY DEF Cents, Hundredths
<1> HIDE DEF d, w
<1>3. \A i \in 1..Len(d) : d[i] \in 0..9
  BY <1>1, ElementOfSeq
<1>4. Places[1] = 10 /\ Places[2] = 1
  BY DEF Places
<1> HIDE DEF Places
<1>5. t \in [1..Len(d) -> Nat] /\ \A i \in 1..Len(d) : t[i] = Places[i] * d[i]
  <2>1. ASSUME NEW i \in 1..Len(d) PROVE Places[i] * d[i] \in Nat
    <3>1. i = 1 \/ i = 2
      BY <1>1
    <3>2. CASE i = 1
      BY <1>3, <1>4, <3>2
    <3>3. CASE i = 2
      BY <1>3, <1>4, <3>3
    <3> QED
      BY <3>1, <3>2, <3>3
  <2> QED
    BY <1>1, <2>1
<1> HIDE DEF t
<1>6. t \in Seq(Nat) /\ Len(t) = Len(d)
  BY <1>1, <1>5
<1>7. CASE Len(d) = 0
  <2>1. d = <<>>
    BY <1>1, <1>7, EmptySeq
  <2>2. p[1] = 0 /\ p[2] = 0
    BY <2>1
  <2>3. Total(t) = 0
    BY <1>6, <1>7, ShortTotals
  <2> HIDE DEF p
  <2> QED
    BY <1>1, <1>2, <2>2, <2>3
<1>8. ASSUME NEW i \in 1..2
      PROVE  p[i] = IF i <= Len(d) THEN d[i] ELSE 0
  <2> DEFINE z == <<0, 0>>
  <2>1. z \in Seq(0..9) /\ Len(z) = 2 /\ z[1] = 0 /\ z[2] = 0
    OBVIOUS
  <2> HIDE DEF z
  <2>2. \A k \in 1..(Len(d) + Len(z)) : (d \o z)[k] = IF k <= Len(d) THEN d[k] ELSE z[k - Len(d)]
    BY <1>1, <2>1, ConcatProperties
  <2>3. (d \o z)[i] = IF i <= Len(d) THEN d[i] ELSE z[i - Len(d)]
    <3>1. i \in 1..(Len(d) + Len(z))
      BY <1>1, <2>1
    <3> QED
      BY <2>2, <3>1, Zenon
  <2>4. i > Len(d) => z[i - Len(d)] = 0
    BY <1>1, <2>1
  <2>5. (d \o z)[i] = IF i <= Len(d) THEN d[i] ELSE 0
    BY <1>1, <2>3, <2>4
  <2> QED
    BY <2>5 DEF z
<1> HIDE DEF p
<1>9. p[1] = (IF 1 <= Len(d) THEN d[1] ELSE 0) /\ p[2] = (IF 2 <= Len(d) THEN d[2] ELSE 0)
  BY <1>8
<1>10. CASE Len(d) = 1
  <2>1. 1 \in 1..Len(d) /\ d[1] \in 0..9
    BY <1>3, <1>10
  <2>2. t[1] = 10 * d[1]
    BY <1>4, <1>5, <2>1
  <2>3. Total(t) = 10 * d[1]
    BY <1>6, <1>10, <2>2, ShortTotals
  <2>4. p[1] = d[1] /\ p[2] = 0
    BY <1>9, <1>10
  <2>5. 100 * w + 10 * d[1] + 0 = 100 * w + 10 * d[1] /\ 100 * w + 10 * d[1] \in Nat
    BY <1>1, <2>1, SMTT(30)
  <2> QED
    BY <1>2, <2>3, <2>4, <2>5, Zenon
<1>11. CASE Len(d) = 2
  <2>1. 1 \in 1..Len(d) /\ 2 \in 1..Len(d) /\ d[1] \in 0..9 /\ d[2] \in 0..9
    BY <1>3, <1>11
  <2>2. t[1] = 10 * d[1] /\ t[2] = d[2]
    BY <1>4, <1>5, <2>1
  <2>3. Total(t) = 10 * d[1] + d[2]
    BY <1>6, <1>11, <2>2, ShortTotals
  <2>4. p[1] = d[1] /\ p[2] = d[2]
    BY <1>9, <1>11
  <2>5. /\ 100 * w + 10 * d[1] + d[2] = 100 * w + (10 * d[1] + d[2])
        /\ 100 * w + (10 * d[1] + d[2]) \in Nat
    <3>1. \A k, m, n \in Nat :
            100 * k + 10 * m + n = 100 * k + (10 * m + n) /\ 100 * k + (10 * m + n) \in Nat
      OBVIOUS
    <3>2. d[1] \in Nat /\ d[2] \in Nat
      BY <2>1
    <3> QED
      BY <1>1, <3>1, <3>2, Zenon
  <2> QED
    BY <1>2, <2>3, <2>4, <2>5, Zenon
<1>12. Len(d) \in {0, 1, 2}
  BY <1>1
<1> QED
  BY <1>7, <1>10, <1>11, <1>12

\* What is written is read back.
LEMMA WrittenReadsBack ==
  ASSUME NEW cents \in Nat
  PROVE  Hundredths(Written(cents)) = cents
<1> DEFINE w == cents \div 100
           a == (cents \div 10) % 10
           b == cents % 10
           x == Written(cents)
<1>1. w \in Nat /\ a \in 0..9 /\ b \in 0..9
  OBVIOUS
<1>2. cents = 100 * w + 10 * a + b
  <2>1. cents = 10 * (cents \div 10) + b /\ cents \div 10 \in Nat
    OBVIOUS
  <2>2. cents \div 10 = 10 * w + a
    OBVIOUS
  <2> HIDE DEF w, a, b
  <2> QED
    BY <1>1, <2>1, <2>2
<1>3. x.whole = w /\ x.digits = <<a, b>>
  BY DEF Written
<1> HIDE DEF w, a, b, x
<1>4. x.digits \in Seq(0..9) /\ Len(x.digits) = 2 /\ x.digits[1] = a /\ x.digits[2] = b
  BY <1>1, <1>3
<1>5. IsDecimal(x)
  BY <1>4 DEF IsDecimal
<1>6. Hundredths(x) = Cents(x)
  BY <1>1, <1>3, <1>4, <1>5, CentsAreHundredths
<1>7. Cents(x) = 100 * w + 10 * a + b
  <2> DEFINE p == <<a, b>> \o <<0, 0>>
  <2>1. p[1] = a /\ p[2] = b
    OBVIOUS
  <2>2. Cents(x) = 100 * w + 10 * p[1] + p[2]
    BY <1>3 DEF Cents
  <2> HIDE DEF p
  <2> QED
    BY <2>1, <2>2
<1> QED
  BY <1>2, <1>6, <1>7 DEF x
\* The last of the debits with a reference is one of them.
LEMMA LastDebitIsOne ==
  ASSUME SInv, NEW reference, DebitsFor(reference) # {}
  PROVE  Max(DebitsFor(reference)) \in DebitsFor(reference)
<1> DEFINE D == DebitsFor(reference)
           N == Len(dataset.debits)
           T == {N - i : i \in D}
<1>1. N \in Nat /\ D \subseteq 1..N
  BY LenProperties DEF SInv, DebitsFor
<1> HIDE DEF D, N
<1>2. T \in SUBSET Nat
  BY <1>1
<1>3. T # {}
  BY DEF D
<1>4. PICK least \in T : \A j \in T : least <= j
  BY <1>2, <1>3, LeastElement
<1>5. PICK i \in D : least = N - i
  OBVIOUS
<1>6. \A j \in D : i >= j
  <2> SUFFICES ASSUME NEW j \in D PROVE i >= j
    OBVIOUS
  <2>1. N - i <= N - j
    BY <1>4, <1>5
  <2> QED
    BY <1>1, <2>1
<1>7. Max(D) \in D
  BY <1>6 DEF Max
<1> QED
  BY <1>7 DEF D

\* What each settlement of a reconciled audit is backed by.
Backing(i) == Max(DebitsFor(dataset.settlements[i].reference))

\* It is a debit of its reference and its amount.
LEMMA BackedByADebit ==
  ASSUME SInv, Reconciled, NEW i \in 1..Len(dataset.settlements)
  PROVE  /\ dataset.settlements[i] \in Settlement
         /\ IsDecimal(dataset.settlements[i].amount)
         /\ Backing(i) \in 1..Len(dataset.debits)
         /\ dataset.debits[Backing(i)].reference = dataset.settlements[i].reference
         /\ dataset.debits[Backing(i)].amount = dataset.settlements[i].amount
<1> DEFINE s == dataset.settlements[i]
<1>1. dataset.settlements \in Seq(Settlement) /\ dataset.debits \in Seq(Debit)
  BY DEF SInv
<1>2. s \in Settlement /\ i \in DOMAIN dataset.settlements
  BY <1>1, LenProperties, ElementOfSeq
<1>3. s \in Range(dataset.settlements)
  BY <1>2 DEF Range
<1> HIDE DEF s
<1>4. Matches(s) /\ IsDecimal(s.amount)
  BY <1>3 DEF Reconciled
<1>5. DebitsFor(s.reference) # {} /\ Backs(DebitByReference(s.reference), s)
  BY <1>4 DEF Matches
<1> DEFINE m == Max(DebitsFor(s.reference))
<1>6. m \in DebitsFor(s.reference)
  BY <1>5, LastDebitIsOne
<1>7. dataset.debits[m].amount = s.amount
  BY <1>5 DEF Backs, DebitByReference
<1>8. Backing(i) = m
  BY DEF Backing, s
<1> HIDE DEF m
<1>9. m \in DOMAIN dataset.debits /\ dataset.debits[m].reference = s.reference
  BY <1>6 DEF DebitsFor
<1>10. m \in 1..Len(dataset.debits)
  BY <1>1, <1>9, LenProperties
<1> QED
  BY <1>2, <1>4, <1>7, <1>8, <1>9, <1>10 DEF s

\* The hundredths of the amounts of some records are numbers.
LEMMA AmountsOfRecords ==
  ASSUME NEW R, \A r \in R : r.amount \in Amounts, NEW records \in Seq(R)
  PROVE  /\ [i \in DOMAIN records |-> Hundredths(records[i].amount)] \in Seq(Nat)
         /\ Len([i \in DOMAIN records |-> Hundredths(records[i].amount)]) = Len(records)
         /\ DOMAIN records = 1..Len(records) /\ Len(records) \in Nat
         /\ \A i \in 1..Len(records) : records[i].amount \in Amounts
<1> DEFINE t == [i \in DOMAIN records |-> Hundredths(records[i].amount)]
           N == Len(records)
<1>1. DOMAIN records = 1..N /\ N \in Nat
  BY LenProperties
<1>2. \A i \in 1..N : records[i].amount \in Amounts
  BY <1>1, ElementOfSeq
<1>3. ASSUME NEW amount \in Amounts PROVE Hundredths(amount) \in Nat
  <2>1. amount.whole \in Nat /\ amount.digits \in Seq(0..9)
    BY AmountsAssumption
  <2>2. CASE IsDecimal(amount)
    BY <2>1, <2>2, CentsAreHundredths
  <2>3. CASE ~IsDecimal(amount)
    BY <2>3 DEF Hundredths
  <2> QED
    BY <2>2, <2>3
<1> HIDE DEF N
<1>4. t \in [1..N -> Nat]
  BY <1>1, <1>2, <1>3
<1> HIDE DEF t
<1>5. t \in Seq(Nat) /\ Len(t) = N
  BY <1>1, <1>4
<1> QED
  BY <1>1, <1>2, <1>5 DEF t, N

\* The total an audit reports is the sum of its settlements' amounts, and no more than
\* what was debited if no two settlements have one reference: for every number of
\* records, references and amounts (reconcileSettlementAudit, whose Map keeps the last
\* debit of a reference).
THEOREM Debited == SettlementSpec => []ReconciledTotalIsDebited
<1>1. SInv => ReconciledTotalIsDebited
  <2> DEFINE settled == dataset.settlements
             debits == dataset.debits
             M == Len(settled)
             N == Len(debits)
             s == [i \in DOMAIN settled |-> Hundredths(settled[i].amount)]
             c == [i \in DOMAIN settled |-> Cents(settled[i].amount)]
             d == [i \in DOMAIN debits |-> Hundredths(debits[i].amount)]
             at == [i \in 1..M |-> Backing(i)]
  <2> SUFFICES ASSUME SInv, Reconciled
               PROVE  /\ Hundredths(TotalAmount) = Sum(settled)
                      /\ IsInjective([i \in DOMAIN settled |-> settled[i].reference]) =>
                           Hundredths(TotalAmount) <= Sum(debits)
    BY DEF ReconciledTotalIsDebited
  <2>1. settled \in Seq(Settlement) /\ debits \in Seq(Debit)
    BY DEF SInv
  <2>2. /\ s \in Seq(Nat) /\ Len(s) = M /\ DOMAIN settled = 1..M /\ M \in Nat
        /\ \A i \in 1..M : settled[i].amount \in Amounts
    <3>1. \A r \in Settlement : r.amount \in Amounts
      BY DEF Settlement
    <3> QED
      BY <2>1, <3>1, AmountsOfRecords, Zenon
  <2>3. d \in Seq(Nat) /\ Len(d) = N /\ DOMAIN debits = 1..N /\ N \in Nat
    <3>1. \A r \in Debit : r.amount \in Amounts
      BY DEF Debit
    <3> QED
      BY <2>1, <3>1, AmountsOfRecords, Zenon
  <2>4. c = s
    <3>1. ASSUME NEW i \in 1..M PROVE Cents(settled[i].amount) = Hundredths(settled[i].amount)
      <4> DEFINE amount == settled[i].amount
      <4>1. amount.whole \in Nat /\ amount.digits \in Seq(0..9)
        BY <2>2, AmountsAssumption
      <4>2. IsDecimal(amount)
        BY BackedByADebit
      <4> HIDE DEF amount
      <4>3. Cents(amount) = Hundredths(amount)
        BY <4>1, <4>2, CentsAreHundredths
      <4> QED
        BY <4>3 DEF amount
    <3> QED
      BY <2>2, <3>1
  <2>5. Total(c) = Total(s) /\ Total(s) \in Nat
    <3> HIDE DEF s, c, M
    <3>1. Totals(TotalsOf(s), s)
      BY <2>2, TotalIs DEF TotalsOf
    <3>2. Total(s) \in Nat
      BY <2>2, <3>1 DEF Totals
    <3> QED
      BY <2>4, <3>2
  <2>6. TotalAmount = Written(Total(c)) /\ Sum(settled) = Total(s) /\ Sum(debits) = Total(d)
    BY DEF TotalAmount, SumDecimalStrings, SumCents, Sum
  <2>7. Hundredths(TotalAmount) = Total(s)
    BY <2>5, <2>6, WrittenReadsBack
  <2>8. ASSUME IsInjective([i \in DOMAIN settled |-> settled[i].reference])
        PROVE  Total(s) <= Total(d)
    <3>1. \A i, j \in 1..M : settled[i].reference = settled[j].reference => i = j
      BY <2>2, <2>8 DEF IsInjective
    <3>2. /\ \A i \in 1..M : Backing(i) \in 1..N
          /\ \A i \in 1..M : debits[Backing(i)].reference = settled[i].reference
          /\ \A i \in 1..M : debits[Backing(i)].amount = settled[i].amount
      BY BackedByADebit
    <3>3. \A i \in 1..M : s[i] = d[Backing(i)]
      BY <2>2, <2>3, <3>2
    <3> HIDE DEF s, d, M, N, settled, debits
    <3>4. at \in [1..M -> 1..N] /\ \A i \in 1..M : at[i] = Backing(i)
      BY <3>2
    <3> HIDE DEF at
    <3>5. \A i, j \in 1..M : at[i] = at[j] => i = j
      BY <3>1, <3>2, <3>4
    <3>6. \A i \in 1..M : s[i] = d[at[i]]
      BY <3>3, <3>4
    <3>7. Len(s) = M /\ Len(d) = N
      BY <2>2, <2>3
    <3>8. Picks(at, s, d)
      BY <3>4, <3>5, <3>6, <3>7 DEF Picks
    <3> QED
      BY <2>2, <2>3, <3>8, TotalOfSome
  <2> QED
    BY <2>6, <2>7, <2>8
<1> QED
  BY <1>1, Audits, PTL

-----------------------------------------------------------------------------
(* AlgorandAddress: characters, bytes and registers of any widths that fit.  *)

IsRun(h, F, start, n) ==
  h = [i \in 0..n |-> IF i = 0 THEN start ELSE F[<<h[i - 1], i>>]]

\* There is a run of any function of a state and of a place.
LEMMA RunExists ==
  ASSUME NEW S, NEW start \in S, NEW N \in Nat, NEW F \in [S \X (1..N) -> S]
  PROVE  \E h \in [0..N -> S] : IsRun(h, F, start, N)
<1> DEFINE Run(h, n) == h = [i \in 0..n |-> IF i = 0 THEN start ELSE F[<<h[i - 1], i>>]]
           T == {m \in 0..N : \E h \in [0..m -> S] : Run(h, m)}
<1>1. 0 \in T
  <2> DEFINE h == [i \in 0..0 |-> start]
  <2>1. h = [i \in 0..0 |-> IF i = 0 THEN start ELSE F[<<h[i - 1], i>>]]
    OBVIOUS
  <2>2. Run(h, 0) /\ h \in [0..0 -> S] /\ 0 \in 0..N
    BY <2>1
  <2> HIDE DEF h, Run
  <2> QED
    BY <2>2
<1>2. ASSUME NEW m \in 0..(N - 1), m \in T PROVE m + 1 \in T
  <2>1. PICK f \in [0..m -> S] : Run(f, m)
    BY <1>2
  <2> DEFINE x == F[<<f[m], m + 1>>]
             g == [i \in 0..(m + 1) |-> IF i = m + 1 THEN x ELSE f[i]]
  <2>2. m \in 0..m /\ m + 1 \in 1..N /\ m + 1 \in 0..N
    OBVIOUS
  <2>3. f[m] \in S /\ <<f[m], m + 1>> \in S \X (1..N)
    BY <2>2
  <2>4. x \in S
    BY <2>3
  <2>5. ASSUME NEW i \in 0..(m + 1)
        PROVE  g[i] \in S /\ g[i] = IF i = 0 THEN start ELSE F[<<g[i - 1], i>>]
    <3>1. CASE i = m + 1
      <4>1. i # 0 /\ i - 1 = m /\ m \in 0..(m + 1) /\ m # m + 1
        BY <3>1
      <4>2. g[m] = f[m] /\ g[i] = x
        BY <3>1, <4>1
      <4> HIDE DEF g
      <4> QED
        BY <2>4, <3>1, <4>1, <4>2
    <3>2. CASE i # m + 1
      <4>1. i \in 0..m /\ (i # 0 => i - 1 \in 0..(m + 1) /\ i - 1 # m + 1)
        BY <3>2
      <4>2. f[i] = IF i = 0 THEN start ELSE F[<<f[i - 1], i>>]
        BY <2>1, <4>1
      <4>3. g[i] = f[i] /\ (i # 0 => g[i - 1] = f[i - 1])
        BY <4>1, <3>2
      <4> HIDE DEF g
      <4> QED
        BY <4>1, <4>2, <4>3
    <3> QED
      BY <3>1, <3>2
  <2>6. g = [i \in 0..(m + 1) |-> g[i]]
    OBVIOUS
  <2> HIDE DEF g
  <2>7. g \in [0..(m + 1) -> S]
    BY <2>5, <2>6
  <2>8. Run(g, m + 1)
    BY <2>5, <2>6
  <2> HIDE DEF Run
  <2> QED
    BY <2>2, <2>7, <2>8
<1>3. 0..N \subseteq T
  <2> HIDE DEF T
  <2> QED
    BY <1>1, <1>2, UpTo
<1>4. N \in T
  <2> HIDE DEF T
  <2> QED
    BY <1>3
<1> QED
  BY <1>4 DEF IsRun

\* A piece of a sequence.
LEMMA Piece ==
  ASSUME NEW W, NEW s \in Seq(W), NEW m \in Nat, NEW n \in Nat, 1 <= m, m <= n + 1, n <= Len(s)
  PROVE  /\ SubSeq(s, m, n) \in Seq(W)
         /\ Len(SubSeq(s, m, n)) = n - m + 1
         /\ \A i \in 1..(n - m + 1) : SubSeq(s, m, n)[i] = s[m + i - 1]
<1>1. \A i \in m..n : s[i] \in W
  BY ElementOfSeq, LenProperties
<1>2. /\ SubSeq(s, m, n) \in Seq(W)
      /\ Len(SubSeq(s, m, n)) = (IF m <= n THEN n - m + 1 ELSE 0)
      /\ \A i \in 1..(n - m + 1) : SubSeq(s, m, n)[i] = s[m + i - 1]
  BY <1>1, SubSeqProperties
<1> QED
  BY <1>2

Register == [1..AccumulatorBits -> Bit]

\* The widths are numbers, and what is left of a byte, with the character or byte
\* that comes, fits the register.
LEMMA Widths ==
  /\ CharBits \in Nat /\ ByteBits \in Nat /\ KeyBytes \in Nat /\ ChecksumBytes \in Nat
  /\ CharBits > 0 /\ ByteBits > 0 /\ KeyBytes > 0 /\ ChecksumBytes > 0
  /\ CharBits < ByteBits /\ ByteBits + CharBits - 1 <= AccumulatorBits
  /\ AccumulatorBits \in Nat
<1>1. /\ CharBits \in Nat \ {0} /\ ByteBits \in Nat \ {0} /\ AccumulatorBits \in Nat \ {0}
      /\ KeyBytes \in Nat \ {0} /\ ChecksumBytes \in Nat \ {0}
  BY AddressAssumption
<1>2. CharBits < ByteBits /\ ByteBits + CharBits - 1 <= AccumulatorBits
  BY AddressAssumption
<1> QED
  BY <1>1, <1>2

\* The p-th bit of a sequence of groups of w bits.
BitOf(s, w, p) == s[((p - 1) \div w) + 1][((p - 1) % w) + 1]

\* The bits of a group are where the group is.
LEMMA BitAt ==
  ASSUME NEW s, NEW w \in Nat \ {0}, NEW k \in Nat \ {0}, NEW i \in 1..w
  PROVE  BitOf(s, w, (k - 1) * w + i) = s[k][i]
<1> DEFINE p == (k - 1) * w + i
<1>1. (p - 1) \div w = k - 1 /\ (p - 1) % w = i - 1
  <2>1. PICK a \in Nat : a = k - 1
    OBVIOUS
  <2>2. PICK b \in Nat : b = i - 1 /\ b < w
    OBVIOUS
  <2>3. a * w \in Nat /\ p - 1 = a * w + b
    BY <2>1, <2>2
  <2>4. (a * w + b) \div w = a
    BY <2>1, <2>2
  <2>5. (a * w + b) % w = b
    BY <2>1, <2>2, <2>4
  <2> QED
    BY <2>1, <2>2, <2>3, <2>4, <2>5
<1>2. ((p - 1) \div w) + 1 = k /\ ((p - 1) % w) + 1 = i
  BY <1>1
<1> QED
  BY <1>2 DEF BitOf

\* Every bit is one of a group.
LEMMA GroupOf ==
  ASSUME NEW w \in Nat \ {0}, NEW n \in Nat, NEW p \in 1..(n * w)
  PROVE  \E k \in 1..n, i \in 1..w : p = (k - 1) * w + i
<1> DEFINE a == (p - 1) \div w
           b == (p - 1) % w
<1>1. a \in Nat /\ b \in Nat /\ b < w /\ p - 1 = a * w + b
  OBVIOUS
<1> HIDE DEF a, b
<1>2. a < n
  <2> SUFFICES ASSUME a >= n PROVE FALSE
    BY <1>1
  <2>1. a * w >= n * w
    BY <1>1
  <2> QED
    BY <1>1, <2>1
<1>3. a + 1 \in 1..n /\ b + 1 \in 1..w /\ p = ((a + 1) - 1) * w + (b + 1)
  BY <1>1, <1>2
<1> QED
  BY <1>3

\* What the register holds after a shift: the bits below, moved up, and the new ones.
LEMMA ShiftedIs ==
  ASSUME NEW accumulator \in Register, NEW n \in 1..AccumulatorBits, NEW low \in [1..n -> Bit]
  PROVE  /\ Shifted(accumulator, low) \in Register
         /\ \A i \in 1..(AccumulatorBits - n) : Shifted(accumulator, low)[i] = accumulator[i + n]
         /\ \A i \in 1..n : Shifted(accumulator, low)[AccumulatorBits - n + i] = low[i]
<1> DEFINE A == AccumulatorBits
           s == accumulator \o low
           t == SubSeq(s, n + 1, n + A)
<1>0. A \in Nat
  BY Widths
<1>1. accumulator \in Seq(Bit) /\ Len(accumulator) = A /\ low \in Seq(Bit) /\ Len(low) = n
  BY <1>0 DEF Register
<1>2. s \in Seq(Bit) /\ Len(s) = A + n
      /\ \A i \in 1..(A + n) : s[i] = IF i <= A THEN accumulator[i] ELSE low[i - A]
  BY <1>1, ConcatProperties
<1>3. t = Shifted(accumulator, low)
  BY <1>1 DEF Shifted
<1> HIDE DEF s
<1>4. t \in Seq(Bit) /\ Len(t) = A /\ \A i \in 1..A : t[i] = s[n + i]
  <2>1. n + 1 \in Nat /\ n + A \in Nat /\ 1 <= n + 1 /\ n + 1 <= (n + A) + 1 /\ n + A <= Len(s)
        /\ (n + A) - (n + 1) + 1 = A
    BY <1>0, <1>2
  <2>2. t \in Seq(Bit) /\ Len(t) = (n + A) - (n + 1) + 1
    BY <1>2, <2>1, Piece
  <2>3. \A i \in 1..((n + A) - (n + 1) + 1) : t[i] = s[(n + 1) + i - 1]
    BY <1>2, <2>1, Piece
  <2> QED
    BY <1>0, <2>1, <2>2, <2>3
<1> HIDE DEF t
<1>5. t \in Register
  BY <1>0, <1>4, LenProperties DEF Register
<1>6. \A i \in 1..(A - n) : t[i] = accumulator[i + n]
  <2> SUFFICES ASSUME NEW i \in 1..(A - n) PROVE t[i] = accumulator[i + n]
    OBVIOUS
  <2>1. i \in 1..A /\ n + i \in 1..(A + n) /\ n + i <= A /\ n + i = i + n
    BY <1>0
  <2> QED
    BY <1>2, <1>4, <2>1
<1>7. \A i \in 1..n : t[A - n + i] = low[i]
  <2> SUFFICES ASSUME NEW i \in 1..n PROVE t[A - n + i] = low[i]
    OBVIOUS
  <2>1. A - n + i \in 1..A /\ n + (A - n + i) = A + i /\ A + i \in 1..(A + n) /\ ~(A + i <= A) /\ (A + i) - A = i
    BY <1>0
  <2> QED
    BY <1>2, <1>4, <2>1
<1> QED
  BY <1>3, <1>5, <1>6, <1>7

\* What a field of the register holds.
LEMMA FieldIs ==
  ASSUME NEW accumulator \in Register, NEW drop \in Nat, NEW width \in Nat,
         drop + width <= AccumulatorBits
  PROVE  /\ Field(accumulator, drop, width) \in [1..width -> Bit]
         /\ \A i \in 1..width :
              Field(accumulator, drop, width)[i] = accumulator[AccumulatorBits - drop - width + i]
<1> DEFINE A == AccumulatorBits
           m == A - drop - width + 1
           n == A - drop
           t == SubSeq(accumulator, m, n)
<1>0. A \in Nat
  BY Widths
<1>1. accumulator \in Seq(Bit) /\ Len(accumulator) = A
  BY <1>0 DEF Register
<1>2. m \in Nat /\ n \in Nat /\ 1 <= m /\ m <= n + 1 /\ n <= Len(accumulator)
  BY <1>0, <1>1
<1>3. n - m + 1 = width
  BY <1>0
<1>4. t = Field(accumulator, drop, width)
  BY DEF Field
<1>5. \A i \in 1..width : m + i - 1 = A - drop - width + i
  BY <1>0
<1> HIDE DEF m, n
<1>6. t \in Seq(Bit) /\ Len(t) = n - m + 1
  BY <1>1, <1>2, Piece
<1>7. \A i \in 1..(n - m + 1) : t[i] = accumulator[m + i - 1]
  BY <1>1, <1>2, Piece
<1> HIDE DEF t
<1>8. t \in [1..width -> Bit]
  BY <1>3, <1>6, LenProperties
<1>9. ASSUME NEW i \in 1..width
      PROVE  t[i] = accumulator[A - drop - width + i]
  <2>1. t[i] = accumulator[m + i - 1]
    BY <1>3, <1>7
  <2> QED
    BY <1>5, <2>1
<1> QED
  BY <1>4, <1>8, <1>9

\* The register ends in the bits of s that follow the first ones.
Holds(s, w, accumulator, bits, from) ==
  \A i \in 1..bits : accumulator[AccumulatorBits - bits + i] = BitOf(s, w, from + i)

\* A group of bits goes to the end of the register.
LEMMA ShiftedHolds ==
  ASSUME NEW s, NEW w \in Nat \ {0}, NEW m \in Nat \ {0}, s[m] \in [1..w -> Bit],
         NEW accumulator \in Register, NEW bits \in Nat, NEW from \in Nat,
         bits + w <= AccumulatorBits, from + bits = (m - 1) * w,
         Holds(s, w, accumulator, bits, from)
  PROVE  /\ Shifted(accumulator, s[m]) \in Register
         /\ Holds(s, w, Shifted(accumulator, s[m]), bits + w, from)
<1> DEFINE A == AccumulatorBits
           t == Shifted(accumulator, s[m])
<1>0. A \in Nat /\ w \in 1..A
  BY Widths
<1>1. t \in Register
  BY <1>0, ShiftedIs
<1>2. \A i \in 1..(A - w) : t[i] = accumulator[i + w]
  BY <1>0, ShiftedIs
<1>3. \A i \in 1..w : t[A - w + i] = s[m][i]
  BY <1>0, ShiftedIs
<1> HIDE DEF t
<1>4. SUFFICES ASSUME NEW i \in 1..(bits + w)
               PROVE  t[A - (bits + w) + i] = BitOf(s, w, from + i)
  BY <1>1 DEF Holds, t
<1>5. CASE i <= bits
  <2>1. i \in 1..bits /\ A - (bits + w) + i \in 1..(A - w) /\ (A - (bits + w) + i) + w = A - bits + i
    BY <1>0, <1>5
  <2>2. t[A - (bits + w) + i] = accumulator[A - bits + i]
    BY <1>2, <2>1
  <2> QED
    BY <2>1, <2>2 DEF Holds
<1>6. CASE i > bits
  <2> DEFINE j == i - bits
  <2>1. j \in 1..w /\ A - (bits + w) + i = A - w + j /\ from + i = (from + bits) + j
    BY <1>0, <1>6
  <2>2. t[A - (bits + w) + i] = s[m][j]
    BY <1>3, <2>1
  <2>3. BitOf(s, w, (m - 1) * w + j) = s[m][j]
    BY <2>1, BitAt
  <2> QED
    BY <2>1, <2>2, <2>3
<1> QED
  BY <1>5, <1>6

\* A group of bits of s.
IsGroup(group, s, w, from, width) ==
  \A i \in 1..width : group[i] = BitOf(s, w, from + i)

\* A field of the bits that the register holds.
LEMMA FieldHolds ==
  ASSUME NEW s, NEW w, NEW accumulator \in Register, NEW bits \in Nat,
         NEW from \in Nat, bits <= AccumulatorBits, Holds(s, w, accumulator, bits, from),
         NEW skip \in Nat, NEW width \in Nat, NEW drop \in Nat, skip + width + drop = bits
  PROVE  IsGroup(Field(accumulator, drop, width), s, w, from + skip, width)
<1> DEFINE A == AccumulatorBits
<1>1. A \in Nat /\ drop + width <= A /\ A - drop - width = A - bits + skip
  BY Widths
<1>2. \A i \in 1..width : Field(accumulator, drop, width)[i] = accumulator[A - drop - width + i]
  BY <1>1, FieldIs
<1> SUFFICES ASSUME NEW i \in 1..width
             PROVE  Field(accumulator, drop, width)[i] = BitOf(s, w, from + skip + i)
  BY DEF IsGroup
<1>3. skip + i \in 1..bits /\ A - drop - width + i = A - bits + (skip + i)
      /\ from + skip + i = from + (skip + i)
  BY <1>1
<1>4. accumulator[A - bits + (skip + i)] = BitOf(s, w, from + (skip + i))
  BY <1>3 DEF Holds
<1> QED
  BY <1>2, <1>3, <1>4

\* Products of widths, for the steps that count bits.
LEMMA Distributes ==
  ASSUME NEW a \in Nat, NEW b \in Nat, NEW c \in Nat
  PROVE  (a + b) * c = a * c + b * c
OBVIOUS

\* More groups of one width are at least as many bits.
LEMMA Grows ==
  ASSUME NEW a \in Nat, NEW b \in Nat, NEW c \in Nat, a <= b
  PROVE  a * c <= b * c
OBVIOUS

\* The groups written are those bits of s.
Writes(out, width, s, w) ==
  \A k \in 1..Len(out), i \in 1..width : out[k][i] = BitOf(s, w, (k - 1) * width + i)

\* What is left of the groups written is in the register.
Carries(state, width, s, w, n) ==
  /\ Len(state.out) * width + state.bits = n * w
  /\ Holds(s, w, state.accumulator, state.bits, Len(state.out) * width)
  /\ Writes(state.out, width, s, w)

DecodeStates == [bits : 0..(ByteBits - 1), accumulator : Register, out : Seq(Byte)]
EncodeStates == [bits : 0..(CharBits - 1), accumulator : Register, out : Seq(Char)]

\* Before the first character or byte nothing is carried.
LEMMA StartIs ==
  ASSUME NEW s, NEW w \in Nat, NEW width \in Nat
  PROVE  Start \in DecodeStates /\ Start \in EncodeStates /\ Carries(Start, width, s, w, 0)
<1>1. Zeros(AccumulatorBits) \in Register
  BY Widths DEF Zeros, Register, Bit
<1>2. /\ Start.bits = 0 /\ Start.accumulator = Zeros(AccumulatorBits) /\ Start.out = <<>>
      /\ Start = [bits |-> 0, accumulator |-> Zeros(AccumulatorBits), out |-> <<>>]
  BY DEF Start
<1>3. Start \in DecodeStates /\ Start \in EncodeStates
  <2>1. 0 \in 0..(ByteBits - 1) /\ 0 \in 0..(CharBits - 1)
    BY Widths
  <2>2. <<>> \in Seq(Byte) /\ <<>> \in Seq(Char)
    BY EmptySeq
  <2> HIDE DEF Register
  <2> QED
    BY <1>1, <1>2, <2>1, <2>2 DEF DecodeStates, EncodeStates
<1>4. Len(<<>>) = 0 /\ 0 * width = 0 /\ 0 * w = 0
  OBVIOUS
<1> QED
  BY <1>2, <1>3, <1>4 DEF Carries, Holds, Writes

\* One turn of the loop of decodeBase32NoPadding.
LEMMA DecodeCharIs ==
  ASSUME NEW state \in DecodeStates, NEW char \in Char
  PROVE  /\ DecodeChar(state, char) \in DecodeStates
         /\ \A text, n : n \in Nat \ {0} /\ text[n] = char
                         /\ Carries(state, ByteBits, text, CharBits, n - 1) =>
              Carries(DecodeChar(state, char), ByteBits, text, CharBits, n)
<1> DEFINE A == AccumulatorBits
           B == ByteBits
           C == CharBits
           bits == state.bits + C
           accumulator == Shifted(state.accumulator, char)
           byte == Field(accumulator, bits - B, B)
           next == DecodeChar(state, char)
<1>0. A \in Nat /\ B \in Nat \ {0} /\ C \in Nat \ {0} /\ C < B /\ B + C - 1 <= A
  BY Widths
<1>1. /\ state.bits \in Nat /\ state.bits < B /\ state.accumulator \in Register
      /\ state.out \in Seq(Byte) /\ Len(state.out) \in Nat
  BY <1>0, LenProperties DEF DecodeStates
<1>2. accumulator \in Register
  BY <1>0, <1>1, ShiftedIs DEF Char
<1>3. bits \in Nat /\ bits <= A /\ bits < B + B /\ bits = state.bits + C
  BY <1>0, <1>1
<1>4. next = IF bits < B THEN [state EXCEPT !.bits = bits, !.accumulator = accumulator]
             ELSE [bits |-> bits - B, accumulator |-> accumulator, out |-> Append(state.out, byte)]
  BY DEF DecodeChar
<1>5. bits < B => /\ next = [bits |-> bits, accumulator |-> accumulator, out |-> state.out]
                  /\ next.bits = bits /\ next.accumulator = accumulator /\ next.out = state.out
  <2> HIDE DEF bits, accumulator, byte, next
  <2> QED
    BY <1>1, <1>4 DEF DecodeStates
<1>6. ~(bits < B) => /\ next = [bits |-> bits - B, accumulator |-> accumulator, out |-> Append(state.out, byte)]
                     /\ next.bits = bits - B /\ next.accumulator = accumulator
                     /\ next.out = Append(state.out, byte)
  <2> HIDE DEF bits, accumulator, byte, next
  <2> QED
    BY <1>4
<1>7. ~(bits < B) => byte \in Byte
  <2> SUFFICES ASSUME ~(bits < B) PROVE byte \in Byte
    OBVIOUS
  <2> DEFINE drop == bits - B
  <2>1. drop \in Nat /\ drop + B <= A /\ B \in Nat
    BY <1>0, <1>3
  <2> HIDE DEF accumulator, drop
  <2>2. Field(accumulator, drop, B) \in [1..B -> Bit]
    BY <1>2, <2>1, FieldIs
  <2> QED
    BY <2>2 DEF Byte, drop
<1>8. ASSUME NEW text, NEW n \in Nat \ {0}, text[n] = char, Carries(state, B, text, C, n - 1)
      PROVE  /\ Holds(text, C, accumulator, bits, Len(state.out) * B)
             /\ Len(state.out) * B \in Nat /\ Len(state.out) * B + bits = n * C
             /\ Writes(state.out, B, text, C)
  <2>1. PICK from \in Nat : from = Len(state.out) * B
    BY <1>0, <1>1
  <2>2. from + state.bits = (n - 1) * C /\ Holds(text, C, state.accumulator, state.bits, from)
        /\ Writes(state.out, B, text, C)
    BY <1>8, <2>1 DEF Carries
  <2>3. text[n] \in [1..C -> Bit]
    BY <1>8 DEF Char
  <2>4. Holds(text, C, Shifted(state.accumulator, text[n]), state.bits + C, from)
    BY <1>0, <1>1, <1>3, <2>2, <2>3, ShiftedHolds
  <2>5. n * C = (n - 1) * C + C
    BY <1>0
  <2>6. from + bits = n * C
    BY <1>0, <1>1, <2>2, <2>5, (n - 1) * C \in Int
  <2> QED
    BY <1>8, <2>1, <2>2, <2>4, <2>6
<1> HIDE DEF accumulator, next
<1>9. ASSUME NEW text, NEW n \in Nat \ {0}, text[n] = char, Carries(state, B, text, C, n - 1),
             ~(bits < B)
      PROVE  Carries(next, B, text, C, n)
  <2> DEFINE L == Len(state.out)
             from == L * B
  <2>1. from \in Nat /\ (L + 1) * B = from + B /\ ((L + 1) - 1) * B = from
    BY <1>0, <1>1
  <2>2. Holds(text, C, accumulator, bits, from) /\ from + bits = n * C
    BY <1>8, <1>9
  <2>3. /\ next.out \in Seq(Byte) /\ Len(next.out) = L + 1 /\ next.out[L + 1] = byte
        /\ \A k \in 1..L : next.out[k] = state.out[k]
    <3>1. next.out = Append(state.out, byte) /\ byte \in Byte /\ state.out \in Seq(Byte)
      BY <1>1, <1>6, <1>7, <1>9
    <3> HIDE DEF byte
    <3> QED
      BY <3>1, AppendProperties
  <2> HIDE DEF L, from
  <2>4. L \in Nat
    BY <1>1 DEF L
  <2>5. Len(next.out) * B + next.bits = n * C
    BY <1>0, <1>3, <1>6, <1>9, <2>1, <2>2, <2>3, SMTT(60)
  <2>6. \A i \in 1..B : byte[i] = BitOf(text, C, from + i)
    <3> DEFINE drop == bits - B
    <3>1. /\ 0 \in Nat /\ B \in Nat /\ drop \in Nat /\ 0 + B + drop = bits /\ bits \in Nat
          /\ bits <= A /\ C \in Nat \ {0} /\ from + 0 = from
      BY <1>0, <1>3, <1>9, <2>1
    <3>2. Holds(text, C, accumulator, bits, from)
      BY <2>2
    <3> HIDE DEF bits, drop
    <3>3. IsGroup(Field(accumulator, drop, B), text, C, from + 0, B)
      BY <1>2, <2>1, <3>1, <3>2, FieldHolds
    <3> QED
      BY <3>1, <3>3 DEF drop, IsGroup
  <2> HIDE DEF byte
  <2>7. Writes(next.out, B, text, C)
    <3>1. \A k \in 1..L, i \in 1..B : state.out[k][i] = BitOf(text, C, (k - 1) * B + i)
      BY <1>8, <1>9 DEF Writes, L
    <3> SUFFICES ASSUME NEW k \in 1..(L + 1), NEW i \in 1..B
                 PROVE  next.out[k][i] = BitOf(text, C, (k - 1) * B + i)
      BY <2>3 DEF Writes
    <3>2. CASE k = L + 1
      BY <2>1, <2>3, <2>6, <3>2
    <3>3. CASE k # L + 1
      <4>1. k \in 1..L
        BY <2>4, <3>3
      <4> QED
        BY <2>3, <3>1, <4>1
    <3> QED
      BY <3>2, <3>3
  <2>8. Holds(text, C, next.accumulator, next.bits, Len(next.out) * B)
    <3> SUFFICES ASSUME NEW i \in 1..(bits - B)
                 PROVE  accumulator[A - (bits - B) + i] = BitOf(text, C, (from + B) + i)
      BY <1>6, <1>9, <2>1, <2>3 DEF Holds
    <3>1. B + i \in 1..bits /\ A - bits + (B + i) = A - (bits - B) + i /\ from + (B + i) = (from + B) + i
      BY <1>0, <1>3, <2>1
    <3>2. accumulator[A - bits + (B + i)] = BitOf(text, C, from + (B + i))
      BY <2>2, <3>1 DEF Holds
    <3> QED
      BY <3>1, <3>2
  <2> QED
    BY <2>5, <2>7, <2>8 DEF Carries
<1>10. ASSUME NEW text, NEW n \in Nat \ {0}, text[n] = char, Carries(state, B, text, C, n - 1),
              bits < B
       PROVE  Carries(next, B, text, C, n)
  BY <1>5, <1>8, <1>10 DEF Carries
<1>11. next \in DecodeStates
  <2>1. CASE bits < B
    <3>1. bits \in 0..(B - 1)
      BY <1>0, <1>3, <2>1
    <3> HIDE DEF bits, byte
    <3> QED
      BY <1>1, <1>2, <1>5, <2>1, <3>1 DEF DecodeStates
  <2>2. CASE ~(bits < B)
    <3>1. bits - B \in 0..(B - 1) /\ Append(state.out, byte) \in Seq(Byte)
      BY <1>0, <1>1, <1>3, <1>7, <2>2, AppendProperties
    <3> HIDE DEF bits, byte
    <3> QED
      BY <1>2, <1>6, <2>2, <3>1 DEF DecodeStates
  <2> QED
    BY <2>1, <2>2
<1> QED
  BY <1>9, <1>10, <1>11 DEF next

\* One turn of the loop of encodeBase32NoPadding, which writes as many characters as
\* there are bits for.
LEMMA EncodeByteIs ==
  ASSUME NEW state \in EncodeStates, NEW byte \in Byte
  PROVE  /\ EncodeByte(state, byte) \in EncodeStates
         /\ \A bytes, n : n \in Nat \ {0} /\ bytes[n] = byte
                          /\ Carries(state, CharBits, bytes, ByteBits, n - 1) =>
              Carries(EncodeByte(state, byte), CharBits, bytes, ByteBits, n)
<1> DEFINE A == AccumulatorBits
           B == ByteBits
           C == CharBits
           bits == state.bits + B
           left == bits % C
           chars == bits \div C
           accumulator == Shifted(state.accumulator, byte)
           written == [i \in 1..chars |-> Field(accumulator, bits - i * C, C)]
           next == EncodeByte(state, byte)
<1>0. A \in Nat /\ B \in Nat \ {0} /\ C \in Nat \ {0} /\ C < B /\ B + C - 1 <= A
  BY Widths
<1>1. /\ state.bits \in Nat /\ state.bits < C /\ state.accumulator \in Register
      /\ state.out \in Seq(Char) /\ Len(state.out) \in Nat
  BY <1>0, LenProperties DEF EncodeStates
<1>2. accumulator \in Register
  BY <1>0, <1>1, ShiftedIs DEF Byte
<1>3. bits \in Nat /\ bits <= A /\ bits = state.bits + B
  BY <1>0, <1>1
<1>4. /\ next = [bits |-> left, accumulator |-> accumulator, out |-> state.out \o written]
      /\ next.bits = left /\ next.accumulator = accumulator /\ next.out = state.out \o written
  BY DEF EncodeByte
<1>5. left \in Nat /\ left < C /\ chars \in Nat /\ bits = chars * C + left /\ chars * C \in Nat
  <2> HIDE DEF bits
  <2> QED
    BY <1>0, <1>3
<1> HIDE DEF accumulator, next, left, chars
<1>6. ASSUME NEW i \in 1..chars
      PROVE  /\ (i - 1) * C \in Nat /\ (i - 1) * C + C <= bits
             /\ bits - i * C = bits - (i - 1) * C - C /\ bits - i * C \in Nat
  <2>1. PICK j \in Nat : j = i - 1 /\ j + 1 <= chars /\ i = j + 1
    BY <1>5
  <2>2. j * C \in Nat /\ (j + 1) * C = j * C + C
    BY <1>0, <2>1
  <2>3. (j + 1) * C <= chars * C
    BY <1>0, <1>5, <2>1
  <2> QED
    BY <1>0, <1>3, <1>5, <2>1, <2>2, <2>3
<1> HIDE DEF bits
<1>7. ASSUME NEW i \in 1..chars
      PROVE  written[i] \in Char
  <2>1. bits - i * C \in Nat /\ (bits - i * C) + C <= A /\ C \in Nat
    BY <1>0, <1>3, <1>6
  <2>2. Field(accumulator, bits - i * C, C) \in [1..C -> Bit]
    BY <1>2, <2>1, FieldIs
  <2> QED
    BY <2>2 DEF Char
<1>8. written \in Seq(Char) /\ Len(written) = chars
  <2>1. written \in [1..chars -> Char]
    BY <1>7
  <2> HIDE DEF written
  <2> QED
    BY <1>5, <2>1
<1>9. ASSUME NEW bytes, NEW n \in Nat \ {0}, bytes[n] = byte, Carries(state, C, bytes, B, n - 1)
      PROVE  Carries(next, C, bytes, B, n)
  <2> DEFINE L == Len(state.out)
             from == L * C
  <2>0. L \in Nat /\ from \in Nat
    BY <1>0, <1>1
  <2>1. from + state.bits = (n - 1) * B /\ Holds(bytes, B, state.accumulator, state.bits, from)
        /\ Writes(state.out, C, bytes, B)
    BY <1>9 DEF Carries
  <2> HIDE DEF from
  <2>2. Holds(bytes, B, accumulator, bits, from)
    <3>1. bytes[n] \in [1..B -> Bit]
      BY <1>9 DEF Byte
    <3>2. state.bits + B <= A /\ state.bits \in Nat
      BY <1>1, <1>3
    <3>3. Holds(bytes, B, Shifted(state.accumulator, bytes[n]), state.bits + B, from)
      BY <1>0, <1>1, <2>0, <2>1, <3>1, <3>2, ShiftedHolds
    <3> QED
      BY <1>3, <1>9, <3>3 DEF accumulator
  <2>3. from + bits = n * B
    <3>1. n * B = (n - 1) * B + B /\ (n - 1) * B \in Int
      BY <1>0
    <3> QED
      BY <1>0, <1>1, <1>3, <2>0, <2>1, <3>1, SMTT(30)
  <2>4. /\ Len(next.out) = L + chars
        /\ \A k \in 1..L : next.out[k] = state.out[k]
        /\ \A i \in 1..chars : next.out[L + i] = written[i]
    <3>1. /\ next.out = state.out \o written /\ Len(state.out) = L
          /\ state.out \in Seq(Char) /\ written \in Seq(Char)
      BY <1>1, <1>4, <1>8
    <3> HIDE DEF L, written
    <3>2. Len(next.out) = L + chars
      BY <1>8, <3>1, ConcatProperties
    <3>3. \A k \in 1..(L + Len(written)) :
            next.out[k] = IF k <= L THEN state.out[k] ELSE written[k - L]
      BY <3>1, ConcatProperties
    <3>4. \A i \in 1..chars : L + i \in 1..(L + chars) /\ ~(L + i <= L) /\ (L + i) - L = i
      BY <1>5, <2>0
    <3>5. \A k \in 1..L : k \in 1..(L + chars)
      BY <1>5, <2>0
    <3> QED
      BY <1>8, <3>2, <3>3, <3>4, <3>5
  <2>5. (L + chars) * C = from + chars * C
    <3> HIDE DEF L
    <3> QED
      BY <1>0, <1>5, <2>0, Distributes DEF from
  <2>6. Len(next.out) * C + next.bits = n * B
    BY <1>3, <1>4, <1>5, <2>0, <2>3, <2>4, <2>5
  <2>7. ASSUME NEW i \in 1..chars, NEW q \in 1..C
        PROVE  written[i][q] = BitOf(bytes, B, ((L + i) - 1) * C + q)
    <3> DEFINE skip == (i - 1) * C
    <3>1. skip \in Nat /\ skip + C <= bits /\ bits - i * C = bits - skip - C /\ C \in Nat
      BY <1>0, <1>6
    <3>2. ((L + i) - 1) * C = from + skip
      <4>1. PICK j \in Nat : j = i - 1 /\ (L + i) - 1 = L + j
        BY <2>0
      <4> HIDE DEF L
      <4>2. (L + j) * C = L * C + j * C
        BY <1>0, <2>0, <4>1, Distributes
      <4> QED
        BY <4>1, <4>2 DEF from
    <3> DEFINE drop == bits - i * C
    <3>5. drop \in Nat /\ skip + C + drop = bits
      BY <1>0, <1>3, <1>6, <3>1
    <3>4. written[i] = Field(accumulator, drop, C)
      OBVIOUS
    <3> HIDE DEF skip, drop, written
    <3>3. IsGroup(Field(accumulator, drop, C), bytes, B, from + skip, C)
      BY <1>2, <1>3, <2>0, <2>2, <3>1, <3>5, FieldHolds
    <3> QED
      BY <3>2, <3>3, <3>4 DEF IsGroup
  <2> HIDE DEF written, L
  <2>8. Writes(next.out, C, bytes, B)
    <3>1. \A k \in 1..L, q \in 1..C : state.out[k][q] = BitOf(bytes, B, (k - 1) * C + q)
      BY <2>1 DEF Writes, L
    <3> SUFFICES ASSUME NEW k \in 1..(L + chars), NEW q \in 1..C
                 PROVE  next.out[k][q] = BitOf(bytes, B, (k - 1) * C + q)
      BY <2>4 DEF Writes
    <3>2. CASE k <= L
      <4>1. k \in 1..L
        BY <3>2
      <4> QED
        BY <2>4, <3>1, <4>1
    <3>3. CASE ~(k <= L)
      <4>1. PICK i \in 1..chars : k = L + i
        <5>1. k - L \in 1..chars /\ k = L + (k - L)
          BY <1>5, <2>0, <3>3
        <5> QED
          BY <5>1
      <4> QED
        BY <2>4, <2>7, <4>1
    <3> QED
      BY <3>2, <3>3
  <2>9. Holds(bytes, B, next.accumulator, next.bits, Len(next.out) * C)
    <3> DEFINE skip == chars * C
    <3>1. skip \in Nat /\ bits = skip + left /\ Len(next.out) * C = from + skip
      BY <1>5, <2>4, <2>5
    <3> HIDE DEF skip
    <3> SUFFICES ASSUME NEW i \in 1..left
                 PROVE  accumulator[A - left + i] = BitOf(bytes, B, (from + skip) + i)
      BY <1>4, <3>1 DEF Holds
    <3>2. skip + i \in 1..bits /\ A - bits + (skip + i) = A - left + i /\ from + (skip + i) = (from + skip) + i
      BY <1>0, <1>3, <1>5, <2>0, <3>1, SMTT(30)
    <3>3. accumulator[A - bits + (skip + i)] = BitOf(bytes, B, from + (skip + i))
      BY <2>2, <3>2 DEF Holds
    <3> QED
      BY <3>2, <3>3
  <2> QED
    BY <2>6, <2>8, <2>9 DEF Carries
<1>10. next \in EncodeStates
  <2>1. left \in 0..(CharBits - 1)
    BY <1>0, <1>5
  <2>2. state.out \o written \in Seq(Char)
    <3> HIDE DEF written
    <3> QED
      BY <1>1, <1>8, ConcatProperties
  <2> HIDE DEF written
  <2> QED
    BY <1>2, <1>4, <2>1, <2>2 DEF EncodeStates
<1> QED
  BY <1>9, <1>10 DEF next

IsDecoding(h, text) ==
  h = [n \in 0..Len(text) |-> IF n = 0 THEN Start ELSE DecodeChar(h[n - 1], text[n])]

\* The loop of decodeBase32NoPadding has a run over any text.
LEMMA DecodingExists ==
  ASSUME NEW text \in Seq(Char)
  PROVE  \E h : IsDecoding(h, text)
<1> DEFINE N == Len(text)
           S == DecodeStates
           F == [p \in S \X (1..N) |-> DecodeChar(p[1], text[p[2]])]
<1>1. N \in Nat /\ \A n \in 1..N : text[n] \in Char
  BY LenProperties, ElementOfSeq
<1>2. \A state \in S, n \in 1..N : F[<<state, n>>] = DecodeChar(state, text[n])
  <2> HIDE DEF N, S
  <2> QED
    OBVIOUS
<1>3. F \in [S \X (1..N) -> S]
  <2> SUFFICES ASSUME NEW p \in S \X (1..N) PROVE DecodeChar(p[1], text[p[2]]) \in S
    OBVIOUS
  <2>1. p[1] \in S /\ p[2] \in 1..N
    OBVIOUS
  <2> QED
    BY <1>1, <2>1, DecodeCharIs
<1>4. Start \in S
  BY StartIs, 0 \in Nat
<1> HIDE DEF F, N, S
<1>5. PICK h \in [0..N -> S] : IsRun(h, F, Start, N)
  BY <1>1, <1>3, <1>4, RunExists
<1>6. \A i \in 0..N : i # 0 => F[<<h[i - 1], i>>] = DecodeChar(h[i - 1], text[i])
  <2> SUFFICES ASSUME NEW i \in 0..N, i # 0 PROVE F[<<h[i - 1], i>>] = DecodeChar(h[i - 1], text[i])
    OBVIOUS
  <2>1. i - 1 \in 0..N /\ i \in 1..N
    BY <1>1
  <2> QED
    BY <1>2, <2>1
<1>7. h = [i \in 0..N |-> IF i = 0 THEN Start ELSE DecodeChar(h[i - 1], text[i])]
  BY <1>5, <1>6 DEF IsRun
<1> QED
  BY <1>7 DEF IsDecoding, N

\* decodeBase32NoPadding cuts the bits of the text into bytes, and leaves out what is
\* less than a byte.
LEMMA DecodeIs ==
  ASSUME NEW text \in Seq(Char)
  PROVE  /\ DecodeBase32NoPadding(text) \in Seq(Byte)
         /\ Len(DecodeBase32NoPadding(text)) * ByteBits <= Len(text) * CharBits
         /\ Len(text) * CharBits < Len(DecodeBase32NoPadding(text)) * ByteBits + ByteBits
         /\ Writes(DecodeBase32NoPadding(text), ByteBits, text, CharBits)
<1> DEFINE N == Len(text)
           h == CHOOSE h : IsDecoding(h, text)
           S == {n \in 0..N : h[n] \in DecodeStates /\ Carries(h[n], ByteBits, text, CharBits, n)}
<1>1. N \in Nat /\ \A n \in 1..N : text[n] \in Char
  BY LenProperties, ElementOfSeq
<1>2. IsDecoding(h, text)
  BY DecodingExists
<1>3. DecodeBase32NoPadding(text) = h[N].out
  BY DEF DecodeBase32NoPadding, IsDecoding
<1> HIDE DEF h, N
<1>4. h[0] = Start /\ \A n \in 1..N : h[n] = DecodeChar(h[n - 1], text[n])
  BY <1>1, <1>2 DEF IsDecoding, N
<1>5. 0 \in S
  BY <1>1, <1>4, StartIs, Widths
<1>6. ASSUME NEW k \in 0..(N - 1), k \in S PROVE k + 1 \in S
  <2>1. k + 1 \in 0..N /\ k + 1 \in 1..N /\ (k + 1) - 1 = k /\ k + 1 \in Nat \ {0}
    BY <1>1
  <2>2. h[k] \in DecodeStates /\ Carries(h[k], ByteBits, text, CharBits, k)
    BY <1>6
  <2>3. h[k + 1] = DecodeChar(h[k], text[k + 1]) /\ text[k + 1] \in Char
    BY <1>1, <1>4, <2>1
  <2>4. /\ DecodeChar(h[k], text[k + 1]) \in DecodeStates
        /\ Carries(DecodeChar(h[k], text[k + 1]), ByteBits, text, CharBits, k + 1)
    BY <2>1, <2>2, <2>3, DecodeCharIs
  <2> QED
    BY <2>1, <2>3, <2>4
<1>7. N \in S
  <2> HIDE DEF S
  <2>1. 0..N \subseteq S /\ N \in 0..N
    BY <1>1, <1>5, <1>6, UpTo
  <2> QED
    BY <2>1
<1>8. h[N] \in DecodeStates /\ Carries(h[N], ByteBits, text, CharBits, N)
  BY <1>7
<1> HIDE DEF S
<1>9. PICK out \in Seq(Byte) : out = h[N].out
  BY <1>8 DEF DecodeStates
<1>10. PICK bits \in 0..(ByteBits - 1) : bits = h[N].bits
  BY <1>8 DEF DecodeStates
<1>11. Len(out) * ByteBits + bits = N * CharBits /\ Writes(out, ByteBits, text, CharBits)
  BY <1>8, <1>9, <1>10 DEF Carries
<1>12. Len(out) * ByteBits \in Nat /\ ByteBits \in Nat /\ N * CharBits \in Nat
  BY <1>1, <1>9, Widths, LenProperties
<1>13. Len(out) * ByteBits <= N * CharBits /\ N * CharBits < Len(out) * ByteBits + ByteBits
  BY <1>11, <1>12
<1> QED
  BY <1>3, <1>9, <1>11, <1>13 DEF N

IsEncoding(h, bytes) ==
  h = [n \in 0..Len(bytes) |-> IF n = 0 THEN Start ELSE EncodeByte(h[n - 1], bytes[n])]

\* The loop of encodeBase32NoPadding has a run over any bytes.
LEMMA EncodingExists ==
  ASSUME NEW bytes \in Seq(Byte)
  PROVE  \E h : IsEncoding(h, bytes)
<1> DEFINE N == Len(bytes)
           S == EncodeStates
           F == [p \in S \X (1..N) |-> EncodeByte(p[1], bytes[p[2]])]
<1>1. N \in Nat /\ \A n \in 1..N : bytes[n] \in Byte
  BY LenProperties, ElementOfSeq
<1>2. \A state \in S, n \in 1..N : F[<<state, n>>] = EncodeByte(state, bytes[n])
  <2> HIDE DEF N, S
  <2> QED
    OBVIOUS
<1>3. F \in [S \X (1..N) -> S]
  <2> SUFFICES ASSUME NEW p \in S \X (1..N) PROVE EncodeByte(p[1], bytes[p[2]]) \in S
    OBVIOUS
  <2>1. p[1] \in S /\ p[2] \in 1..N
    OBVIOUS
  <2> QED
    BY <1>1, <2>1, EncodeByteIs
<1>4. Start \in S
  BY StartIs, 0 \in Nat
<1> HIDE DEF F, N, S
<1>5. PICK h \in [0..N -> S] : IsRun(h, F, Start, N)
  BY <1>1, <1>3, <1>4, RunExists
<1>6. \A i \in 0..N : i # 0 => F[<<h[i - 1], i>>] = EncodeByte(h[i - 1], bytes[i])
  <2> SUFFICES ASSUME NEW i \in 0..N, i # 0 PROVE F[<<h[i - 1], i>>] = EncodeByte(h[i - 1], bytes[i])
    OBVIOUS
  <2>1. i - 1 \in 0..N /\ i \in 1..N
    BY <1>1
  <2> QED
    BY <1>2, <2>1
<1>7. h = [i \in 0..N |-> IF i = 0 THEN Start ELSE EncodeByte(h[i - 1], bytes[i])]
  BY <1>5, <1>6 DEF IsRun
<1> QED
  BY <1>7 DEF IsEncoding, N

\* The bytes cut into characters, before the bits that are left over are written.
LEMMA AllBytesIs ==
  ASSUME NEW bytes \in Seq(Byte)
  PROVE  /\ AllBytes(bytes) \in EncodeStates
         /\ Carries(AllBytes(bytes), CharBits, bytes, ByteBits, Len(bytes))
<1> DEFINE N == Len(bytes)
           h == CHOOSE h : IsEncoding(h, bytes)
           S == {n \in 0..N : h[n] \in EncodeStates /\ Carries(h[n], CharBits, bytes, ByteBits, n)}
<1>1. N \in Nat /\ \A n \in 1..N : bytes[n] \in Byte
  BY LenProperties, ElementOfSeq
<1>2. IsEncoding(h, bytes)
  BY EncodingExists
<1>3. AllBytes(bytes) = h[N]
  BY DEF AllBytes, IsEncoding
<1> HIDE DEF h, N
<1>4. h[0] = Start /\ \A n \in 1..N : h[n] = EncodeByte(h[n - 1], bytes[n])
  BY <1>1, <1>2 DEF IsEncoding, N
<1>5. 0 \in S
  BY <1>1, <1>4, StartIs, Widths
<1>6. ASSUME NEW k \in 0..(N - 1), k \in S PROVE k + 1 \in S
  <2>1. k + 1 \in 0..N /\ k + 1 \in 1..N /\ (k + 1) - 1 = k /\ k + 1 \in Nat \ {0}
    BY <1>1
  <2>2. h[k] \in EncodeStates /\ Carries(h[k], CharBits, bytes, ByteBits, k)
    BY <1>6
  <2>3. h[k + 1] = EncodeByte(h[k], bytes[k + 1]) /\ bytes[k + 1] \in Byte
    BY <1>1, <1>4, <2>1
  <2>4. /\ EncodeByte(h[k], bytes[k + 1]) \in EncodeStates
        /\ Carries(EncodeByte(h[k], bytes[k + 1]), CharBits, bytes, ByteBits, k + 1)
    BY <2>1, <2>2, <2>3, EncodeByteIs
  <2> QED
    BY <2>1, <2>3, <2>4
<1>7. N \in S
  <2> HIDE DEF S
  <2>1. 0..N \subseteq S /\ N \in 0..N
    BY <1>1, <1>5, <1>6, UpTo
  <2> QED
    BY <2>1
<1> QED
  BY <1>3, <1>7 DEF N

\* The characters are the bits of the bytes, and zeros after them.
Fills(text, bytes) ==
  \A k \in 1..Len(text), i \in 1..CharBits :
    text[k][i] = IF (k - 1) * CharBits + i <= Len(bytes) * ByteBits
                 THEN BitOf(bytes, ByteBits, (k - 1) * CharBits + i) ELSE 0

\* encodeBase32NoPadding cuts the bits of the bytes into characters, and fills the
\* last one with zeros.
LEMMA EncodeIs ==
  ASSUME NEW bytes \in Seq(Byte), NEW text, text = EncodeBase32NoPadding(bytes)
  PROVE  /\ text \in Seq(Char)
         /\ Len(bytes) * ByteBits <= Len(text) * CharBits
         /\ Len(text) * CharBits < Len(bytes) * ByteBits + CharBits
         /\ Fills(text, bytes)
<1> DEFINE A == AccumulatorBits
           C == CharBits
           M == Len(bytes) * ByteBits
           bits == AllBytes(bytes).bits
           accumulator == AllBytes(bytes).accumulator
           out == AllBytes(bytes).out
           L == Len(out)
           from == L * C
<1>0. A \in Nat /\ C \in Nat \ {0} /\ C <= A /\ M \in Nat /\ ByteBits \in Nat \ {0}
  BY Widths, LenProperties
<1>1. bits \in Nat /\ bits < C /\ accumulator \in Register /\ out \in Seq(Char) /\ L \in Nat
  BY <1>0, AllBytesIs, LenProperties DEF EncodeStates
<1>2. from + bits = M /\ Holds(bytes, ByteBits, accumulator, bits, from) /\ Writes(out, C, bytes, ByteBits)
  BY AllBytesIs DEF Carries
<1>3. text = IF bits = 0 THEN out
             ELSE Append(out, Field(Shifted(accumulator, Zeros(C - bits)), 0, C))
  BY DEF EncodeBase32NoPadding
<1>4. from \in Nat /\ (L + 1) * C = from + C /\ ((L + 1) - 1) * C = from
  BY <1>0, <1>1
<1>5. ASSUME NEW k \in 1..L, NEW i \in 1..C
      PROVE  (k - 1) * C + i <= M /\ out[k][i] = BitOf(bytes, ByteBits, (k - 1) * C + i)
  <2>1. PICK j \in Nat : j = k - 1 /\ j + 1 <= L /\ k = j + 1
    BY <1>1
  <2>2. (j + 1) * C = j * C + C /\ (j + 1) * C <= L * C /\ j * C \in Nat
    <3>1. j + 1 \in Nat /\ 1 \in Nat /\ C \in Nat /\ 1 * C = C
      BY <1>0, <2>1
    <3> HIDE DEF L
    <3>2. (j + 1) * C <= L * C
      BY <1>1, <2>1, <3>1, Grows
    <3>3. (j + 1) * C = j * C + 1 * C /\ j * C \in Nat
      BY <3>1, Distributes
    <3> QED
      BY <3>1, <3>2, <3>3
  <2>3. (k - 1) * C + i <= from
    BY <1>0, <1>4, <2>1, <2>2
  <2> QED
    BY <1>0, <1>1, <1>2, <1>4, <2>3, SMTT(30) DEF Writes
<1> HIDE DEF M, bits, accumulator, out, L, from
<1>6. CASE bits = 0
  <2>1. text = out /\ Len(text) = L /\ from = M
    BY <1>0, <1>1, <1>2, <1>3, <1>4, <1>6 DEF L
  <2>2. Len(text) * C = M
    BY <2>1 DEF from
  <2>3. text \in Seq(Char) /\ M <= Len(text) * C /\ Len(text) * C < M + C
    BY <1>0, <1>1, <2>1, <2>2
  <2>4. \A k \in 1..Len(text), i \in 1..C :
          text[k][i] = IF (k - 1) * C + i <= M THEN BitOf(bytes, ByteBits, (k - 1) * C + i) ELSE 0
    BY <1>5, <2>1
  <2> QED
    BY <2>3, <2>4 DEF M, Fills
<1>7. CASE bits # 0
  <2> DEFINE zeros == Zeros(C - bits)
             shifted == Shifted(accumulator, zeros)
             last == Field(shifted, 0, C)
  <2>1. C - bits \in 1..A /\ C - bits \in Nat
    BY <1>0, <1>1, <1>7
  <2>2. zeros \in [1..(C - bits) -> Bit] /\ \A i \in 1..(C - bits) : zeros[i] = 0
    BY DEF Zeros, Bit
  <2> HIDE DEF zeros
  <2>3. /\ shifted \in Register
        /\ \A i \in 1..(A - (C - bits)) : shifted[i] = accumulator[i + (C - bits)]
        /\ \A i \in 1..(C - bits) : shifted[A - (C - bits) + i] = zeros[i]
    <3> DEFINE n == C - bits
    <3>1. n \in 1..A /\ zeros \in [1..n -> Bit]
      BY <2>1, <2>2
    <3> HIDE DEF n
    <3>2. shifted \in Register
      BY <1>1, <3>1, ShiftedIs
    <3>3. \A i \in 1..(A - n) : shifted[i] = accumulator[i + n]
      BY <1>1, <3>1, ShiftedIs
    <3>4. \A i \in 1..n : shifted[A - n + i] = zeros[i]
      BY <1>1, <3>1, ShiftedIs
    <3> HIDE DEF shifted
    <3> QED
      BY <3>2, <3>3, <3>4 DEF n
  <2> HIDE DEF shifted
  <2>4. last \in [1..C -> Bit] /\ \A i \in 1..C : last[i] = shifted[A - 0 - C + i]
    <3>1. 0 \in Nat /\ C \in Nat /\ 0 + C <= A
      BY <1>0
    <3>2. Field(shifted, 0, C) \in [1..C -> Bit]
      BY <2>3, <3>1, FieldIs
    <3>3. \A i \in 1..C : Field(shifted, 0, C)[i] = shifted[A - 0 - C + i]
      BY <2>3, <3>1, FieldIs
    <3> QED
      BY <3>2, <3>3
  <2>5. text = Append(out, last)
    BY <1>3, <1>7 DEF shifted, zeros
  <2> HIDE DEF last
  <2>6. last \in Char
    BY <2>4 DEF Char
  <2>7. /\ text \in Seq(Char) /\ Len(text) = L + 1 /\ text[L + 1] = last
        /\ \A k \in 1..L : text[k] = out[k]
    BY <1>1, <2>5, <2>6, AppendProperties DEF L
  <2>8. Len(text) * C = from + C
    BY <1>4, <2>7
  <2>9. M <= Len(text) * C /\ Len(text) * C < M + C
    BY <1>0, <1>1, <1>2, <1>4, <1>7, <2>8
  <2>10. ASSUME NEW i \in 1..C
         PROVE  last[i] = IF from + i <= M THEN BitOf(bytes, ByteBits, from + i) ELSE 0
    <3>1. CASE i <= bits
      <4>1. i \in 1..bits /\ A - 0 - C + i \in 1..(A - (C - bits))
            /\ (A - 0 - C + i) + (C - bits) = A - bits + i /\ from + i <= M
        BY <1>0, <1>1, <1>2, <1>4, <3>1
      <4>2. last[i] = accumulator[A - bits + i]
        BY <2>3, <2>4, <4>1
      <4>3. accumulator[A - bits + i] = BitOf(bytes, ByteBits, from + i)
        BY <1>2, <4>1 DEF Holds
      <4> QED
        BY <4>1, <4>2, <4>3
    <3>2. CASE ~(i <= bits)
      <4>1. PICK j \in 1..(C - bits) : i = bits + j
        <5>1. i - bits \in 1..(C - bits) /\ i = bits + (i - bits)
          BY <1>0, <1>1, <3>2
        <5> QED
          BY <5>1
      <4>2. A - 0 - C + i = A - (C - bits) + j /\ ~(from + i <= M)
        BY <1>0, <1>1, <1>2, <1>4, <4>1
      <4>3. shifted[A - (C - bits) + j] = 0
        BY <2>2, <2>3
      <4> QED
        BY <2>4, <4>2, <4>3
    <3> QED
      BY <3>1, <3>2
  <2>11. ASSUME NEW k \in 1..(L + 1), NEW i \in 1..C
         PROVE  text[k][i] = IF (k - 1) * C + i <= M THEN BitOf(bytes, ByteBits, (k - 1) * C + i) ELSE 0
    <3>1. CASE k = L + 1
      BY <1>4, <2>7, <2>10, <3>1
    <3>2. CASE k # L + 1
      <4>1. k \in 1..L
        BY <1>1, <3>2
      <4> QED
        BY <1>5, <2>7, <4>1
    <3> QED
      BY <3>1, <3>2
  <2> QED
    BY <2>7, <2>9, <2>11 DEF M, Fills
<1> QED
  BY <1>6, <1>7

\* An address has the fewest characters its bits fit in.
LEMMA Lengths ==
  /\ AddressBits \in Nat /\ AddressBits = (KeyBytes + ChecksumBytes) * ByteBits
  /\ AddressLength \in Nat /\ AddressBits <= AddressLength * CharBits
  /\ AddressLength * CharBits < AddressBits + CharBits
<1>1. AddressBits \in Nat /\ AddressBits = (KeyBytes + ChecksumBytes) * ByteBits
  BY Widths DEF AddressBits
<1>2. CharBits \in Nat \ {0}
  BY Widths
<1> DEFINE M == AddressBits + CharBits - 1
<1>3. M \in Nat
  BY <1>1, <1>2
<1>4. AddressLength = M \div CharBits
  BY DEF AddressLength
<1> HIDE DEF M
<1>5. AddressLength \in Nat /\ M = AddressLength * CharBits + (M % CharBits) /\ M % CharBits \in 0..(CharBits - 1)
  BY <1>2, <1>3, <1>4
<1>6. AddressLength * CharBits \in Nat
  BY <1>2, <1>5
<1> QED
  BY <1>1, <1>2, <1>5, <1>6 DEF M

\* Two numbers of groups less than a group apart are the same.
LEMMA OneLength ==
  ASSUME NEW a \in Nat, NEW b \in Nat, NEW w \in Nat, a * w < b * w + w, b * w < a * w + w
  PROVE  a = b
<1>1. ASSUME NEW x \in Nat, NEW y \in Nat, x < y PROVE x * w + w <= y * w
  <2>1. x + 1 \in Nat /\ x + 1 <= y /\ 1 * w = w /\ 1 \in Nat
    BY <1>1
  <2>2. (x + 1) * w <= y * w
    BY <2>1, Grows
  <2>3. (x + 1) * w = x * w + 1 * w
    BY <2>1, Distributes
  <2> QED
    BY <2>1, <2>2, <2>3
<1>2. a * w \in Nat /\ b * w \in Nat
  OBVIOUS
<1>3. CASE a < b
  BY <1>1, <1>2, <1>3
<1>4. CASE b < a
  BY <1>1, <1>2, <1>4
<1> QED
  BY <1>3, <1>4

\* Where a bit is.
LEMMA BitPlace ==
  ASSUME NEW w \in Nat \ {0}, NEW n \in Nat, NEW k \in 1..n, NEW i \in 1..w
  PROVE  (k - 1) * w + i \in 1..(n * w)
<1>1. PICK j \in Nat : j = k - 1 /\ j + 1 <= n /\ w \in Nat /\ j + 1 \in Nat /\ 1 * w = w
  OBVIOUS
<1>2. j * w + w <= n * w
  <2>1. (j + 1) * w <= n * w
    BY <1>1, Grows
  <2>2. (j + 1) * w = j * w + 1 * w
    BY <1>1, Distributes
  <2> QED
    BY <1>1, <2>1, <2>2
<1>3. j * w \in Nat /\ n * w \in Nat
  BY <1>1
<1> QED
  BY <1>1, <1>2, <1>3

\* The bits of what a text decodes to are its own.
LEMMA DecodedBits ==
  ASSUME NEW text \in Seq(Char), NEW bytes, bytes = DecodeBase32NoPadding(text),
         NEW k \in 1..Len(text), NEW i \in 1..CharBits,
         (k - 1) * CharBits + i <= Len(bytes) * ByteBits
  PROVE  text[k][i] = BitOf(bytes, ByteBits, (k - 1) * CharBits + i)
<1> DEFINE p == (k - 1) * CharBits + i
<1>1. CharBits \in Nat \ {0} /\ ByteBits \in Nat \ {0} /\ Len(text) \in Nat /\ k \in Nat \ {0}
  BY Widths, LenProperties
<1>2. bytes \in Seq(Byte) /\ Len(bytes) \in Nat /\ Writes(bytes, ByteBits, text, CharBits)
  BY DecodeIs, LenProperties
<1>3. p \in 1..(Len(text) * CharBits)
  BY <1>1, BitPlace
<1>4. BitOf(text, CharBits, p) = text[k][i]
  BY <1>1, BitAt
<1> HIDE DEF p
<1>5. p <= Len(bytes) * ByteBits /\ Len(bytes) * ByteBits \in Nat /\ Len(text) * CharBits \in Nat
  BY <1>1, <1>2 DEF p
<1>6. p \in 1..(Len(bytes) * ByteBits)
  BY <1>3, <1>5
<1>7. PICK j \in 1..Len(bytes), q \in 1..ByteBits : p = (j - 1) * ByteBits + q
  BY <1>1, <1>2, <1>6, GroupOf
<1>8. bytes[j][q] = BitOf(text, CharBits, p)
  BY <1>2, <1>7 DEF Writes
<1>9. j \in Nat \ {0}
  BY <1>2
<1>10. BitOf(bytes, ByteBits, p) = bytes[j][q]
  BY <1>1, <1>7, <1>9, BitAt
<1> QED
  BY <1>4, <1>8, <1>10 DEF p

\* What is written is read back.
LEMMA EncodedReadsBack ==
  ASSUME NEW bytes \in Seq(Byte), Len(bytes) = KeyBytes + ChecksumBytes,
         NEW text, text = EncodeBase32NoPadding(bytes)
  PROVE  text \in Seq(Char) /\ Len(text) = AddressLength /\ DecodeBase32NoPadding(text) = bytes
<1> DEFINE C == CharBits
           B == ByteBits
           M == AddressBits
           read == DecodeBase32NoPadding(text)
<1>0. C \in Nat \ {0} /\ B \in Nat \ {0} /\ C < B /\ KeyBytes \in Nat /\ ChecksumBytes \in Nat /\ M \in Nat
      /\ Len(bytes) * B = M
  BY Widths, Lengths
<1>1. text \in Seq(Char) /\ Len(text) \in Nat /\ M <= Len(text) * C /\ Len(text) * C < M + C
  BY <1>0, EncodeIs, LenProperties
<1>7. ASSUME NEW k \in 1..Len(text), NEW i \in 1..C, (k - 1) * C + i <= M
      PROVE  text[k][i] = BitOf(bytes, B, (k - 1) * C + i)
  <2>1. Fills(text, bytes)
    BY EncodeIs
  <2> QED
    BY <1>0, <1>7, <2>1 DEF Fills
<1> HIDE DEF M
<1>2. Len(text) = AddressLength
  <2>1. AddressLength \in Nat /\ M <= AddressLength * C /\ AddressLength * C < M + C
    BY Lengths DEF M
  <2>2. Len(text) * C \in Nat /\ AddressLength * C \in Nat
    BY <1>0, <1>1, <2>1
  <2>3. Len(text) * C < AddressLength * C + C /\ AddressLength * C < Len(text) * C + C
    <3> DEFINE x == Len(text) * C
               y == AddressLength * C
    <3>1. x \in Nat /\ y \in Nat /\ M <= x /\ x < M + C /\ M <= y /\ y < M + C
      BY <1>1, <2>1, <2>2
    <3> HIDE DEF x, y
    <3>2. x < y + C /\ y < x + C
      BY <1>0, <3>1
    <3> QED
      BY <3>2 DEF x, y
  <2> QED
    BY <1>0, <1>1, <2>1, <2>3, OneLength
<1>3. /\ read \in Seq(Byte) /\ Len(read) \in Nat
      /\ Len(read) * B <= Len(text) * C /\ Len(text) * C < Len(read) * B + B
      /\ Writes(read, B, text, C)
  BY <1>1, DecodeIs, LenProperties
<1> HIDE DEF read
<1>4. Len(read) = Len(bytes)
  <2>1. Len(bytes) \in Nat /\ Len(text) * C \in Nat /\ Len(read) * B \in Nat
    BY <1>0, <1>1, <1>3
  <2>2. Len(read) * B < Len(bytes) * B + B /\ Len(bytes) * B < Len(read) * B + B
    <3> DEFINE x == Len(text) * C
               y == Len(read) * B
    <3>1. /\ x \in Nat /\ y \in Nat /\ M <= x /\ x < M + C /\ y <= x /\ x < y + B
          /\ Len(bytes) * B = M
      BY <1>0, <1>1, <1>3, <2>1
    <3> HIDE DEF x, y
    <3>2. y < M + B /\ M < y + B
      BY <1>0, <3>1
    <3> QED
      BY <3>1, <3>2 DEF x, y
  <2> QED
    BY <1>0, <1>3, <2>1, <2>2, OneLength
<1>5. ASSUME NEW j \in 1..Len(bytes)
      PROVE  read[j] = bytes[j]
  <2>1. read[j] \in [1..B -> Bit] /\ bytes[j] \in [1..B -> Bit]
    BY <1>3, <1>4, ElementOfSeq DEF Byte
  <2>2. ASSUME NEW q \in 1..B
        PROVE  read[j][q] = bytes[j][q]
    <3> DEFINE p == (j - 1) * B + q
    <3>1. Len(bytes) \in Nat /\ j \in Nat \ {0}
      BY <1>0
    <3>2. p \in 1..M
      BY <1>0, <3>1, BitPlace
    <3>3. read[j][q] = BitOf(text, C, p)
      BY <1>3, <1>4 DEF Writes
    <3>4. BitOf(bytes, B, p) = bytes[j][q]
      BY <1>0, <3>1, BitAt
    <3> HIDE DEF p
    <3>5. p \in 1..(Len(text) * C)
      <4>1. Len(text) * C \in Nat
        BY <1>0, <1>1
      <4> QED
        BY <1>0, <1>1, <3>2, <4>1
    <3>6. PICK k \in 1..Len(text), i \in 1..C : p = (k - 1) * C + i
      BY <1>0, <1>1, <3>5, GroupOf
    <3>7. k \in Nat \ {0} /\ p <= M
      BY <1>0, <1>1, <3>2
    <3>8. BitOf(text, C, p) = text[k][i]
      BY <1>0, <3>6, <3>7, BitAt
    <3>9. text[k][i] = BitOf(bytes, B, p)
      BY <1>7, <3>6, <3>7
    <3> QED
      BY <3>3, <3>4, <3>8, <3>9
  <2>3. read[j] = [q \in 1..B |-> read[j][q]] /\ bytes[j] = [q \in 1..B |-> bytes[j][q]]
    BY <2>1
  <2> QED
    BY <2>2, <2>3, Zenon
<1>6. read = bytes
  BY <1>3, <1>4, <1>5, SeqEqual
<1> QED
  BY <1>1, <1>2, <1>6 DEF read

\* A key and its checksum are the bytes of an address.
LEMMA KeyBytesAre ==
  ASSUME NEW key \in PublicKeys, NEW bytes, bytes = key \o Checksum(key)
  PROVE  /\ bytes \in Seq(Byte) /\ Len(bytes) = KeyBytes + ChecksumBytes
         /\ SubSeq(bytes, 1, KeyBytes) = key
         /\ SubSeq(bytes, KeyBytes + 1, Len(bytes)) = Checksum(key)
<1> DEFINE K == KeyBytes
           N == ChecksumBytes
           sum == Checksum(key)
<1>0. K \in Nat /\ N \in Nat
  BY Widths
<1>1. key \in Seq(Byte) /\ Len(key) = K
  BY <1>0 DEF PublicKeys
<1>2. sum \in [1..N -> Byte]
  BY AddressAssumption
<1> HIDE DEF sum
<1>3. sum \in Seq(Byte) /\ Len(sum) = N
  BY <1>0, <1>2
<1>4. /\ bytes \in Seq(Byte) /\ Len(bytes) = K + N
      /\ \A i \in 1..(K + N) : bytes[i] = IF i <= K THEN key[i] ELSE sum[i - K]
  BY <1>1, <1>3, ConcatProperties DEF sum
<1>5. SubSeq(bytes, 1, K) = key
  <2> DEFINE t == SubSeq(bytes, 1, K)
  <2>1. 1 \in Nat /\ 1 <= 1 /\ 1 <= K + 1 /\ K <= Len(bytes) /\ K - 1 + 1 = K
    BY <1>0, <1>4
  <2>2. t \in Seq(Byte) /\ Len(t) = K - 1 + 1
    BY <1>0, <1>4, <2>1, Piece
  <2>3. \A i \in 1..(K - 1 + 1) : t[i] = bytes[1 + i - 1]
    BY <1>0, <1>4, <2>1, Piece
  <2> HIDE DEF t
  <2>4. \A i \in 1..K : t[i] = key[i]
    <3> SUFFICES ASSUME NEW i \in 1..K PROVE t[i] = key[i]
      OBVIOUS
    <3>1. i \in 1..(K - 1 + 1) /\ 1 + i - 1 = i /\ i \in 1..(K + N) /\ i <= K
      BY <1>0
    <3> QED
      BY <1>4, <2>3, <3>1
  <2>5. t = key
    BY <1>1, <2>1, <2>2, <2>4, SeqEqual
  <2> QED
    BY <2>5 DEF t
<1>6. SubSeq(bytes, K + 1, K + N) = sum
  <2> DEFINE m == K + 1
             n == K + N
             t == SubSeq(bytes, m, n)
  <2>1. m \in Nat /\ n \in Nat /\ 1 <= m /\ m <= n + 1 /\ n <= Len(bytes) /\ n - m + 1 = N
    BY <1>0, <1>4
  <2>2. \A i \in 1..N : m + i - 1 \in 1..(K + N) /\ ~(m + i - 1 <= K) /\ (m + i - 1) - K = i
    BY <1>0
  <2>3. t = SubSeq(bytes, K + 1, K + N)
    OBVIOUS
  <2> HIDE DEF m, n
  <2>4. t \in Seq(Byte) /\ Len(t) = n - m + 1
    BY <1>4, <2>1, Piece
  <2>5. \A i \in 1..(n - m + 1) : t[i] = bytes[m + i - 1]
    BY <1>4, <2>1, Piece
  <2> HIDE DEF t
  <2>6. \A i \in 1..N : t[i] = sum[i]
    <3> SUFFICES ASSUME NEW i \in 1..N PROVE t[i] = sum[i]
      OBVIOUS
    <3>1. t[i] = bytes[m + i - 1]
      BY <2>1, <2>5
    <3> QED
      BY <1>4, <2>2, <3>1
  <2>7. t = sum
    BY <1>3, <2>1, <2>4, <2>6, SeqEqual
  <2> QED
    BY <2>3, <2>7
<1> QED
  BY <1>4, <1>5, <1>6 DEF sum

\* What is read as an address is a key and its checksum.
LEMMA AddressIs ==
  ASSUME NEW text \in Seq(Char), IsAddress(text)
  PROVE  /\ Len(text) = AddressLength /\ PublicKeyOf(text) \in PublicKeys
         /\ DecodeBase32NoPadding(text) = PublicKeyOf(text) \o Checksum(PublicKeyOf(text))
         /\ Len(DecodeBase32NoPadding(text)) = KeyBytes + ChecksumBytes
<1> DEFINE K == KeyBytes
           N == ChecksumBytes
           bytes == DecodeBase32NoPadding(text)
           key == SubSeq(bytes, 1, K)
           sum == SubSeq(bytes, K + 1, K + N)
<1>0. K \in Nat /\ N \in Nat
  BY Widths
<1>1. bytes \in Seq(Byte) /\ Len(bytes) = K + N
  BY DecodeIs DEF IsAddress
<1>2. key = PublicKeyOf(text) /\ sum = Checksum(key) /\ Len(text) = AddressLength
  BY <1>1 DEF IsAddress, PublicKeyOf
<1> HIDE DEF bytes
<1>3. 1 \in Nat /\ 1 <= 1 /\ 1 <= K + 1 /\ K <= Len(bytes) /\ K - 1 + 1 = K
  BY <1>0, <1>1
<1>4. key \in Seq(Byte) /\ Len(key) = K - 1 + 1
  BY <1>0, <1>1, <1>3, Piece
<1>5. \A i \in 1..(K - 1 + 1) : key[i] = bytes[1 + i - 1]
  BY <1>0, <1>1, <1>3, Piece
<1>6. /\ K + 1 \in Nat /\ K + N \in Nat /\ 1 <= K + 1 /\ K + 1 <= (K + N) + 1 /\ K + N <= Len(bytes)
      /\ (K + N) - (K + 1) + 1 = N
  BY <1>0, <1>1
<1>7. sum \in Seq(Byte) /\ Len(sum) = N /\ \A i \in 1..N : sum[i] = bytes[K + i]
  <2> DEFINE m == K + 1
             n == K + N
  <2>1. m \in Nat /\ n \in Nat /\ 1 <= m /\ m <= n + 1 /\ n <= Len(bytes)
    BY <1>6
  <2>2. n - m + 1 = N /\ \A i \in 1..N : m + i - 1 = K + i
    BY <1>0
  <2>3. sum = SubSeq(bytes, m, n)
    OBVIOUS
  <2> HIDE DEF m, n, sum
  <2>4. sum \in Seq(Byte) /\ Len(sum) = n - m + 1
    BY <1>1, <2>1, <2>3, Piece
  <2>5. \A i \in 1..(n - m + 1) : SubSeq(bytes, m, n)[i] = bytes[m + i - 1]
    BY <1>1, <2>1, Piece
  <2> SUFFICES ASSUME NEW i \in 1..N PROVE sum[i] = bytes[K + i]
    BY <2>2, <2>4
  <2> QED
    BY <2>2, <2>3, <2>5
<1> HIDE DEF key, sum
<1>8. key \in PublicKeys
  BY <1>3, <1>4, LenProperties DEF PublicKeys
<1>9. bytes = key \o sum
  <2>1. /\ key \o sum \in Seq(Byte) /\ Len(key \o sum) = K + N
        /\ \A i \in 1..(K + N) : (key \o sum)[i] = IF i <= K THEN key[i] ELSE sum[i - K]
    <3>1. key \in Seq(Byte) /\ Len(key) = K /\ sum \in Seq(Byte) /\ Len(sum) = N
      BY <1>3, <1>4, <1>7
    <3> QED
      BY <3>1, ConcatProperties
  <2>2. ASSUME NEW i \in 1..(K + N) PROVE bytes[i] = (key \o sum)[i]
    <3>1. CASE i <= K
      <4>1. i \in 1..(K - 1 + 1) /\ 1 + i - 1 = i
        BY <1>3, <3>1
      <4> QED
        BY <1>5, <2>1, <3>1, <4>1
    <3>2. CASE ~(i <= K)
      <4>1. i - K \in 1..N /\ K + (i - K) = i
        BY <1>0, <3>2
      <4> QED
        BY <1>7, <2>1, <3>2, <4>1
    <3> QED
      BY <3>1, <3>2
  <2> QED
    BY <1>1, <2>1, <2>2, SeqEqual
<1> QED
  BY <1>1, <1>2, <1>8, <1>9 DEF bytes

\* A written key is an address, of that key.
LEMMA WrittenIs ==
  ASSUME NEW key \in PublicKeys, NEW text, text = EncodeAlgorandAddress(key)
  PROVE  /\ text \in Seq(Char) /\ IsAddress(text) /\ PublicKeyOf(text) = key
         /\ DecodeBase32NoPadding(text) = key \o Checksum(key)
<1> DEFINE bytes == key \o Checksum(key)
<1>1. text = EncodeBase32NoPadding(bytes)
  BY DEF EncodeAlgorandAddress
<1>2. /\ bytes \in Seq(Byte) /\ Len(bytes) = KeyBytes + ChecksumBytes
      /\ SubSeq(bytes, 1, KeyBytes) = key
      /\ SubSeq(bytes, KeyBytes + 1, Len(bytes)) = Checksum(key)
  BY KeyBytesAre
<1> HIDE DEF bytes
<1>3. text \in Seq(Char) /\ Len(text) = AddressLength /\ DecodeBase32NoPadding(text) = bytes
  BY <1>1, <1>2, EncodedReadsBack
<1>4. PublicKeyOf(text) = key
  BY <1>2, <1>3 DEF PublicKeyOf
<1>5. IsAddress(text)
  BY <1>2, <1>3, <1>4 DEF IsAddress
<1> QED
  BY <1>3, <1>4, <1>5 DEF bytes

\* A text and the way the key it names is written have the same bits, as far as a byte
\* needs them, and the written one has zeros after them.
LEMMA SameBitsWritten ==
  ASSUME NEW text \in Seq(Char), IsAddress(text),
         NEW written, written = EncodeAlgorandAddress(PublicKeyOf(text))
  PROVE  /\ written \in Seq(Char) /\ IsAddress(written) /\ PublicKeyOf(written) = PublicKeyOf(text)
         /\ Len(written) = AddressLength /\ Len(text) = AddressLength
         /\ \A k \in 1..AddressLength, i \in 1..CharBits :
              IF (k - 1) * CharBits + i <= AddressBits THEN written[k][i] = text[k][i]
              ELSE written[k][i] = 0
<1> DEFINE bytes == DecodeBase32NoPadding(text)
<1>1. /\ Len(text) = AddressLength /\ PublicKeyOf(text) \in PublicKeys
      /\ bytes = PublicKeyOf(text) \o Checksum(PublicKeyOf(text))
      /\ Len(bytes) = KeyBytes + ChecksumBytes
  BY AddressIs
<1>2. /\ written \in Seq(Char) /\ IsAddress(written) /\ PublicKeyOf(written) = PublicKeyOf(text)
      /\ DecodeBase32NoPadding(written) = bytes
  BY <1>1, WrittenIs
<1>3. Len(written) = AddressLength
  BY <1>2 DEF IsAddress
<1>4. bytes \in Seq(Byte)
  BY DecodeIs
<1>5. written = EncodeBase32NoPadding(bytes)
  BY <1>1 DEF EncodeAlgorandAddress
<1>6. Len(bytes) * ByteBits = AddressBits
  BY <1>1, Lengths
<1> HIDE DEF bytes
<1>7. Fills(written, bytes)
  BY <1>4, <1>5, EncodeIs
<1>8. ASSUME NEW k \in 1..AddressLength, NEW i \in 1..CharBits
      PROVE  IF (k - 1) * CharBits + i <= AddressBits THEN written[k][i] = text[k][i]
             ELSE written[k][i] = 0
  <2>1. k \in 1..Len(text) /\ k \in 1..Len(written)
    BY <1>1, <1>3
  <2>2. CASE (k - 1) * CharBits + i <= AddressBits
    <3>1. written[k][i] = BitOf(bytes, ByteBits, (k - 1) * CharBits + i)
      BY <1>6, <1>7, <2>1, <2>2 DEF Fills
    <3>2. (k - 1) * CharBits + i <= Len(bytes) * ByteBits
      BY <1>6, <2>2
    <3>3. text[k][i] = BitOf(bytes, ByteBits, (k - 1) * CharBits + i)
      BY <2>1, <3>2, DecodedBits DEF bytes
    <3> QED
      BY <2>2, <3>1, <3>3
  <2>3. CASE ~((k - 1) * CharBits + i <= AddressBits)
    BY <1>6, <1>7, <2>1, <2>3 DEF Fills
  <2> QED
    BY <2>2, <2>3
<1> QED
  BY <1>1, <1>2, <1>3, <1>8

\* The last character is the only one with bits to spare, SpareBits of them.
LEMMA SpareBitsAre ==
  /\ AddressLength \in Nat \ {0} /\ SpareBits \in 0..(CharBits - 1)
  /\ \A k \in 1..(AddressLength - 1), i \in 1..CharBits : (k - 1) * CharBits + i <= AddressBits
  /\ \A i \in 1..(CharBits - SpareBits) : (AddressLength - 1) * CharBits + i <= AddressBits
  /\ \A i \in (CharBits - SpareBits + 1)..CharBits : ~((AddressLength - 1) * CharBits + i <= AddressBits)
<1> DEFINE L == AddressLength
           C == CharBits
           M == AddressBits
           x == L * C
<1>1. C \in Nat \ {0} /\ L \in Nat /\ M \in Nat /\ M <= x /\ x < M + C /\ SpareBits = x - M /\ x \in Nat
  BY Widths, Lengths DEF SpareBits
<1>2. M > 0
  <2>1. PICK n \in Nat : n = KeyBytes + ChecksumBytes /\ 1 <= n
    BY Widths
  <2>2. 1 * ByteBits <= n * ByteBits /\ 1 * ByteBits = ByteBits /\ ByteBits > 0 /\ n * ByteBits = M
    BY <2>1, Widths, Lengths, Grows
  <2> HIDE DEF M
  <2> QED
    BY <1>1, <2>2, Widths
<1>3. L # 0
  <2> SUFFICES ASSUME L = 0 PROVE FALSE
    OBVIOUS
  <2>1. x = 0
    BY <1>1
  <2> QED
    BY <1>1, <1>2, <2>1
<1>4. PICK l \in Nat : l = L - 1 /\ L = l + 1
  BY <1>1, <1>3
<1>5. x = l * C + C /\ l * C \in Nat
  <2>1. (l + 1) * C = l * C + 1 * C /\ 1 * C = C /\ l * C \in Nat
    BY <1>1, Distributes
  <2> QED
    BY <1>4, <2>1
<1>6. ASSUME NEW k \in 1..(L - 1), NEW i \in 1..C PROVE (k - 1) * C + i <= M
  <2>1. (k - 1) * C + i \in 1..(l * C)
    BY <1>1, <1>4, BitPlace
  <2> HIDE DEF x, M
  <2> QED
    BY <1>1, <1>5, <2>1
<1> HIDE DEF x, M
<1>7. SpareBits \in 0..(C - 1) /\ l * C = M + SpareBits - C
  BY <1>1, <1>5
<1>8. \A i \in 1..(C - SpareBits) : l * C + i <= M
  BY <1>1, <1>7
<1>9. \A i \in (C - SpareBits + 1)..C : ~(l * C + i <= M)
  BY <1>1, <1>7
<1>10. L \in Nat \ {0} /\ \A i : (L - 1) * C + i = l * C + i
  BY <1>1, <1>3, <1>4
<1> QED
  BY <1>6, <1>7, <1>8, <1>9, <1>10 DEF M

\* What is typed is a sequence of characters.
LEMMA Typed == AddressSpec => [](address \in Seq(Char))
<1>1. AddressInit => address \in Seq(Char)
  BY EmptySeq DEF AddressInit
<1>2. address \in Seq(Char) /\ [AddressNext]_address => (address \in Seq(Char))'
  <2> SUFFICES ASSUME address \in Seq(Char), [AddressNext]_address PROVE address' \in Seq(Char)
    OBVIOUS
  <2>1. CASE AddressNext
    BY <2>1, AppendProperties DEF AddressNext
  <2>2. CASE UNCHANGED address
    BY <2>2
  <2> QED
    BY <2>1, <2>2
<1> QED
  BY <1>1, <1>2, PTL DEF AddressSpec

\* Every address is read as the key it was written from, and what else is read as one
\* differs from the way its key is written only in the bits of the last character that no
\* byte needs, whatever the widths are (src/algorand-address.js).
THEOREM Addresses == AddressSpec => []AddressesReadBack
<1>1. ASSUME address \in Seq(Char) PROVE AddressesReadBack
  <2>1. ASSUME IsAddress(address)
        PROVE  LET written == EncodeAlgorandAddress(PublicKeyOf(address))
               IN  /\ IsAddress(written) /\ PublicKeyOf(written) = PublicKeyOf(address)
                   /\ Front(written) = Front(address)
                   /\ \A bit \in 1..(CharBits - SpareBits) : Last(written)[bit] = Last(address)[bit]
    <3> DEFINE L == AddressLength
               written == EncodeAlgorandAddress(PublicKeyOf(address))
    <3>1. /\ written \in Seq(Char) /\ IsAddress(written) /\ PublicKeyOf(written) = PublicKeyOf(address)
          /\ Len(written) = L /\ Len(address) = L
          /\ \A k \in 1..L, i \in 1..CharBits :
               IF (k - 1) * CharBits + i <= AddressBits THEN written[k][i] = address[k][i]
               ELSE written[k][i] = 0
      BY <1>1, <2>1, SameBitsWritten
    <3>2. L \in Nat \ {0} /\ SpareBits \in 0..(CharBits - 1) /\ CharBits \in Nat \ {0}
      BY SpareBitsAre, Widths
    <3> HIDE DEF written
    <3>3. ASSUME NEW k \in 1..(L - 1) PROVE written[k] = address[k]
      <4>1. k \in 1..L
        BY <3>2
      <4>2. ASSUME NEW i \in 1..CharBits PROVE written[k][i] = address[k][i]
        BY <3>1, <4>1, SpareBitsAre
      <4>3. written[k] \in [1..CharBits -> Bit] /\ address[k] \in [1..CharBits -> Bit]
        BY <1>1, <3>1, <4>1, ElementOfSeq DEF Char
      <4>4. /\ written[k] = [i \in 1..CharBits |-> written[k][i]]
            /\ address[k] = [i \in 1..CharBits |-> address[k][i]]
        BY <4>3
      <4> QED
        BY <4>2, <4>4, Zenon
    <3>4. Front(written) = Front(address)
      <4> DEFINE n == L - 1
                 s == SubSeq(written, 1, n)
                 t == SubSeq(address, 1, n)
      <4>1. n \in Nat /\ 1 \in Nat /\ 1 <= 1 /\ 1 <= n + 1 /\ n <= Len(written) /\ n <= Len(address)
        BY <3>1, <3>2
      <4>2. Front(written) = s /\ Front(address) = t
        BY <3>1 DEF Front
      <4> HIDE DEF n
      <4>3. s \in Seq(Char) /\ Len(s) = n - 1 + 1 /\ t \in Seq(Char) /\ Len(t) = n - 1 + 1
        BY <1>1, <3>1, <4>1, Piece
      <4>4. \A i \in 1..(n - 1 + 1) : s[i] = written[1 + i - 1]
        BY <3>1, <4>1, Piece
      <4>5. \A i \in 1..(n - 1 + 1) : t[i] = address[1 + i - 1]
        BY <1>1, <4>1, Piece
      <4> HIDE DEF s, t
      <4>6. ASSUME NEW i \in 1..Len(s) PROVE s[i] = t[i]
        <5>1. i \in 1..(n - 1 + 1) /\ 1 + i - 1 \in 1..n
          BY <4>1, <4>3
        <5> QED
          BY <3>3, <4>4, <4>5, <5>1 DEF n
      <4>7. s = t
        BY <4>3, <4>6, SeqEqual
      <4> QED
        BY <4>2, <4>7
    <3>5. ASSUME NEW bit \in 1..(CharBits - SpareBits) PROVE Last(written)[bit] = Last(address)[bit]
      <4>1. bit \in 1..CharBits /\ L \in 1..L
        BY <3>2
      <4>2. (L - 1) * CharBits + bit <= AddressBits
        BY SpareBitsAre
      <4>3. written[L][bit] = address[L][bit]
        BY <3>1, <4>1, <4>2
      <4> QED
        BY <3>1, <4>3 DEF Last
    <3> QED
      BY <3>1, <3>4, <3>5 DEF written
  <2>2. ASSUME NEW key \in PublicKeys, EncodeAlgorandAddress(key) = address
        PROVE  IsAddress(address) /\ PublicKeyOf(address) = key
    BY <2>2, WrittenIs
  <2> QED
    BY <2>1, <2>2 DEF AddressesReadBack
<1> QED
  BY <1>1, Typed, PTL

\* A wallet is paid by transactions to the key it names, and can be if its last character
\* has no bits set that no byte needs (normalizeAlgorandAddress of src/algorand-address.js
\* and enforceAlgoPaymentToReceiver of src/transaction-policy.js).
THEOREM Wallets == AddressSpec => []WalletsArePayable
<1>1. ASSUME address \in Seq(Char) PROVE WalletsArePayable
  <2> SUFFICES ASSUME IsAddress(address)
               PROVE  /\ \A key \in PublicKeys : Pays(key, address) => key = PublicKeyOf(address)
                      /\ Pays(PublicKeyOf(address), address) <=>
                           \A bit \in (CharBits - SpareBits + 1)..CharBits : Last(address)[bit] = 0
    BY DEF WalletsArePayable
  <2> DEFINE L == AddressLength
             written == EncodeAlgorandAddress(PublicKeyOf(address))
  <2>1. ASSUME NEW key \in PublicKeys, Pays(key, address) PROVE key = PublicKeyOf(address)
    BY <2>1, WrittenIs DEF Pays, ReceiverWallet
  <2>2. Pays(PublicKeyOf(address), address) <=> written = address
    BY DEF Pays, ReceiverWallet
  <2>3. /\ written \in Seq(Char) /\ Len(written) = L /\ Len(address) = L
        /\ \A k \in 1..L, i \in 1..CharBits :
             IF (k - 1) * CharBits + i <= AddressBits THEN written[k][i] = address[k][i]
             ELSE written[k][i] = 0
    BY <1>1, SameBitsWritten
  <2>4. L \in Nat \ {0} /\ SpareBits \in 0..(CharBits - 1) /\ CharBits \in Nat \ {0} /\ L \in 1..L
    BY SpareBitsAre, Widths
  <2> HIDE DEF written
  <2>5. ASSUME NEW bit \in (CharBits - SpareBits + 1)..CharBits PROVE written[L][bit] = 0
    <3>1. bit \in 1..CharBits
      BY <2>4
    <3>2. ~((L - 1) * CharBits + bit <= AddressBits)
      BY SpareBitsAre
    <3> QED
      BY <2>3, <2>4, <3>1, <3>2
  <2>6. ASSUME written = address, NEW bit \in (CharBits - SpareBits + 1)..CharBits
        PROVE  Last(address)[bit] = 0
    BY <2>3, <2>5, <2>6 DEF Last
  <2>7. ASSUME \A bit \in (CharBits - SpareBits + 1)..CharBits : Last(address)[bit] = 0
        PROVE  written = address
    <3>1. ASSUME NEW k \in 1..L PROVE written[k] = address[k]
      <4>1. ASSUME NEW i \in 1..CharBits PROVE written[k][i] = address[k][i]
        <5>1. CASE (k - 1) * CharBits + i <= AddressBits
          BY <2>3, <5>1
        <5>2. CASE ~((k - 1) * CharBits + i <= AddressBits)
          <6>1. k = L
            <7>1. ~(k \in 1..(L - 1))
              BY <5>2, SpareBitsAre
            <7> QED
              BY <2>4, <7>1
          <6>2. ~(i \in 1..(CharBits - SpareBits))
            BY <5>2, <6>1, SpareBitsAre
          <6>3. i \in (CharBits - SpareBits + 1)..CharBits
            BY <2>4, <6>2
          <6>4. address[L][i] = 0
            BY <2>3, <2>7, <6>3 DEF Last
          <6> QED
            BY <2>5, <6>1, <6>3, <6>4
        <5> QED
          BY <5>1, <5>2
      <4>2. written[k] \in [1..CharBits -> Bit] /\ address[k] \in [1..CharBits -> Bit]
        BY <1>1, <2>3, ElementOfSeq DEF Char
      <4>3. /\ written[k] = [i \in 1..CharBits |-> written[k][i]]
            /\ address[k] = [i \in 1..CharBits |-> address[k][i]]
        BY <4>2
      <4> QED
        BY <4>1, <4>3, Zenon
    <3> QED
      BY <1>1, <2>3, <3>1, SeqEqual
  <2> QED
    BY <2>1, <2>2, <2>6, <2>7
<1> QED
  BY <1>1, Typed, PTL

-----------------------------------------------------------------------------
(* CanonicalJson: documents of any depth, over any keys and in any order.    *)

\* What the documents are made of.
LEMMA DocumentsAre ==
  ASSUME NEW d \in Documents
  PROVE  /\ Depth[d] \in Nat /\ d.kind \notin Punctuation /\ d = Json(d.kind, d.v)
         /\ d.kind = "array" => d.v \in Seq(Documents)
         /\ d.kind = "array" => \A i \in DOMAIN d.v : Depth[d.v[i]] < Depth[d]
         /\ d.kind = "object" => d.v \in Seq(Entries)
         /\ d.kind = "object" => \A i \in DOMAIN d.v : Depth[d.v[i].is] < Depth[d]
         /\ d.kind \notin {"array", "object"} => d.v = <<>>
BY DocumentsAssumption

\* The entries that are said.
LEMMA SaidIs ==
  ASSUME NEW d \in Documents, d.kind = "object"
  PROVE  /\ Said(d) \subseteq Nat /\ IsFiniteSet(Said(d)) /\ Cardinality(Said(d)) \in Nat
         /\ \A i \in Said(d) : /\ d.v[i] \in Entries /\ d.v[i].is \in Documents /\ d.v[i].key \in Keys
                               /\ Depth[d.v[i].is] < Depth[d] /\ Rank[d.v[i].key] \in Nat
<1>1. d.v \in Seq(Entries) /\ \A i \in DOMAIN d.v : Depth[d.v[i].is] < Depth[d]
  BY DocumentsAre
<1>2. Len(d.v) \in Nat /\ DOMAIN d.v = 1..Len(d.v) /\ \A i \in 1..Len(d.v) : d.v[i] \in Entries
  BY <1>1, LenProperties, ElementOfSeq
<1>3. Said(d) \subseteq 1..Len(d.v)
  BY <1>2 DEF Said
<1>4. IsFiniteSet(Said(d))
  <2>1. 1 \in Int /\ Len(d.v) \in Int
    BY <1>2
  <2>2. IsFiniteSet(1..Len(d.v))
    BY <2>1, FS_Interval
  <2> QED
    BY <1>3, <2>2, FS_Subset
<1>5. \A e \in Entries : e.is \in Documents /\ e.key \in Keys /\ Rank[e.key] \in Nat
  BY DocumentsAssumption DEF Entries
<1> QED
  BY <1>1, <1>2, <1>3, <1>4, <1>5, FS_CardinalityType

\* The entries that come before one.
Before(d, i) == {j \in Said(d) : Precedes(d.v, j, i)}

\* The order of the entries is strict and total.
LEMMA OrderIs ==
  ASSUME NEW d \in Documents, d.kind = "object", NEW i \in Said(d), NEW j \in Said(d)
  PROVE  /\ ~Precedes(d.v, i, i)
         /\ i # j => Precedes(d.v, i, j) \/ Precedes(d.v, j, i)
         /\ Precedes(d.v, i, j) => Before(d, i) \subseteq Before(d, j)
<1>1. \A k \in Said(d) : k \in Nat /\ Rank[d.v[k].key] \in Nat
  BY SaidIs
<1>2. ~Precedes(d.v, i, i)
  BY <1>1 DEF Precedes
<1>3. i # j => Precedes(d.v, i, j) \/ Precedes(d.v, j, i)
  BY <1>1 DEF Precedes
<1>4. ASSUME Precedes(d.v, i, j), NEW k \in Said(d), Precedes(d.v, k, i) PROVE Precedes(d.v, k, j)
  BY <1>1, <1>4 DEF Precedes
<1> QED
  BY <1>2, <1>3, <1>4 DEF Before

\* Every entry that is said has a position of its own.
LEMMA PositionsAre ==
  ASSUME NEW d \in Documents, d.kind = "object"
  PROVE  /\ \A i \in Said(d) : Position(d, i) \in 1..Cardinality(Said(d))
         /\ \A i, j \in Said(d) : Precedes(d.v, i, j) => Position(d, i) < Position(d, j)
         /\ \A n \in 1..Cardinality(Said(d)) : \E i \in Said(d) : Position(d, i) = n
<1> DEFINE S == Said(d)
           N == Cardinality(S)
<1>1. IsFiniteSet(S) /\ N \in Nat
  BY SaidIs
<1> HIDE DEF S
<1>2. \A i \in S : Before(d, i) \in SUBSET S /\ Position(d, i) = Cardinality(Before(d, i)) + 1
  BY DEF Before, Position, S
<1>3. \A i \in S : IsFiniteSet(Before(d, i)) /\ Cardinality(Before(d, i)) \in Nat
  BY <1>1, <1>2, FS_Subset, FS_CardinalityType
<1>4. ASSUME NEW i \in S PROVE Position(d, i) \in 1..N
  <2>1. i \notin Before(d, i)
    BY OrderIs DEF Before, S
  <2>2. Before(d, i) # S
    BY <2>1
  <2>3. Cardinality(Before(d, i)) <= N /\ Cardinality(Before(d, i)) # N
    BY <1>1, <1>2, <2>2, FS_Subset
  <2> HIDE DEF N
  <2> QED
    BY <1>1, <1>2, <1>3, <2>3
<1>5. ASSUME NEW i \in S, NEW j \in S, Precedes(d.v, i, j) PROVE Position(d, i) < Position(d, j)
  <2>1. Before(d, i) \in SUBSET Before(d, j)
    BY <1>5, OrderIs DEF S
  <2>2. i \notin Before(d, i) /\ i \in Before(d, j)
    BY <1>5, OrderIs DEF Before, S
  <2>3. /\ Cardinality(Before(d, i)) <= Cardinality(Before(d, j))
        /\ Cardinality(Before(d, j)) # Cardinality(Before(d, i))
    BY <1>3, <2>1, <2>2, FS_Subset
  <2> QED
    BY <1>2, <1>3, <2>3
<1>6. ASSUME NEW i \in S, NEW j \in S, i # j PROVE Position(d, i) # Position(d, j)
  <2>1. Precedes(d.v, i, j) \/ Precedes(d.v, j, i)
    BY <1>6, OrderIs DEF S
  <2>2. Position(d, i) < Position(d, j) \/ Position(d, j) < Position(d, i)
    BY <1>5, <2>1
  <2> HIDE DEF N
  <2>3. Position(d, i) \in Nat /\ Position(d, j) \in Nat
    BY <1>1, <1>4
  <2> QED
    BY <2>2, <2>3
<1> DEFINE f == [i \in S |-> Position(d, i)]
<1>7. f \in Injection(S, 1..N)
  <2> HIDE DEF N
  <2>1. f \in [S -> 1..N]
    BY <1>4
  <2>2. \A i, j \in S : f[i] = f[j] => i = j
    BY <1>6
  <2> HIDE DEF f
  <2> QED
    BY <2>1, <2>2 DEF Injection, IsInjective
<1>8. f \in Surjection(S, 1..N)
  <2>1. IsFiniteSet(1..N) /\ Cardinality(1..N) = N
    <3> HIDE DEF N
    <3>1. 1 \in Int /\ N \in Int /\ (1 > N => N = 0) /\ N - 1 + 1 = N
      BY <1>1
    <3> QED
      BY <3>1, FS_Interval
  <2> HIDE DEF f
  <2> QED
    BY <1>7, <2>1, FS_Injection
<1>9. ASSUME NEW n \in 1..N PROVE \E i \in S : Position(d, i) = n
  <2>1. \E i \in S : f[i] = n
    <3> HIDE DEF f
    <3> QED
      BY <1>8 DEF Surjection
  <2> QED
    BY <2>1
<1> QED
  BY <1>4, <1>5, <1>9 DEF S

\* Which entry is at a position.
At(d, n) == CHOOSE i \in Said(d) : Position(d, i) = n

\* What sorting does: it takes every entry once, smaller ranks first.
LEMMA SortedIs ==
  ASSUME NEW d \in Documents, d.kind = "object"
  PROVE  /\ SortedEntries(d) \in Seq(Entries) /\ Len(SortedEntries(d)) = Cardinality(Said(d))
         /\ \A n \in 1..Len(SortedEntries(d)) :
              At(d, n) \in Said(d) /\ SortedEntries(d)[n] = d.v[At(d, n)]
         /\ \A i \in Said(d) : \E n \in 1..Len(SortedEntries(d)) : At(d, n) = i
         /\ \A n, m \in 1..Len(SortedEntries(d)) : n < m => Precedes(d.v, At(d, n), At(d, m))
<1> DEFINE N == Cardinality(Said(d))
           s == SortedEntries(d)
<1>1. N \in Nat
  BY SaidIs
<1>2. s = [n \in 1..N |-> d.v[At(d, n)]]
  BY DEF SortedEntries, At
<1>3. \A n \in 1..N : At(d, n) \in Said(d) /\ Position(d, At(d, n)) = n
  BY PositionsAre DEF At
<1> HIDE DEF N
<1>4. \A n \in 1..N : d.v[At(d, n)] \in Entries
  BY <1>3, SaidIs
<1> HIDE DEF s
<1>5. s \in [1..N -> Entries]
  BY <1>2, <1>4
<1>6. s \in Seq(Entries) /\ Len(s) = N
  BY <1>1, <1>5
<1>7. \A i, j \in Said(d) : i # j => Position(d, i) # Position(d, j)
  <2> SUFFICES ASSUME NEW i \in Said(d), NEW j \in Said(d), i # j PROVE Position(d, i) # Position(d, j)
    OBVIOUS
  <2>1. Position(d, i) < Position(d, j) \/ Position(d, j) < Position(d, i)
    BY OrderIs, PositionsAre
  <2>2. Position(d, i) \in Nat /\ Position(d, j) \in Nat
    BY <1>1, PositionsAre
  <2> QED
    BY <2>1, <2>2
<1>8. ASSUME NEW i \in Said(d) PROVE \E n \in 1..N : At(d, n) = i
  <2>1. Position(d, i) \in 1..N
    BY PositionsAre DEF N
  <2>2. At(d, Position(d, i)) = i
    BY <1>3, <1>7, <2>1
  <2> QED
    BY <2>1, <2>2
<1>9. ASSUME NEW n \in 1..N, NEW m \in 1..N, n < m PROVE Precedes(d.v, At(d, n), At(d, m))
  <2>1. At(d, n) \in Said(d) /\ At(d, m) \in Said(d) /\ At(d, n) # At(d, m)
    BY <1>1, <1>3, <1>9
  <2>2. ~Precedes(d.v, At(d, m), At(d, n))
    <3> SUFFICES ASSUME Precedes(d.v, At(d, m), At(d, n)) PROVE FALSE
      OBVIOUS
    <3>1. m < n
      BY <1>3, <2>1, PositionsAre
    <3> QED
      BY <1>1, <1>9, <3>1
  <2> QED
    BY <2>1, <2>2, OrderIs
<1> QED
  BY <1>2, <1>3, <1>6, <1>8, <1>9 DEF s, N

\* What the text, the meaning and the keys of a document are made of.
TextOf(d, f) ==
  CASE d.kind = "array" ->
         <<"[">> \o Joined([i \in DOMAIN d.v |-> f[d.v[i]]]) \o <<"]">>
    [] d.kind = "object" ->
         <<"{">> \o Joined([n \in DOMAIN SortedEntries(d) |->
                      <<SortedEntries(d)[n].key, ":">> \o f[SortedEntries(d)[n].is]]) \o <<"}">>
    [] OTHER -> <<d.kind>>

MeaningOf(d, f) ==
  CASE d.kind = "array" -> <<"array", [i \in DOMAIN d.v |-> f[d.v[i]]]>>
    [] d.kind = "object" -> <<"object", {Entry(d.v[i].key, f[d.v[i].is]) : i \in Said(d)}>>
    [] OTHER -> <<d.kind>>

DifferOf(d, f) ==
  CASE d.kind = "array" -> \A i \in DOMAIN d.v : f[d.v[i]]
    [] d.kind = "object" -> \A i, j \in DOMAIN d.v :
         /\ i # j => Rank[d.v[i].key] # Rank[d.v[j].key]
         /\ f[d.v[i].is]
    [] OTHER -> TRUE

\* Two functions are one on the documents that a document may be made of.
SameBelow(f, g, d) == \A x \in Documents : Depth[x] < Depth[d] => f[x] = g[x]

\* They look at the parts of a document only.
LEMMA PartsMatter ==
  ASSUME NEW d \in Documents, NEW f, NEW g, SameBelow(f, g, d)
  PROVE  /\ TextOf(d, f) = TextOf(d, g)
         /\ MeaningOf(d, f) = MeaningOf(d, g)
         /\ DifferOf(d, f) = DifferOf(d, g)
<1>1. CASE d.kind = "array"
  <2>1. \A i \in DOMAIN d.v : d.v[i] \in Documents /\ Depth[d.v[i]] < Depth[d]
    BY <1>1, DocumentsAre, ElementOfSeq, LenProperties
  <2>2. \A i \in DOMAIN d.v : f[d.v[i]] = g[d.v[i]]
    BY <2>1 DEF SameBelow
  <2>3. [i \in DOMAIN d.v |-> f[d.v[i]]] = [i \in DOMAIN d.v |-> g[d.v[i]]]
    BY <2>2
  <2>4. TextOf(d, f) = TextOf(d, g)
    BY <1>1, <2>3 DEF TextOf
  <2>5. MeaningOf(d, f) = MeaningOf(d, g)
    BY <1>1, <2>3 DEF MeaningOf
  <2>6. DifferOf(d, f) = DifferOf(d, g)
    BY <1>1, <2>2 DEF DifferOf
  <2> QED
    BY <2>4, <2>5, <2>6
<1>2. CASE d.kind = "object"
  <2> DEFINE s == SortedEntries(d)
  <2>1. d.v \in Seq(Entries) /\ \A i \in DOMAIN d.v : Depth[d.v[i].is] < Depth[d]
    BY <1>2, DocumentsAre
  <2>2. \A e \in Entries : e.is \in Documents
    BY DEF Entries
  <2>3. \A i \in DOMAIN d.v : d.v[i].is \in Documents
    BY <2>1, <2>2, ElementOfSeq, LenProperties
  <2>4. \A i \in DOMAIN d.v : f[d.v[i].is] = g[d.v[i].is]
    BY <2>1, <2>3 DEF SameBelow
  <2>5. \A i \in Said(d) : f[d.v[i].is] = g[d.v[i].is]
    BY <2>4 DEF Said
  <2>6. DOMAIN s = 1..Len(s) /\ \A n \in 1..Len(s) : f[s[n].is] = g[s[n].is]
    BY <1>2, <2>5, SortedIs, LenProperties
  <2> HIDE DEF s
  <2>7. [n \in DOMAIN s |-> <<s[n].key, ":">> \o f[s[n].is]]
           = [n \in DOMAIN s |-> <<s[n].key, ":">> \o g[s[n].is]]
    BY <2>6
  <2>8. TextOf(d, f) = TextOf(d, g)
    BY <1>2, <2>7 DEF TextOf, s
  <2>9. {Entry(d.v[i].key, f[d.v[i].is]) : i \in Said(d)}
          = {Entry(d.v[i].key, g[d.v[i].is]) : i \in Said(d)}
    BY <2>5
  <2>10. MeaningOf(d, f) = MeaningOf(d, g)
    BY <1>2, <2>9 DEF MeaningOf
  <2>11. DifferOf(d, f) = DifferOf(d, g)
    BY <1>2, <2>4 DEF DifferOf
  <2> QED
    BY <2>8, <2>10, <2>11
<1>3. CASE d.kind \notin {"array", "object"}
  BY <1>3 DEF TextOf, MeaningOf, DifferOf
<1> QED
  BY <1>1, <1>2, <1>3

\* The three of them, for the documents that are less deep than n.
Shallow(n) == {d \in Documents : Depth[d] < n}
Column(h, k) == [d \in DOMAIN h |-> h[d][k]]
Aspects(d, h) ==
  <<TextOf(d, Column(h, 1)), MeaningOf(d, Column(h, 2)), DifferOf(d, Column(h, 3))>>
IsAspects(h, n) == DOMAIN h = Shallow(n) /\ \A d \in Shallow(n) : h[d] = Aspects(d, h)

\* They too look at the parts only.
LEMMA AspectsOfParts ==
  ASSUME NEW d \in Documents, NEW h, NEW g, SameBelow(h, g, d),
         Shallow(Depth[d]) \subseteq DOMAIN h, Shallow(Depth[d]) \subseteq DOMAIN g
  PROVE  Aspects(d, h) = Aspects(d, g)
<1>1. \A k : SameBelow(Column(h, k), Column(g, k), d)
  BY DEF SameBelow, Column, Shallow
<1> QED
  BY <1>1, PartsMatter DEF Aspects

\* By induction over the depth.
LEMMA AspectsExist ==
  ASSUME NEW n \in Nat
  PROVE  \E h : IsAspects(h, n)
<1> DEFINE S == {m \in Nat : \E h : IsAspects(h, m)}
<1>1. 0 \in S
  <2>1. Shallow(0) = {}
    BY DocumentsAre DEF Shallow
  <2> DEFINE h == [d \in {} |-> 0]
  <2>2. IsAspects(h, 0)
    BY <2>1 DEF IsAspects
  <2> QED
    BY <2>2
<1>2. ASSUME NEW k \in 0..(n - 1), k \in S PROVE k + 1 \in S
  <2>1. PICK h : IsAspects(h, k)
    BY <1>2
  <2> DEFINE g == [d \in Shallow(k + 1) |-> Aspects(d, h)]
  <2>2. \A d \in Shallow(k) : d \in Shallow(k + 1) /\ d \in Documents
    BY DocumentsAre DEF Shallow
  <2>3. \A d \in Shallow(k) : g[d] = h[d]
    BY <2>1, <2>2 DEF IsAspects
  <2>4. DOMAIN g = Shallow(k + 1) /\ \A d \in Shallow(k + 1) : g[d] = Aspects(d, h)
    OBVIOUS
  <2> HIDE DEF g
  <2>5. ASSUME NEW d \in Shallow(k + 1) PROVE g[d] = Aspects(d, g)
    <3>1. d \in Documents /\ Shallow(Depth[d]) \subseteq Shallow(k)
      BY DocumentsAre DEF Shallow
    <3>2. SameBelow(h, g, d)
      BY <2>3, <3>1 DEF SameBelow, Shallow
    <3>3. Shallow(Depth[d]) \subseteq DOMAIN h /\ Shallow(Depth[d]) \subseteq DOMAIN g
      BY <2>1, <2>2, <2>4, <3>1 DEF IsAspects
    <3> QED
      BY <2>4, <3>1, <3>2, <3>3, AspectsOfParts
  <2>6. IsAspects(g, k + 1)
    BY <2>4, <2>5 DEF IsAspects
  <2> QED
    BY <2>6
<1> HIDE DEF S
<1>3. \A k \in 0..(n - 1) : k \in S => k + 1 \in S
  BY <1>2
<1>4. n \in S
  BY <1>1, <1>3, UpTo
<1> QED
  BY <1>4 DEF S

\* Whichever depth they are defined to, they are the same.
LEMMA AspectsAgree ==
  ASSUME NEW n \in Nat, NEW m \in Nat, NEW h, IsAspects(h, n), NEW g, IsAspects(g, m),
         NEW d \in Shallow(n), d \in Shallow(m)
  PROVE  h[d] = g[d]
<1> DEFINE T == {Depth[x] : x \in {y \in Shallow(n) \intersect Shallow(m) : h[y] # g[y]}}
<1>1. T \in SUBSET Nat
  BY DocumentsAre DEF Shallow
<1>2. T = {}
  <2> SUFFICES ASSUME T # {} PROVE FALSE
    OBVIOUS
  <2>1. PICK i \in T : \A j \in T : i <= j
    <3> HIDE DEF T
    <3> QED
      BY <1>1, LeastElement
  <2>2. PICK x \in Shallow(n) \intersect Shallow(m) : h[x] # g[x] /\ i = Depth[x]
    BY <2>1
  <2>3. x \in Documents /\ Depth[x] \in Nat /\ Depth[x] < n /\ Depth[x] < m
    BY <2>2, DocumentsAre DEF Shallow
  <2>4. \A y \in Documents : Depth[y] < Depth[x] =>
          Depth[y] \in Nat /\ y \in Shallow(n) /\ y \in Shallow(m) /\ Depth[y] \notin T
    <3> HIDE DEF T
    <3> QED
      BY <1>1, <2>1, <2>2, <2>3, DocumentsAre DEF Shallow
  <2>5. SameBelow(h, g, x)
    BY <2>4 DEF SameBelow
  <2>6. Shallow(Depth[x]) \subseteq DOMAIN h /\ Shallow(Depth[x]) \subseteq DOMAIN g
    BY <2>4 DEF IsAspects, Shallow
  <2>7. Aspects(x, h) = Aspects(x, g)
    BY <2>3, <2>5, <2>6, AspectsOfParts
  <2> QED
    BY <2>2, <2>7 DEF IsAspects
<1> QED
  BY <1>2

\* One function for all documents.
AspectsTo(n) == CHOOSE h : IsAspects(h, n)
AllAspects == [d \in Documents |-> AspectsTo(Depth[d] + 1)[d]]

\* It is what the three say it is.
LEMMA AspectsAre ==
  \A d \in Documents : AllAspects[d] = Aspects(d, AllAspects)
<1> SUFFICES ASSUME NEW d \in Documents PROVE AllAspects[d] = Aspects(d, AllAspects)
  OBVIOUS
<1> DEFINE n == Depth[d] + 1
           h == AspectsTo(n)
<1>1. Depth[d] \in Nat /\ n \in Nat /\ d \in Shallow(n)
  BY DocumentsAre DEF Shallow
<1>2. \A m \in Nat : IsAspects(AspectsTo(m), m)
  BY AspectsExist DEF AspectsTo
<1>3. AllAspects[d] = h[d] /\ DOMAIN AllAspects = Documents
  BY DEF AllAspects
<1>4. h[d] = Aspects(d, h)
  BY <1>1, <1>2 DEF IsAspects
<1>5. ASSUME NEW x \in Documents, Depth[x] < Depth[d] PROVE h[x] = AllAspects[x]
  <2>1. Depth[x] \in Nat /\ Depth[x] + 1 \in Nat /\ x \in Shallow(Depth[x] + 1) /\ x \in Shallow(n)
    BY <1>1, <1>5, DocumentsAre DEF Shallow
  <2>2. AllAspects[x] = AspectsTo(Depth[x] + 1)[x]
    BY DEF AllAspects
  <2>3. IsAspects(AspectsTo(Depth[x] + 1), Depth[x] + 1) /\ IsAspects(h, n)
    BY <1>1, <1>2, <2>1
  <2> HIDE DEF h, n
  <2> QED
    BY <1>1, <2>1, <2>2, <2>3, AspectsAgree
<1>6. SameBelow(h, AllAspects, d)
  BY <1>5 DEF SameBelow
<1>7. Shallow(Depth[d]) \subseteq DOMAIN h /\ Shallow(Depth[d]) \subseteq DOMAIN AllAspects
  <2>1. DOMAIN h = Shallow(n)
    BY <1>1, <1>2 DEF IsAspects
  <2> HIDE DEF h
  <2>2. Shallow(Depth[d]) \subseteq Shallow(n) /\ Shallow(Depth[d]) \subseteq Documents
    BY <1>1, DocumentsAre DEF Shallow
  <2> QED
    BY <1>3, <2>1, <2>2
<1> HIDE DEF h
<1> QED
  BY <1>3, <1>4, <1>6, <1>7, AspectsOfParts

\* So the recursive definitions of the module define what they say.
LEMMA Recursion ==
  ASSUME NEW d \in Documents
  PROVE  /\ Canonicalize[d] = TextOf(d, Canonicalize)
         /\ Meaning[d] = MeaningOf(d, Meaning)
         /\ KeysDiffer[d] = DifferOf(d, KeysDiffer)
<1> DEFINE f(k) == Column(AllAspects, k)
<1>1. DOMAIN AllAspects = Documents
  BY DEF AllAspects
<1>2. ASSUME NEW x \in Documents
      PROVE  f(1)[x] = TextOf(x, f(1)) /\ f(2)[x] = MeaningOf(x, f(2)) /\ f(3)[x] = DifferOf(x, f(3))
  <2>1. \A k : f(k)[x] = AllAspects[x][k]
    BY <1>1 DEF Column
  <2>2. AllAspects[x] = Aspects(x, AllAspects)
    BY AspectsAre
  <2> HIDE DEF f
  <2>3. AllAspects[x] = <<TextOf(x, f(1)), MeaningOf(x, f(2)), DifferOf(x, f(3))>>
    BY <2>2 DEF Aspects, f
  <2> QED
    BY <2>1, <2>3
<1>3. \A k : f(k) = [x \in Documents |-> f(k)[x]]
  BY <1>1 DEF Column
<1> HIDE DEF f
<1>4. \E g : g = [x \in Documents |-> TextOf(x, g)]
  <2>1. f(1) = [x \in Documents |-> TextOf(x, f(1))]
    BY <1>2, <1>3
  <2> QED
    BY <2>1
<1>5. \E g : g = [x \in Documents |-> MeaningOf(x, g)]
  <2>1. f(2) = [x \in Documents |-> MeaningOf(x, f(2))]
    BY <1>2, <1>3
  <2> QED
    BY <2>1
<1>6. \E g : g = [x \in Documents |-> DifferOf(x, g)]
  <2>1. f(3) = [x \in Documents |-> DifferOf(x, f(3))]
    BY <1>2, <1>3
  <2> QED
    BY <2>1
<1>7. Canonicalize = CHOOSE g : g = [x \in Documents |-> TextOf(x, g)]
  BY DEF Canonicalize, TextOf
<1>8. Meaning = CHOOSE g : g = [x \in Documents |-> MeaningOf(x, g)]
  BY DEF Meaning, MeaningOf
<1>9. KeysDiffer = CHOOSE g : g = [x \in Documents |-> DifferOf(x, g)]
  BY DEF KeysDiffer, DifferOf
<1>10. Canonicalize = [x \in Documents |-> TextOf(x, Canonicalize)]
  BY <1>4, <1>7
<1>11. Meaning = [x \in Documents |-> MeaningOf(x, Meaning)]
  BY <1>5, <1>8
<1>12. KeysDiffer = [x \in Documents |-> DifferOf(x, KeysDiffer)]
  BY <1>6, <1>9
<1>13. Canonicalize[d] = TextOf(d, Canonicalize)
  BY <1>10
<1>14. Meaning[d] = MeaningOf(d, Meaning)
  BY <1>11
<1>15. KeysDiffer[d] = DifferOf(d, KeysDiffer)
  BY <1>12
<1> QED
  BY <1>13, <1>14, <1>15

\* The text of one token.
One(a) == <<a>>

\* A text that begins with a token.
LEMMA FirstToken ==
  ASSUME NEW W, NEW a \in W, NEW s \in Seq(W)
  PROVE  /\ One(a) \o s \in Seq(W) /\ Len(One(a) \o s) = 1 + Len(s) /\ (One(a) \o s)[1] = a
         /\ \A i \in 1..Len(s) : (One(a) \o s)[i + 1] = s[i]
<1> DEFINE p == One(a)
<1>1. p \in Seq(W) /\ Len(p) = 1 /\ p[1] = a
  BY DEF One
<1> HIDE DEF p
<1>2. /\ p \o s \in Seq(W) /\ Len(p \o s) = 1 + Len(s) /\ Len(s) \in Nat
      /\ \A i \in 1..(1 + Len(s)) : (p \o s)[i] = IF i <= 1 THEN p[i] ELSE s[i - 1]
  <2>1. /\ p \o s \in Seq(W) /\ Len(p \o s) = Len(p) + Len(s)
        /\ \A i \in 1..(Len(p) + Len(s)) :
             (p \o s)[i] = IF i <= Len(p) THEN p[i] ELSE s[i - Len(p)]
    BY <1>1, ConcatProperties
  <2>2. Len(s) \in Nat
    BY LenProperties
  <2> QED
    BY <1>1, <2>1, <2>2
<1>3. 1 \in 1..(1 + Len(s)) /\ \A i \in 1..Len(s) :
        i + 1 \in 1..(1 + Len(s)) /\ ~(i + 1 <= 1) /\ (i + 1) - 1 = i
  BY <1>2
<1>4. (p \o s)[1] = a /\ \A i \in 1..Len(s) : (p \o s)[i + 1] = s[i]
  BY <1>1, <1>2, <1>3
<1> QED
  BY <1>2, <1>4 DEF p

\* Texts that begin with a token differ behind it only if they differ.
LEMMA SameToken ==
  ASSUME NEW W, NEW a \in W, NEW b \in W, NEW s \in Seq(W), NEW t \in Seq(W),
         One(a) \o s = One(b) \o t
  PROVE  a = b /\ s = t
<1> DEFINE p == One(a) \o s
           q == One(b) \o t
<1>1. p = q
  OBVIOUS
<1>2. Len(p) = 1 + Len(s) /\ p[1] = a /\ \A i \in 1..Len(s) : p[i + 1] = s[i]
  BY FirstToken, SMTT(30)
<1>3. Len(q) = 1 + Len(t) /\ q[1] = b /\ \A i \in 1..Len(t) : q[i + 1] = t[i]
  BY FirstToken, SMTT(30)
<1> HIDE DEF p, q
<1>4. Len(s) \in Nat /\ Len(t) \in Nat
  BY LenProperties
<1>5. Len(s) = Len(t)
  BY <1>1, <1>2, <1>3, <1>4
<1>6. \A i \in 1..Len(s) : s[i] = t[i]
  BY <1>1, <1>2, <1>3, <1>5
<1> QED
  BY <1>1, <1>2, <1>3, <1>5, <1>6, SeqEqual

\* What follows a text does not change how it begins.
LEMMA SameBeginning ==
  ASSUME NEW W, NEW s \in Seq(W), s # <<>>, NEW t \in Seq(W)
  PROVE  s \o t \in Seq(W) /\ (s \o t)[1] = s[1] /\ s \o t # <<>>
<1>1. Len(s) \in Nat \ {0} /\ Len(t) \in Nat
  BY EmptySeq, LenProperties
<1>2. /\ s \o t \in Seq(W) /\ Len(s \o t) = Len(s) + Len(t)
      /\ \A i \in 1..(Len(s) + Len(t)) : (s \o t)[i] = IF i <= Len(s) THEN s[i] ELSE t[i - Len(s)]
  BY ConcatProperties
<1>3. 1 \in 1..(Len(s) + Len(t)) /\ 1 <= Len(s)
  BY <1>1
<1>4. (s \o t)[1] = s[1]
  BY <1>2, <1>3
<1> QED
  BY <1>1, <1>2, <1>4, EmptySeq

\* What is left of some texts after the first of them, and of what follows them.
Left(texts, m, tail) == FlattenSeq(SubSeq(texts, m + 1, Len(texts))) \o tail

AreLeft(texts, tail, W) ==
  /\ \A m \in 0..Len(texts) : Left(texts, m, tail) \in Seq(W)
  /\ \A m \in 0..(Len(texts) - 1) :
       texts[m + 1] \in Seq(W) /\ Left(texts, m, tail) = texts[m + 1] \o Left(texts, m + 1, tail)
  /\ Left(texts, 0, tail) = FlattenSeq(texts) \o tail
  /\ Left(texts, Len(texts), tail) = tail

\* What is left behind the first so many of a sequence, step by step.
LEMMA LeftIs ==
  ASSUME NEW W, NEW texts \in Seq(Seq(W)), NEW tail \in Seq(W)
  PROVE  AreLeft(texts, tail, W)
<1> DEFINE N == Len(texts)
<1>1. N \in Nat
  BY LenProperties
<1>2. \A s \in Seq(Seq(W)) : FlattenSeq(s) \in Seq(W)
  <2> SUFFICES ASSUME NEW s \in Seq(Seq(W)) PROVE FlattenSeq(s) \in Seq(W)
    OBVIOUS
  <2>1. PICK h : Flattens(h, s, W)
    BY FlattenSeqIs
  <2>2. Len(s) \in Nat
    BY LenProperties
  <2> QED
    BY <2>1, <2>2 DEF Flattens
<1>3. \A a \in Seq(W) : <<a>> \in Seq(Seq(W)) /\ FlattenSeq(<<a>>) = a
  <2> SUFFICES ASSUME NEW a \in Seq(W) PROVE <<a>> \in Seq(Seq(W)) /\ FlattenSeq(<<a>>) = a
    OBVIOUS
  <2>1. <<a>> \in Seq(Seq(W)) /\ Len(<<a>>) = 1 /\ <<a>>[1] = a
    OBVIOUS
  <2>2. PICK h : Flattens(h, <<a>>, W)
    BY <2>1, FlattenSeqIs
  <2>3. h[0] = <<>> /\ h[1] = h[1 - 1] \o a /\ FlattenSeq(<<a>>) = h[1]
    <3> DEFINE s == <<a>>
    <3>1. Len(s) = 1 /\ s[1] = a
      BY <2>1
    <3> HIDE DEF s
    <3>2. Flattens(h, s, W)
      BY <2>2 DEF s
    <3>3. h[0] = <<>> /\ h[1] = h[1 - 1] \o a /\ FlattenSeq(s) = h[1]
      BY <3>1, <3>2 DEF Flattens
    <3> QED
      BY <3>3 DEF s
  <2>4. <<>> \o a = a
    BY ConcatEmptySeq
  <2>5. h[1 - 1] = h[0]
    OBVIOUS
  <2> QED
    BY <2>1, <2>3, <2>4, <2>5
<1>4. <<>> \in Seq(Seq(W)) /\ FlattenSeq(<<>>) = <<>>
  <2>1. <<>> \in Seq(Seq(W)) /\ Len(<<>>) = 0
    BY EmptySeq
  <2>2. PICK h : Flattens(h, <<>>, W)
    BY <2>1, FlattenSeqIs
  <2> QED
    BY <2>1, <2>2 DEF Flattens
<1>5. \A m \in 0..N : SubSeq(texts, m + 1, N) \in Seq(Seq(W))
  <2> SUFFICES ASSUME NEW m \in 0..N PROVE SubSeq(texts, m + 1, N) \in Seq(Seq(W))
    OBVIOUS
  <2>1. \A i \in (m + 1)..N : texts[i] \in Seq(W)
    BY <1>1, ElementOfSeq
  <2>2. m + 1 \in Int /\ N \in Int
    BY <1>1
  <2> HIDE DEF N
  <2> QED
    BY <2>1, <2>2, SubSeqProperties
<1>6. \A m \in 0..N : Left(texts, m, tail) \in Seq(W)
  BY <1>2, <1>5, ConcatProperties DEF Left
<1>7. ASSUME NEW m \in 0..(N - 1)
      PROVE  texts[m + 1] \in Seq(W) /\ Left(texts, m, tail) = texts[m + 1] \o Left(texts, m + 1, tail)
  <2> DEFINE a == texts[m + 1]
             rest == SubSeq(texts, (m + 1) + 1, N)
  <2>1. m \in Nat /\ m + 1 \in 1..N /\ m + 1 \in 0..N /\ N \in (m + 1)..N
    BY <1>1
  <2>2. a \in Seq(W)
    BY <2>1, ElementOfSeq
  <2>3. rest \in Seq(Seq(W))
    BY <1>5, <2>1
  <2>4. SubSeq(texts, m + 1, N) = <<a>> \o rest
    BY <2>1, SubSeqRecursiveFirst
  <2> HIDE DEF a, rest, N
  <2>5. FlattenSeq(SubSeq(texts, m + 1, N)) = a \o FlattenSeq(rest)
    <3>1. <<a>> \in Seq(Seq(W)) /\ FlattenSeq(<<a>>) = a
      BY <1>3, <2>2, Zenon
    <3>2. FlattenSeq(<<a>> \o rest) = FlattenSeq(<<a>>) \o FlattenSeq(rest)
      BY <2>3, <3>1, FlattenSeqConcat, Zenon
    <3> QED
      BY <2>4, <3>1, <3>2, Zenon
  <2>6. FlattenSeq(rest) \in Seq(W)
    BY <1>2, <2>3
  <2>7. (a \o FlattenSeq(rest)) \o tail = a \o (FlattenSeq(rest) \o tail)
    BY <2>2, <2>6, ConcatAssociative, SMTT(30)
  <2> QED
    BY <2>2, <2>5, <2>7 DEF Left, a, rest, N
<1>8. Left(texts, 0, tail) = FlattenSeq(texts) \o tail
  <2>1. SubSeq(texts, 1, Len(texts)) = texts /\ 0 + 1 = 1
    BY SubSeqFull
  <2> QED
    BY <2>1, Zenon DEF Left
<1>9. Left(texts, N, tail) = tail
  <2>1. SubSeq(texts, N + 1, N) = <<>>
    <3>1. N + 1 \in Int /\ N \in Int /\ N < N + 1
      BY <1>1
    <3> HIDE DEF N
    <3> QED
      BY <3>1, SubSeqEmpty
  <2>2. <<>> \o tail = tail
    BY ConcatEmptySeq
  <2> QED
    BY <1>4, <2>1, <2>2 DEF Left
<1> QED
  BY <1>6, <1>7, <1>8, <1>9 DEF AreLeft

\* The texts with their separators, and all in one.
Separated(texts, comma) ==
  [i \in DOMAIN texts |-> IF i = 1 THEN texts[i] ELSE One(comma) \o texts[i]]
JoinedBy(texts, comma) == FlattenSeq(Separated(texts, comma))

AreSeparated(texts, comma, W) ==
  /\ Separated(texts, comma) \in Seq(Seq(W)) /\ Len(Separated(texts, comma)) = Len(texts)
  /\ \A i \in 1..Len(texts) :
       /\ texts[i] \in Seq(W)
       /\ Separated(texts, comma)[i] = IF i = 1 THEN texts[i] ELSE One(comma) \o texts[i]

\* Separating texts leaves their number, and each begins with a comma but the first.
LEMMA SeparatedAre ==
  ASSUME NEW W, NEW comma \in W, NEW texts \in Seq(Seq(W))
  PROVE  AreSeparated(texts, comma, W)
<1> DEFINE N == Len(texts)
           s == Separated(texts, comma)
<1>1. N \in Nat /\ DOMAIN texts = 1..N
  BY LenProperties
<1>2. \A i \in 1..N : texts[i] \in Seq(W)
  BY ElementOfSeq
<1>3. \A i \in 1..N : One(comma) \o texts[i] \in Seq(W)
  BY <1>2, FirstToken
<1>4. s = [i \in 1..N |-> IF i = 1 THEN texts[i] ELSE One(comma) \o texts[i]]
  BY <1>1 DEF Separated
<1> HIDE DEF N, s
<1>6. s \in [1..N -> Seq(W)]
  BY <1>2, <1>3, <1>4
<1>7. s \in Seq(Seq(W)) /\ Len(s) = N
  BY <1>1, <1>6
<1> QED
  BY <1>2, <1>4, <1>7 DEF N, s, AreSeparated

\* No text is the beginning of another.
Tells(a, b, W) == \A x, y \in Seq(W) : a \o x = b \o y => a = b /\ x = y
Telling(t, u, W) == \A i \in 1..Len(t), j \in 1..Len(u) : Tells(t[i], u[j], W)

\* Every text begins, and not with the token that closes them.
Begin(texts, close) == \A i \in 1..Len(texts) : texts[i] # <<>> /\ texts[i][1] # close

\* What is left of some texts with their separators, after each of them, when x follows.
IsLeft(left, texts, comma, close, x, W) ==
  /\ left \in [0..Len(texts) -> Seq(W)]
  /\ \A m \in 0..(Len(texts) - 1) :
       /\ texts[m + 1] \in Seq(W) /\ left[m][1] # close
       /\ m = 0 => left[m] = texts[m + 1] \o left[m + 1]
       /\ m # 0 => left[m] = One(comma) \o (texts[m + 1] \o left[m + 1])
  /\ left[0] = JoinedBy(texts, comma) \o (One(close) \o x)
  /\ left[Len(texts)] = One(close) \o x /\ left[Len(texts)][1] = close

\* The same of what is left of them.
LEMMA SeparatedLeft ==
  ASSUME NEW W, NEW comma \in W, NEW close \in W, close # comma, NEW texts \in Seq(Seq(W)),
         Begin(texts, close), NEW x \in Seq(W)
  PROVE  \E left : IsLeft(left, texts, comma, close, x, W)
<1> DEFINE s == Separated(texts, comma)
           N == Len(texts)
           tail == One(close) \o x
           l == [m \in 0..N |-> Left(s, m, tail)]
<1>1. N \in Nat /\ tail \in Seq(W) /\ tail[1] = close
  BY LenProperties, FirstToken
<1>2. AreSeparated(texts, comma, W)
  BY SeparatedAre
<1>3. /\ s \in Seq(Seq(W)) /\ Len(s) = N /\ JoinedBy(texts, comma) = FlattenSeq(s)
      /\ \A i \in 1..N : /\ texts[i] \in Seq(W)
                         /\ s[i] = IF i = 1 THEN texts[i] ELSE One(comma) \o texts[i]
  BY <1>2 DEF AreSeparated, JoinedBy
<1> HIDE DEF s, tail
<1>4. /\ \A m \in 0..N : Left(s, m, tail) \in Seq(W)
      /\ \A m \in 0..(N - 1) : s[m + 1] \in Seq(W) /\ Left(s, m, tail) = s[m + 1] \o Left(s, m + 1, tail)
      /\ Left(s, 0, tail) = FlattenSeq(s) \o tail
      /\ Left(s, N, tail) = tail
  <2>1. AreLeft(s, tail, W)
    BY <1>1, <1>3, LeftIs
  <2> QED
    BY <1>3, <2>1 DEF AreLeft
<1>5. ASSUME NEW m \in 0..(N - 1)
      PROVE  /\ texts[m + 1] \in Seq(W)
             /\ Left(s, m, tail)[1] # close
             /\ m = 0 => Left(s, m, tail) = texts[m + 1] \o Left(s, m + 1, tail)
             /\ m # 0 => Left(s, m, tail) = One(comma) \o (texts[m + 1] \o Left(s, m + 1, tail))
  <2> DEFINE a == texts[m + 1]
             rest == Left(s, m + 1, tail)
  <2>1. m \in Nat /\ m + 1 \in 1..N /\ m + 1 \in 0..N /\ (m + 1 = 1 <=> m = 0)
    BY <1>1
  <2>2. a \in Seq(W) /\ rest \in Seq(W) /\ a # <<>> /\ a[1] # close
    BY <1>3, <1>4, <2>1 DEF Begin
  <2>3. s[m + 1] = IF m = 0 THEN a ELSE One(comma) \o a
    BY <1>3, <2>1
  <2>4. Left(s, m, tail) = s[m + 1] \o rest
    BY <1>4
  <2> HIDE DEF a, rest
  <2>5. a \o rest \in Seq(W) /\ (a \o rest)[1] = a[1]
    BY <2>2, SameBeginning
  <2>6. CASE m = 0
    BY <2>2, <2>3, <2>4, <2>5, <2>6 DEF a, rest
  <2>7. CASE m # 0
    <3>1. One(comma) \in Seq(W)
      BY DEF One
    <3>2. (One(comma) \o a) \o rest = One(comma) \o (a \o rest)
      <4> DEFINE o == One(comma)
      <4>1. o \in Seq(W)
        BY <3>1
      <4> HIDE DEF o
      <4>2. (o \o a) \o rest = o \o (a \o rest)
        BY <2>2, <4>1, ConcatAssociative, SMTT(30)
      <4> QED
        BY <4>2 DEF o
    <3>3. (One(comma) \o (a \o rest))[1] = comma
      BY <2>5, FirstToken
    <3> QED
      BY <2>2, <2>3, <2>4, <2>7, <3>2, <3>3 DEF a, rest
  <2> QED
    BY <2>6, <2>7
<1>6. /\ \A m \in 0..N : l[m] = Left(s, m, tail)
      /\ 0 \in 0..N /\ N \in 0..N /\ \A m \in 0..(N - 1) : m \in 0..N /\ m + 1 \in 0..N
  BY <1>1
<1>7. l \in [0..N -> Seq(W)]
  BY <1>4
<1> HIDE DEF l, N
<1>8. l[0] = JoinedBy(texts, comma) \o tail /\ l[N] = tail
  BY <1>3, <1>4, <1>6
<1>9. IsLeft(l, texts, comma, close, x, W)
  BY <1>1, <1>5, <1>6, <1>7, <1>8 DEF IsLeft, N, tail
<1> QED
  BY <1>9

\* By induction, what is left after m texts is the same, and so are the first m.
LEMMA LeftTells ==
  ASSUME NEW W, NEW comma \in W, NEW close \in W, NEW x \in Seq(W), NEW y \in Seq(W),
         NEW t \in Seq(Seq(W)), NEW u \in Seq(Seq(W)), Telling(t, u, W),
         NEW lt, IsLeft(lt, t, comma, close, x, W), NEW lu, IsLeft(lu, u, comma, close, y, W),
         lt[0] = lu[0]
  PROVE  t = u /\ x = y
<1> DEFINE N == Len(t)
           M == Len(u)
           S == {m \in 0..N : m <= M /\ lt[m] = lu[m] /\ \A i \in 1..m : t[i] = u[i]}
<1>1. N \in Nat /\ M \in Nat
  BY LenProperties
<1>2. /\ lt \in [0..N -> Seq(W)]
      /\ \A m \in 0..(N - 1) :
           /\ t[m + 1] \in Seq(W) /\ lt[m][1] # close
           /\ m = 0 => lt[m] = t[m + 1] \o lt[m + 1]
           /\ m # 0 => lt[m] = One(comma) \o (t[m + 1] \o lt[m + 1])
      /\ lt[N] = One(close) \o x /\ lt[N][1] = close
  BY DEF IsLeft
<1>3. /\ lu \in [0..M -> Seq(W)]
      /\ \A m \in 0..(M - 1) :
           /\ u[m + 1] \in Seq(W) /\ lu[m][1] # close
           /\ m = 0 => lu[m] = u[m + 1] \o lu[m + 1]
           /\ m # 0 => lu[m] = One(comma) \o (u[m + 1] \o lu[m + 1])
      /\ lu[M] = One(close) \o y /\ lu[M][1] = close
  BY DEF IsLeft
<1>4. \A i \in 1..N, j \in 1..M : Tells(t[i], u[j], W)
  BY DEF Telling
<1> HIDE DEF N, M
<1>5. 0 \in S
  BY <1>1
<1>6. ASSUME NEW k \in 0..(N - 1), k \in S PROVE k + 1 \in S
  <2>1. /\ k \in Nat /\ k + 1 \in 0..N /\ k + 1 \in 1..N /\ lt[k] = lu[k] /\ k <= M
        /\ \A i \in 1..k : t[i] = u[i]
    BY <1>1, <1>6
  <2>2. k # M
    BY <1>2, <1>3, <2>1, ZenonT(40)
  <2>3. k \in 0..(M - 1) /\ k + 1 \in 1..M /\ k + 1 \in 0..M /\ k + 1 <= M
    BY <1>1, <2>1, <2>2
  <2> DEFINE a == t[k + 1]
             b == u[k + 1]
             p == lt[k + 1]
             q == lu[k + 1]
  <2>4. a \in Seq(W) /\ b \in Seq(W) /\ p \in Seq(W) /\ q \in Seq(W)
    BY <1>2, <1>3, <2>1, <2>3
  <2>5. /\ k = 0 => lt[k] = a \o p /\ lu[k] = b \o q
        /\ k # 0 => lt[k] = One(comma) \o (a \o p) /\ lu[k] = One(comma) \o (b \o q)
    BY <1>2, <1>3, <2>3
  <2>6. Tells(a, b, W)
    BY <1>4, <2>1, <2>3
  <2> HIDE DEF a, b, p, q
  <2>7. a \o p \in Seq(W) /\ b \o q \in Seq(W)
    BY <2>4, ConcatProperties
  <2>8. ASSUME One(comma) \o (a \o p) = One(comma) \o (b \o q) PROVE a \o p = b \o q
    <3> DEFINE r == a \o p
               v == b \o q
    <3>1. r \in Seq(W) /\ v \in Seq(W) /\ One(comma) \o r = One(comma) \o v
      BY <2>7, <2>8
    <3> HIDE DEF r, v
    <3>2. r = v
      BY <3>1, SameToken
    <3> QED
      BY <3>2 DEF r, v
  <2>9. a = b /\ p = q
    <3>1. a \o p = b \o q
      BY <2>1, <2>5, <2>8
    <3> QED
      BY <2>4, <2>6, <3>1 DEF Tells
  <2>10. ASSUME NEW i \in 1..(k + 1) PROVE t[i] = u[i]
    <3>1. i \in 1..k \/ i = k + 1
      BY <2>1
    <3> QED
      BY <2>1, <2>9, <3>1 DEF a, b
  <2> QED
    BY <2>1, <2>3, <2>9, <2>10 DEF p, q
<1>7. N \in S
  <2> HIDE DEF S
  <2>1. 0..N \subseteq S
    BY <1>1, <1>5, <1>6, UpTo
  <2> QED
    BY <1>1, <2>1
<1>8. N <= M /\ lt[N] = lu[N] /\ \A i \in 1..N : t[i] = u[i]
  BY <1>7
<1>9. N = M
  <2> SUFFICES ASSUME N # M PROVE FALSE
    OBVIOUS
  <2>1. N \in 0..(M - 1)
    BY <1>1, <1>8
  <2> QED
    BY <1>2, <1>3, <1>8, <2>1
<1>10. t = u
  BY <1>8, <1>9, SeqEqual DEF N, M
<1>11. One(close) \o x = One(close) \o y
  BY <1>2, <1>3, <1>8, <1>9
<1> QED
  BY <1>10, <1>11, SameToken

\* Texts that are joined and closed, and what follows.
Followed(texts, comma, close, x) == JoinedBy(texts, comma) \o (One(close) \o x)

\* They can be told from each other.
LEMMA JoinedTells ==
  ASSUME NEW W, NEW comma \in W, NEW close \in W, close # comma,
         NEW t \in Seq(Seq(W)), Begin(t, close), NEW u \in Seq(Seq(W)), Begin(u, close),
         Telling(t, u, W), NEW x \in Seq(W), NEW y \in Seq(W),
         Followed(t, comma, close, x) = Followed(u, comma, close, y)
  PROVE  t = u /\ x = y
<1>1. PICK lt : IsLeft(lt, t, comma, close, x, W)
  BY SeparatedLeft
<1>2. PICK lu : IsLeft(lu, u, comma, close, y, W)
  BY SeparatedLeft
<1>3. lt[0] = lu[0]
  BY <1>1, <1>2 DEF IsLeft, Followed
<1> QED
  BY <1>1, <1>2, <1>3, LeftTells

\* The tokens that are not keys or kinds, by name.
OpenArray == "["
CloseArray == "]"
OpenObject == "{"
CloseObject == "}"
Comma == ","
Colon == ":"

\* They differ where it matters.
LEMMA PunctuationIs ==
  /\ Punctuation = {OpenArray, CloseArray, OpenObject, CloseObject, Comma, Colon}
  /\ OpenArray # CloseArray /\ OpenArray # OpenObject /\ OpenArray # CloseObject
  /\ OpenObject # CloseArray /\ OpenObject # CloseObject
  /\ Comma # CloseArray /\ Comma # CloseObject
BY Zenon DEF Punctuation, OpenArray, CloseArray, OpenObject, CloseObject, Comma, Colon

\* The tokens of which texts are made.
JsonTokens == Punctuation \union Keys \union {d.kind : d \in Documents}
Text == Seq(JsonTokens)

\* A key with the text of its value.
Member(key, a) == <<key, Colon>> \o a

\* The texts of the parts of a document.
Items(d) == [i \in DOMAIN d.v |-> Canonicalize[d.v[i]]]
Sorted(d) ==
  [n \in DOMAIN SortedEntries(d) |->
     Member(SortedEntries(d)[n].key, Canonicalize[SortedEntries(d)[n].is])]

\* The text of a document, from the texts of its parts.
LEMMA TextIs ==
  ASSUME NEW d \in Documents
  PROVE  /\ d.kind = "array" =>
              Canonicalize[d] = (One(OpenArray) \o JoinedBy(Items(d), Comma)) \o One(CloseArray)
         /\ d.kind = "object" =>
              Canonicalize[d] = (One(OpenObject) \o JoinedBy(Sorted(d), Comma)) \o One(CloseObject)
         /\ d.kind \notin {"array", "object"} => Canonicalize[d] = One(d.kind)
<1>1. Canonicalize[d] = TextOf(d, Canonicalize)
  BY Recursion
<1>2. \A texts : JoinedBy(texts, Comma) = Joined(texts)
  BY Zenon DEF JoinedBy, Separated, Joined, Comma, One
<1>3. CASE d.kind = "array"
  <2>1. TextOf(d, Canonicalize) = One(OpenArray) \o Joined(Items(d)) \o One(CloseArray)
    BY <1>3, Zenon DEF TextOf, Items, OpenArray, CloseArray, One
  <2> QED
    BY <1>1, <1>2, <1>3, <2>1, Zenon
<1>4. CASE d.kind = "object"
  <2>1. d.kind # "array"
    BY <1>4
  <2>2. TextOf(d, Canonicalize) = One(OpenObject) \o Joined(Sorted(d)) \o One(CloseObject)
    BY <1>4, <2>1, Zenon DEF TextOf, Sorted, Member, OpenObject, CloseObject, Colon, One
  <2> QED
    BY <1>1, <1>2, <1>4, <2>1, <2>2, Zenon
<1>5. CASE d.kind \notin {"array", "object"}
  <2>1. d.kind # "array" /\ d.kind # "object"
    BY <1>5
  <2>2. TextOf(d, Canonicalize) = One(d.kind)
    BY <2>1, Zenon DEF TextOf, One
  <2> QED
    BY <1>1, <1>5, <2>1, <2>2, Zenon
<1> QED
  BY <1>3, <1>4, <1>5

\* What holds of a document when it holds of its parts holds of every document.
Inductive(S) ==
  \A d \in Documents : (\A x \in Documents : Depth[x] < Depth[d] => x \in S) => d \in S

\* Induction over the depth of a document.
LEMMA DepthInduction ==
  ASSUME NEW S, Inductive(S)
  PROVE  Documents \subseteq S
<1> DEFINE T == {Depth[d] : d \in Documents \ S}
<1>1. T \in SUBSET Nat
  BY DocumentsAre
<1>2. T = {}
  <2> SUFFICES ASSUME T # {} PROVE FALSE
    OBVIOUS
  <2>1. PICK i \in T : \A j \in T : i <= j
    <3> HIDE DEF T
    <3> QED
      BY <1>1, LeastElement
  <2>2. PICK d \in Documents \ S : i = Depth[d]
    BY <2>1
  <2>3. ASSUME NEW x \in Documents, Depth[x] < Depth[d] PROVE x \in S
    <3>1. Depth[x] \in Nat /\ Depth[d] \in Nat /\ (x \notin S => i <= Depth[x])
      BY <2>1, DocumentsAre
    <3> QED
      BY <2>2, <2>3, <3>1
  <2> QED
    BY <2>2, <2>3 DEF Inductive
<1> QED
  BY <1>2

\* Texts put together.
LEMMA TextsAssociate ==
  \A a, b, c \in Text : (a \o b) \o c = a \o (b \o c)
<1> SUFFICES ASSUME NEW a \in Seq(JsonTokens), NEW b \in Seq(JsonTokens), NEW c \in Seq(JsonTokens)
             PROVE  (a \o b) \o c = a \o (b \o c)
  BY DEF Text
<1> QED
  BY ConcatAssociative

\* A text behind a token.
Lead(a, s) == One(a) \o s

\* It tells the token and the text.
LEMMA SameTextToken ==
  \A a, b \in JsonTokens, s, t \in Text : Lead(a, s) = Lead(b, t) => a = b /\ s = t
<1> SUFFICES ASSUME NEW a \in JsonTokens, NEW b \in JsonTokens, NEW s \in Seq(JsonTokens),
                    NEW t \in Seq(JsonTokens), One(a) \o s = One(b) \o t
             PROVE  a = b /\ s = t
  BY DEF Text, Lead
<1> QED
  BY SameToken

\* Texts between brackets.
Bracketed(open, texts, close) == (One(open) \o JoinedBy(texts, Comma)) \o One(close)

\* Joined texts are a text.
LEMMA JoinedIs ==
  ASSUME NEW W, NEW comma \in W, NEW texts \in Seq(Seq(W))
  PROVE  JoinedBy(texts, comma) \in Seq(W)
<1> DEFINE s == Separated(texts, comma)
<1>1. AreSeparated(texts, comma, W)
  BY SeparatedAre
<1>2. s \in Seq(Seq(W)) /\ JoinedBy(texts, comma) = FlattenSeq(s)
  BY <1>1 DEF AreSeparated, JoinedBy
<1> HIDE DEF s
<1>3. PICK h : Flattens(h, s, W)
  BY <1>2, FlattenSeqIs
<1>4. Len(s) \in Nat
  BY <1>2, LenProperties
<1> QED
  BY <1>2, <1>3, <1>4 DEF Flattens

Opens(open, texts, close) ==
  \A x \in Text : Bracketed(open, texts, close) \o x
                     = One(open) \o (JoinedBy(texts, Comma) \o (One(close) \o x))

\* They are a text, which begins with the opening bracket.
LEMMA BracketedIs ==
  ASSUME NEW open \in JsonTokens, NEW close \in JsonTokens, NEW texts \in Seq(Text)
  PROVE  /\ Bracketed(open, texts, close) \in Text /\ Bracketed(open, texts, close) # <<>>
         /\ Bracketed(open, texts, close)[1] = open /\ JoinedBy(texts, Comma) \in Text
         /\ Opens(open, texts, close)
<1> DEFINE a == One(open)
           c == One(close)
           b == JoinedBy(texts, Comma)
<1>1. a \in Text /\ c \in Text /\ a # <<>> /\ a[1] = open
  BY DEF Text, One
<1>2. Comma \in JsonTokens /\ texts \in Seq(Seq(JsonTokens))
  BY PunctuationIs DEF JsonTokens, Text
<1>3. b \in Text
  BY <1>2, JoinedIs DEF Text
<1> HIDE DEF a, b, c
<1>4. a \o b \in Text /\ (a \o b)[1] = open /\ a \o b # <<>>
  BY <1>1, <1>3, SameBeginning DEF Text
<1>5. (a \o b) \o c \in Text /\ ((a \o b) \o c)[1] = open /\ (a \o b) \o c # <<>>
  BY <1>1, <1>4, SameBeginning DEF Text
<1>6. ASSUME NEW x \in Text PROVE ((a \o b) \o c) \o x = a \o (b \o (c \o x))
  <2>1. c \o x \in Text
    BY <1>1, ConcatProperties DEF Text
  <2>2. ((a \o b) \o c) \o x = (a \o b) \o (c \o x)
    BY <1>1, <1>4, TextsAssociate, Zenon
  <2>3. (a \o b) \o (c \o x) = a \o (b \o (c \o x))
    BY <1>1, <1>3, <2>1, TextsAssociate, ZenonT(40)
  <2> QED
    BY <2>2, <2>3
<1>7. Bracketed(open, texts, close) = (a \o b) \o c
  BY DEF Bracketed, a, b, c
<1>8. Opens(open, texts, close)
  BY <1>6, <1>7 DEF Opens, a, b, c
<1> QED
  BY <1>3, <1>5, <1>7, <1>8 DEF b

\* Texts between the same brackets tell each other apart if what is in them does.
LEMMA BracketedTells ==
  ASSUME NEW open \in JsonTokens, NEW close \in JsonTokens, close # Comma,
         NEW t \in Seq(Text), Begin(t, close), NEW u \in Seq(Text), Begin(u, close),
         Telling(t, u, JsonTokens)
  PROVE  /\ Tells(Bracketed(open, t, close), Bracketed(open, u, close), JsonTokens)
         /\ Bracketed(open, t, close) = Bracketed(open, u, close) => t = u
<1> DEFINE a == Bracketed(open, t, close)
           b == Bracketed(open, u, close)
<1>1. ASSUME NEW x \in Text, NEW y \in Text, a \o x = b \o y PROVE t = u /\ x = y
  <2> DEFINE p == JoinedBy(t, Comma) \o (One(close) \o x)
             q == JoinedBy(u, Comma) \o (One(close) \o y)
  <2>1. a \o x = One(open) \o p /\ b \o y = One(open) \o q
    <3>1. Opens(open, t, close) /\ Opens(open, u, close)
      BY BracketedIs
    <3> QED
      BY <3>1, Zenon DEF Opens
  <2>2. p \in Text /\ q \in Text
    <3>1. One(close) \o x \in Text /\ One(close) \o y \in Text
      BY FirstToken DEF Text
    <3>2. JoinedBy(t, Comma) \in Text /\ JoinedBy(u, Comma) \in Text
      BY BracketedIs
    <3> QED
      BY <3>1, <3>2, ConcatProperties DEF Text
  <2> HIDE DEF a, b
  <2>3. p = q
    <3> HIDE DEF p, q
    <3>1. One(open) \o p = One(open) \o q
      BY <1>1, <2>1
    <3>2. Lead(open, p) = Lead(open, q)
      BY <3>1 DEF Lead
    <3> QED
      BY <2>2, <3>2, SameTextToken
  <2>4. Comma \in JsonTokens
    BY PunctuationIs DEF JsonTokens
  <2>5. Followed(t, Comma, close, x) = Followed(u, Comma, close, y)
    BY <2>3 DEF Followed
  <2>6. t \in Seq(Seq(JsonTokens)) /\ u \in Seq(Seq(JsonTokens)) /\ x \in Seq(JsonTokens) /\ y \in Seq(JsonTokens)
    BY DEF Text
  <2> QED
    BY <2>4, <2>5, <2>6, JoinedTells
<1>2. Tells(a, b, JsonTokens)
  BY <1>1 DEF Tells, Text
<1>3. ASSUME a = b PROVE t = u
  <2>1. <<>> \in Text
    BY EmptySeq DEF Text
  <2>2. a \o <<>> = b \o <<>>
    BY <1>3
  <2> QED
    BY <1>1, <2>1, <2>2
<1> QED
  BY <1>2, <1>3

\* Texts that begin differently tell each other apart.
LEMMA OthersTell ==
  ASSUME NEW a \in Text, a # <<>>, NEW b \in Text, b # <<>>, a[1] # b[1]
  PROVE  Tells(a, b, JsonTokens)
<1>1. \A x, y \in Seq(JsonTokens) : (a \o x)[1] = a[1] /\ (b \o y)[1] = b[1]
  BY SameBeginning DEF Text
<1>2. \A x, y \in Seq(JsonTokens) : a \o x # b \o y
  BY <1>1
<1> QED
  BY <1>2 DEF Tells

\* A key with the text of its value.
LEMMA MemberIs ==
  ASSUME NEW key \in Keys, NEW a \in Text
  PROVE  /\ Member(key, a) \in Text /\ Member(key, a) # <<>> /\ Member(key, a)[1] = key
         /\ Member(key, a) = One(key) \o (One(Colon) \o a)
<1> DEFINE k == One(key)
           c == One(Colon)
           p == <<key, Colon>>
<1>1. key \in JsonTokens /\ Colon \in JsonTokens
  BY PunctuationIs DEF JsonTokens
<1>2. k \in Text /\ c \in Text /\ p \in Text /\ p # <<>> /\ p[1] = key /\ p = k \o c
  BY <1>1 DEF Text, One
<1> HIDE DEF k, c, p
<1>3. p \o a \in Text /\ p \o a # <<>> /\ (p \o a)[1] = key
  BY <1>2, SameBeginning DEF Text
<1>4. (k \o c) \o a = k \o (c \o a)
  BY <1>2, ConcatAssociative, SMTT(30) DEF Text
<1>5. Member(key, a) = p \o a
  BY DEF Member, p
<1> QED
  BY <1>2, <1>3, <1>4, <1>5 DEF k, c

\* It tells the key, and its value if the texts of values tell each other apart.
LEMMA MembersTell ==
  ASSUME NEW k \in Keys, NEW l \in Keys, NEW a \in Text, NEW b \in Text
  PROVE  /\ Tells(a, b, JsonTokens) => Tells(Member(k, a), Member(l, b), JsonTokens)
         /\ Member(k, a) = Member(l, b) => k = l /\ a = b
<1>1. k \in JsonTokens /\ l \in JsonTokens /\ Colon \in JsonTokens
  BY PunctuationIs DEF JsonTokens
<1>2. ASSUME NEW x \in Text, NEW key \in Keys, NEW t \in Text
      PROVE  /\ Member(key, t) \o x = One(key) \o (One(Colon) \o (t \o x))
             /\ t \o x \in Text /\ One(Colon) \o (t \o x) \in Text
  <2> DEFINE p == One(key)
             c == One(Colon)
  <2>1. p \in Text /\ c \in Text
    BY <1>1 DEF Text, JsonTokens, One
  <2>2. Member(key, t) = p \o (c \o t)
    BY MemberIs
  <2> HIDE DEF p, c
  <2>3. c \o t \in Text /\ t \o x \in Text
    BY <2>1, ConcatProperties DEF Text
  <2>4. (p \o (c \o t)) \o x = p \o ((c \o t) \o x)
    <3> DEFINE r == c \o t
    <3>1. r \in Text
      BY <2>3
    <3> HIDE DEF r
    <3>2. (p \o r) \o x = p \o (r \o x)
      BY <2>1, <3>1, TextsAssociate, SMTT(30)
    <3> QED
      BY <3>2 DEF r
  <2>5. (c \o t) \o x = c \o (t \o x) /\ c \o (t \o x) \in Text
    BY <2>1, <2>3, TextsAssociate, ConcatProperties, SMTT(30) DEF Text
  <2> QED
    BY <2>2, <2>3, <2>4, <2>5 DEF p, c
<1>3. ASSUME NEW x \in Text, NEW y \in Text, Member(k, a) \o x = Member(l, b) \o y
      PROVE  k = l /\ a \o x = b \o y
  <2> DEFINE p == a \o x
             q == b \o y
             v == One(Colon) \o p
             w == One(Colon) \o q
  <2>1. p \in Text /\ q \in Text /\ v \in Text /\ w \in Text /\ One(k) \o v = One(l) \o w
    BY <1>2, <1>3, ZenonT(40)
  <2> HIDE DEF v, w
  <2>2. Lead(k, v) = Lead(l, w)
    BY <2>1 DEF Lead
  <2>3. k = l /\ v = w
    BY <1>1, <2>1, <2>2, SameTextToken
  <2> HIDE DEF p, q
  <2>4. Lead(Colon, p) = Lead(Colon, q)
    BY <2>3 DEF v, w, Lead
  <2>5. p = q
    BY <1>1, <2>1, <2>4, SameTextToken
  <2> QED
    BY <2>3, <2>5 DEF p, q
<1>4. ASSUME Tells(a, b, JsonTokens) PROVE Tells(Member(k, a), Member(l, b), JsonTokens)
  <2> SUFFICES ASSUME NEW x \in Text, NEW y \in Text, Member(k, a) \o x = Member(l, b) \o y
               PROVE  Member(k, a) = Member(l, b) /\ x = y
    BY DEF Tells, Text
  <2>1. k = l /\ a = b /\ x = y
    BY <1>3, <1>4 DEF Tells, Text
  <2> QED
    BY <2>1
<1>5. ASSUME Member(k, a) = Member(l, b) PROVE k = l /\ a = b
  <2>1. <<>> \in Text /\ a \o <<>> = a /\ b \o <<>> = b
    BY EmptySeq, ConcatEmptySeq DEF Text
  <2>2. Member(k, a) \o <<>> = Member(l, b) \o <<>>
    BY <1>5
  <2> QED
    BY <1>3, <2>1, <2>2
<1> QED
  BY <1>4, <1>5

\* How the text of a document begins.
FirstOf(d) ==
  IF d.kind = "array" THEN OpenArray ELSE IF d.kind = "object" THEN OpenObject ELSE d.kind

\* What has been found of a document: its text is one, and begins as it should.
HasText(d) ==
  Canonicalize[d] \in Text /\ Canonicalize[d] # <<>> /\ Canonicalize[d][1] = FirstOf(d)

\* The texts of the items of an array.
LEMMA ItemsTexts ==
  ASSUME NEW d \in Documents, d.kind = "array",
         \A x \in Documents : Depth[x] < Depth[d] => HasText(x)
  PROVE  /\ Items(d) \in Seq(Text) /\ Len(Items(d)) = Len(d.v) /\ DOMAIN d.v = 1..Len(d.v)
         /\ \A i \in 1..Len(d.v) : /\ d.v[i] \in Documents /\ Depth[d.v[i]] < Depth[d]
                                   /\ Items(d)[i] = Canonicalize[d.v[i]]
         /\ Begin(Items(d), CloseArray)
<1> DEFINE N == Len(d.v)
           s == Items(d)
<1>1. d.v \in Seq(Documents) /\ \A i \in DOMAIN d.v : Depth[d.v[i]] < Depth[d]
  BY DocumentsAre
<1>2. N \in Nat /\ DOMAIN d.v = 1..N /\ \A i \in 1..N : d.v[i] \in Documents
  BY <1>1, LenProperties, ElementOfSeq
<1>3. s = [i \in 1..N |-> Canonicalize[d.v[i]]]
  BY <1>2 DEF Items
<1>4. \A i \in 1..N : HasText(d.v[i])
  BY <1>1, <1>2
<1>5. \A i \in 1..N : Canonicalize[d.v[i]] \in Text /\ Canonicalize[d.v[i]] # <<>>
                      /\ Canonicalize[d.v[i]][1] # CloseArray
  <2>1. \A x \in Documents : FirstOf(x) # CloseArray
    BY DocumentsAre, PunctuationIs DEF FirstOf
  <2> QED
    BY <1>2, <1>4, <2>1 DEF HasText
<1> HIDE DEF N, s
<1>6. s \in [1..N -> Text]
  BY <1>3, <1>5
<1>7. s \in Seq(Text) /\ Len(s) = N
  BY <1>2, <1>6
<1>8. Begin(s, CloseArray)
  BY <1>3, <1>5, <1>7 DEF Begin
<1> QED
  BY <1>1, <1>2, <1>3, <1>7, <1>8 DEF N, s

\* The texts of the entries of an object.
LEMMA SortedTexts ==
  ASSUME NEW d \in Documents, d.kind = "object",
         \A x \in Documents : Depth[x] < Depth[d] => HasText(x)
  PROVE  LET e == SortedEntries(d)
         IN  /\ Sorted(d) \in Seq(Text) /\ Len(Sorted(d)) = Len(e) /\ Len(e) \in Nat
             /\ \A n \in 1..Len(e) :
                  /\ e[n].is \in Documents /\ Depth[e[n].is] < Depth[d] /\ e[n].key \in Keys
                  /\ Canonicalize[e[n].is] \in Text
                  /\ Sorted(d)[n] = Member(e[n].key, Canonicalize[e[n].is])
             /\ Begin(Sorted(d), CloseObject)
<1> DEFINE e == SortedEntries(d)
           N == Len(e)
           s == Sorted(d)
<1>1. N \in Nat /\ DOMAIN e = 1..N
  BY SortedIs, LenProperties
<1>2. \A n \in 1..N : e[n].is \in Documents /\ Depth[e[n].is] < Depth[d] /\ e[n].key \in Keys
  BY SortedIs, SaidIs
<1>3. s = [n \in 1..N |-> Member(e[n].key, Canonicalize[e[n].is])]
  BY <1>1 DEF Sorted
<1> HIDE DEF e, N, s
<1>4. \A n \in 1..N : Canonicalize[e[n].is] \in Text
  BY <1>2 DEF HasText
<1>5. \A n \in 1..N : /\ Member(e[n].key, Canonicalize[e[n].is]) \in Text
                      /\ Member(e[n].key, Canonicalize[e[n].is]) # <<>>
                      /\ Member(e[n].key, Canonicalize[e[n].is])[1] # CloseObject
  <2>1. \A key \in Keys : key # CloseObject
    BY DocumentsAssumption, PunctuationIs
  <2> QED
    BY <1>2, <1>4, <2>1, MemberIs
<1>6. s \in [1..N -> Text]
  BY <1>3, <1>5
<1>7. s \in Seq(Text) /\ Len(s) = N
  BY <1>1, <1>6
<1>8. Begin(s, CloseObject)
  BY <1>3, <1>5, <1>7 DEF Begin
<1> QED
  BY <1>1, <1>2, <1>3, <1>4, <1>7, <1>8 DEF e, N, s

\* Every document has a text, by induction over its depth.
LEMMA TextsAre ==
  ASSUME NEW d \in Documents
  PROVE  HasText(d)
<1> DEFINE S == {x \in Documents : HasText(x)}
<1>1. ASSUME NEW x \in Documents, \A y \in Documents : Depth[y] < Depth[x] => y \in S
      PROVE  x \in S
  <2>1. \A y \in Documents : Depth[y] < Depth[x] => HasText(y)
    BY <1>1
  <2>2. CASE x.kind = "array"
    <3>1. Items(x) \in Seq(Text)
      BY <2>1, <2>2, ItemsTexts
    <3>2. Canonicalize[x] = Bracketed(OpenArray, Items(x), CloseArray)
      BY <2>2, TextIs DEF Bracketed
    <3>3. OpenArray \in JsonTokens /\ CloseArray \in JsonTokens
      BY PunctuationIs DEF JsonTokens
    <3>4. HasText(x)
      BY <2>2, <3>1, <3>2, <3>3, BracketedIs DEF HasText, FirstOf
    <3> QED
      BY <3>4
  <2>3. CASE x.kind = "object"
    <3>1. Sorted(x) \in Seq(Text)
      BY <2>1, <2>3, SortedTexts
    <3>2. Canonicalize[x] = Bracketed(OpenObject, Sorted(x), CloseObject)
      BY <2>3, TextIs DEF Bracketed
    <3>3. OpenObject \in JsonTokens /\ CloseObject \in JsonTokens
      BY PunctuationIs DEF JsonTokens
    <3>4. HasText(x)
      BY <2>3, <3>1, <3>2, <3>3, BracketedIs DEF HasText, FirstOf
    <3> QED
      BY <3>4
  <2>4. CASE x.kind \notin {"array", "object"}
    <3>1. Canonicalize[x] = One(x.kind) /\ x.kind \in JsonTokens
      BY <2>4, TextIs DEF JsonTokens
    <3>2. One(x.kind) \in Text /\ One(x.kind) # <<>> /\ One(x.kind)[1] = x.kind
      BY <3>1 DEF One, Text
    <3>3. HasText(x)
      BY <2>4, <3>1, <3>2 DEF HasText, FirstOf
    <3> QED
      BY <3>3
  <2> QED
    BY <2>2, <2>3, <2>4
<1> HIDE DEF S
<1>2. Inductive(S)
  BY <1>1 DEF Inductive
<1>3. Documents \subseteq S
  BY <1>2, DepthInduction
<1> QED
  BY <1>3 DEF S

\* The text of a document, whatever it is, between its brackets if it has any.
LEMMA Shapes ==
  ASSUME NEW d \in Documents
  PROVE  /\ HasText(d)
         /\ d.kind = "array" => /\ Canonicalize[d] = Bracketed(OpenArray, Items(d), CloseArray)
                                /\ Items(d) \in Seq(Text) /\ Begin(Items(d), CloseArray)
         /\ d.kind = "object" => /\ Canonicalize[d] = Bracketed(OpenObject, Sorted(d), CloseObject)
                                 /\ Sorted(d) \in Seq(Text) /\ Begin(Sorted(d), CloseObject)
         /\ d.kind \notin {"array", "object"} => Canonicalize[d] = One(d.kind) /\ d.kind \in JsonTokens
<1>1. \A x \in Documents : HasText(x)
  BY TextsAre
<1>2. d.kind = "array" => Items(d) \in Seq(Text) /\ Begin(Items(d), CloseArray)
  BY <1>1, ItemsTexts
<1>3. d.kind = "object" => Sorted(d) \in Seq(Text) /\ Begin(Sorted(d), CloseObject)
  BY <1>1, SortedTexts
<1> QED
  BY <1>1, <1>2, <1>3, TextIs DEF Bracketed, JsonTokens

\* No text is the beginning of another: by induction over the depth of the first.
LEMMA TextsTell ==
  ASSUME NEW d \in Documents, NEW e \in Documents
  PROVE  Tells(Canonicalize[d], Canonicalize[e], JsonTokens)
<1> DEFINE S == {x \in Documents : \A y \in Documents : Tells(Canonicalize[x], Canonicalize[y], JsonTokens)}
<1>1. ASSUME NEW x \in Documents, \A z \in Documents : Depth[z] < Depth[x] => z \in S,
             NEW y \in Documents
      PROVE  Tells(Canonicalize[x], Canonicalize[y], JsonTokens)
  <2>1. \A z, w \in Documents : Depth[z] < Depth[x] =>
          Tells(Canonicalize[z], Canonicalize[w], JsonTokens)
    BY <1>1
  <2> HIDE DEF S
  <2>2. \A z \in Documents : HasText(z)
    BY TextsAre
  <2>3. /\ OpenArray \in JsonTokens /\ CloseArray \in JsonTokens /\ CloseArray # Comma
        /\ OpenObject \in JsonTokens /\ CloseObject \in JsonTokens /\ CloseObject # Comma
    BY PunctuationIs DEF JsonTokens
  <2>4. CASE x.kind = "array" /\ y.kind = "array"
    <3>1. Telling(Items(x), Items(y), JsonTokens)
      <4>1. \A i \in 1..Len(Items(x)) : \E z \in Documents :
              Depth[z] < Depth[x] /\ Items(x)[i] = Canonicalize[z]
        BY <2>2, <2>4, ItemsTexts
      <4>2. \A j \in 1..Len(Items(y)) : \E w \in Documents : Items(y)[j] = Canonicalize[w]
        BY <2>2, <2>4, ItemsTexts
      <4>3. ASSUME NEW i \in 1..Len(Items(x)), NEW j \in 1..Len(Items(y))
            PROVE  Tells(Items(x)[i], Items(y)[j], JsonTokens)
        <5>1. PICK z \in Documents : Depth[z] < Depth[x] /\ Items(x)[i] = Canonicalize[z]
          BY <4>1
        <5>2. PICK w \in Documents : Items(y)[j] = Canonicalize[w]
          BY <4>2
        <5> QED
          BY <2>1, <5>1, <5>2
      <4> QED
        BY <4>3 DEF Telling
    <3>2. /\ Canonicalize[x] = Bracketed(OpenArray, Items(x), CloseArray)
          /\ Items(x) \in Seq(Text) /\ Begin(Items(x), CloseArray)
      BY <2>4, Shapes
    <3>3. /\ Canonicalize[y] = Bracketed(OpenArray, Items(y), CloseArray)
          /\ Items(y) \in Seq(Text) /\ Begin(Items(y), CloseArray)
      BY <2>4, Shapes
    <3> QED
      BY <2>3, <3>1, <3>2, <3>3, BracketedTells
  <2>5. CASE x.kind = "object" /\ y.kind = "object"
    <3>1. Telling(Sorted(x), Sorted(y), JsonTokens)
      <4>1. \A i \in 1..Len(Sorted(x)) : \E z \in Documents, k \in Keys :
              Depth[z] < Depth[x] /\ Sorted(x)[i] = Member(k, Canonicalize[z])
        <5> SUFFICES ASSUME NEW i \in 1..Len(Sorted(x))
                     PROVE  \E z \in Documents, k \in Keys :
                              Depth[z] < Depth[x] /\ Sorted(x)[i] = Member(k, Canonicalize[z])
          OBVIOUS
        <5> DEFINE z == SortedEntries(x)[i].is
                   k == SortedEntries(x)[i].key
        <5>1. /\ z \in Documents /\ Depth[z] < Depth[x] /\ k \in Keys
              /\ Sorted(x)[i] = Member(k, Canonicalize[z])
          BY <2>2, <2>5, SortedTexts
        <5> QED
          BY <5>1
      <4>2. \A j \in 1..Len(Sorted(y)) : \E w \in Documents, l \in Keys :
              Sorted(y)[j] = Member(l, Canonicalize[w])
        BY <2>2, <2>5, SortedTexts
      <4>3. ASSUME NEW i \in 1..Len(Sorted(x)), NEW j \in 1..Len(Sorted(y))
            PROVE  Tells(Sorted(x)[i], Sorted(y)[j], JsonTokens)
        <5>1. PICK z \in Documents, k \in Keys :
                Depth[z] < Depth[x] /\ Sorted(x)[i] = Member(k, Canonicalize[z])
          BY <4>1
        <5>2. PICK w \in Documents, l \in Keys : Sorted(y)[j] = Member(l, Canonicalize[w])
          BY <4>2
        <5>3. /\ Tells(Canonicalize[z], Canonicalize[w], JsonTokens)
              /\ Canonicalize[z] \in Text /\ Canonicalize[w] \in Text
          BY <2>1, <2>2, <5>1 DEF HasText
        <5> QED
          BY <5>1, <5>2, <5>3, MembersTell
      <4> QED
        BY <4>3 DEF Telling
    <3>2. /\ Canonicalize[x] = Bracketed(OpenObject, Sorted(x), CloseObject)
          /\ Sorted(x) \in Seq(Text) /\ Begin(Sorted(x), CloseObject)
      BY <2>5, Shapes
    <3>3. /\ Canonicalize[y] = Bracketed(OpenObject, Sorted(y), CloseObject)
          /\ Sorted(y) \in Seq(Text) /\ Begin(Sorted(y), CloseObject)
      BY <2>5, Shapes
    <3> QED
      BY <2>3, <3>1, <3>2, <3>3, BracketedTells
  <2>6. CASE x.kind \notin {"array", "object"} /\ y.kind \notin {"array", "object"}
    <3>1. /\ Canonicalize[x] = One(x.kind) /\ x.kind \in JsonTokens
          /\ Canonicalize[y] = One(y.kind) /\ y.kind \in JsonTokens
      BY <2>6, Shapes
    <3>2. ASSUME NEW s \in Text, NEW t \in Text, Canonicalize[x] \o s = Canonicalize[y] \o t
          PROVE  Canonicalize[x] = Canonicalize[y] /\ s = t
      <4>1. Lead(x.kind, s) = Lead(y.kind, t)
        BY <3>1, <3>2 DEF Lead
      <4>2. x.kind = y.kind /\ s = t
        BY <3>1, <4>1, SameTextToken
      <4> QED
        BY <3>1, <4>2
    <3> QED
      BY <3>2 DEF Tells, Text
  <2>7. CASE FirstOf(x) # FirstOf(y)
    BY <2>2, <2>7, OthersTell DEF HasText
  <2>8. /\ x.kind \notin Punctuation /\ y.kind \notin Punctuation
        /\ OpenArray \in Punctuation /\ OpenObject \in Punctuation /\ OpenArray # OpenObject
    BY DocumentsAre, PunctuationIs
  <2> QED
    BY <2>4, <2>5, <2>6, <2>7, <2>8 DEF FirstOf
<1>2. Inductive(S)
  BY <1>1 DEF Inductive
<1> HIDE DEF S
<1>3. Documents \subseteq S
  BY <1>2, DepthInduction
<1> QED
  BY <1>3 DEF S

\* Arrays and objects with one text have the same texts within.
LEMMA SameWithin ==
  ASSUME NEW d \in Documents, NEW e \in Documents, Canonicalize[d] = Canonicalize[e]
  PROVE  /\ d.kind = "array" => e.kind = "array" /\ Items(d) = Items(e)
         /\ d.kind = "object" => e.kind = "object" /\ Sorted(d) = Sorted(e)
         /\ d.kind \notin {"array", "object"} => d.kind = e.kind
<1>1. /\ FirstOf(d) = FirstOf(e) /\ d.kind \notin Punctuation /\ e.kind \notin Punctuation
      /\ OpenArray \in Punctuation /\ OpenObject \in Punctuation /\ OpenArray # OpenObject
  BY DocumentsAre, PunctuationIs, TextsAre DEF HasText
<1>2. /\ OpenArray \in JsonTokens /\ CloseArray \in JsonTokens /\ CloseArray # Comma
      /\ OpenObject \in JsonTokens /\ CloseObject \in JsonTokens /\ CloseObject # Comma
  BY PunctuationIs DEF JsonTokens
<1>3. \A x \in Documents : HasText(x)
  BY TextsAre
<1>4. CASE d.kind = "array"
  <2>1. e.kind = "array"
    BY <1>1, <1>4 DEF FirstOf
  <2>2. Telling(Items(d), Items(e), JsonTokens)
    <3>1. \A i \in 1..Len(Items(d)) : \E z \in Documents : Items(d)[i] = Canonicalize[z]
      BY <1>3, <1>4, ItemsTexts
    <3>2. \A j \in 1..Len(Items(e)) : \E w \in Documents : Items(e)[j] = Canonicalize[w]
      BY <1>3, <2>1, ItemsTexts
    <3> QED
      BY <3>1, <3>2, TextsTell DEF Telling
  <2>3. /\ Canonicalize[d] = Bracketed(OpenArray, Items(d), CloseArray)
        /\ Items(d) \in Seq(Text) /\ Begin(Items(d), CloseArray)
    BY <1>4, Shapes
  <2>4. /\ Canonicalize[e] = Bracketed(OpenArray, Items(e), CloseArray)
        /\ Items(e) \in Seq(Text) /\ Begin(Items(e), CloseArray)
    BY <2>1, Shapes
  <2>5. Items(d) = Items(e)
    BY <1>2, <2>2, <2>3, <2>4, BracketedTells
  <2> QED
    BY <1>4, <2>1, <2>5
<1>5. CASE d.kind = "object"
  <2>1. e.kind = "object"
    BY <1>1, <1>5 DEF FirstOf
  <2>2. Telling(Sorted(d), Sorted(e), JsonTokens)
    <3>1. \A i \in 1..Len(Sorted(d)) : \E z \in Documents, k \in Keys :
            Sorted(d)[i] = Member(k, Canonicalize[z]) /\ Canonicalize[z] \in Text
      BY <1>3, <1>5, SortedTexts
    <3>2. \A j \in 1..Len(Sorted(e)) : \E w \in Documents, l \in Keys :
            Sorted(e)[j] = Member(l, Canonicalize[w]) /\ Canonicalize[w] \in Text
      BY <1>3, <2>1, SortedTexts
    <3>3. ASSUME NEW i \in 1..Len(Sorted(d)), NEW j \in 1..Len(Sorted(e))
          PROVE  Tells(Sorted(d)[i], Sorted(e)[j], JsonTokens)
      <4>1. PICK z \in Documents, k \in Keys :
              Sorted(d)[i] = Member(k, Canonicalize[z]) /\ Canonicalize[z] \in Text
        BY <3>1
      <4>2. PICK w \in Documents, l \in Keys :
              Sorted(e)[j] = Member(l, Canonicalize[w]) /\ Canonicalize[w] \in Text
        BY <3>2
      <4> QED
        BY <4>1, <4>2, TextsTell, MembersTell
    <3> QED
      BY <3>3 DEF Telling
  <2>3. /\ Canonicalize[d] = Bracketed(OpenObject, Sorted(d), CloseObject)
        /\ Sorted(d) \in Seq(Text) /\ Begin(Sorted(d), CloseObject)
    BY <1>5, Shapes
  <2>4. /\ Canonicalize[e] = Bracketed(OpenObject, Sorted(e), CloseObject)
        /\ Sorted(e) \in Seq(Text) /\ Begin(Sorted(e), CloseObject)
    BY <2>1, Shapes
  <2>5. Sorted(d) = Sorted(e)
    BY <1>2, <2>2, <2>3, <2>4, BracketedTells
  <2> QED
    BY <1>5, <2>1, <2>5
<1>6. CASE d.kind \notin {"array", "object"}
  <2>1. e.kind \notin {"array", "object"} /\ d.kind = e.kind
    BY <1>1, <1>6 DEF FirstOf
  <2> QED
    BY <1>6, <2>1
<1> QED
  BY <1>4, <1>5, <1>6

\* What two documents say is compared part by part.
LEMMA MeaningIs ==
  ASSUME NEW d \in Documents
  PROVE  /\ d.kind = "array" => Meaning[d] = <<"array", [i \in DOMAIN d.v |-> Meaning[d.v[i]]]>>
         /\ d.kind = "object" =>
              Meaning[d] = <<"object", {Entry(d.v[i].key, Meaning[d.v[i].is]) : i \in Said(d)}>>
         /\ d.kind \notin {"array", "object"} => Meaning[d] = <<d.kind>>
<1>1. Meaning[d] = MeaningOf(d, Meaning)
  BY Recursion
<1>2. CASE d.kind = "array"
  BY <1>1, <1>2 DEF MeaningOf
<1>3. CASE d.kind = "object"
  BY <1>1, <1>3 DEF MeaningOf
<1>4. CASE d.kind \notin {"array", "object"}
  BY <1>1, <1>4 DEF MeaningOf
<1> QED
  BY <1>2, <1>3, <1>4

\* An entry at a place of the sorted ones, as it is said.
SaidAt(d, n) == Entry(SortedEntries(d)[n].key, Meaning[SortedEntries(d)[n].is])

\* What an object says is what its sorted entries say.
LEMMA SaidSorted ==
  ASSUME NEW d \in Documents, d.kind = "object"
  PROVE  Meaning[d] = <<"object", {SaidAt(d, n) : n \in 1..Len(SortedEntries(d))}>>
<1> DEFINE A == {Entry(d.v[i].key, Meaning[d.v[i].is]) : i \in Said(d)}
           B == {SaidAt(d, n) : n \in 1..Len(SortedEntries(d))}
<1>1. \A n \in 1..Len(SortedEntries(d)) :
        At(d, n) \in Said(d) /\ SortedEntries(d)[n] = d.v[At(d, n)]
  BY SortedIs
<1>2. \A i \in Said(d) : \E n \in 1..Len(SortedEntries(d)) : At(d, n) = i
  BY SortedIs
<1>3. B \subseteq A
  BY <1>1 DEF SaidAt
<1>4. A \subseteq B
  <2> SUFFICES ASSUME NEW i \in Said(d)
               PROVE  \E n \in 1..Len(SortedEntries(d)) :
                        Entry(d.v[i].key, Meaning[d.v[i].is]) = SaidAt(d, n)
    OBVIOUS
  <2>1. PICK n \in 1..Len(SortedEntries(d)) : At(d, n) = i
    BY <1>2
  <2> QED
    BY <1>1, <2>1 DEF SaidAt
<1> QED
  BY <1>3, <1>4, MeaningIs

\* Documents with one text say the same: by induction over the depth of the first.
LEMMA SameTextSaysTheSame ==
  ASSUME NEW d \in Documents, NEW e \in Documents, Canonicalize[d] = Canonicalize[e]
  PROVE  Meaning[d] = Meaning[e]
<1> DEFINE S == {x \in Documents :
                   \A y \in Documents : Canonicalize[x] = Canonicalize[y] => Meaning[x] = Meaning[y]}
<1>1. ASSUME NEW x \in Documents, \A z \in Documents : Depth[z] < Depth[x] => z \in S,
             NEW y \in Documents, Canonicalize[x] = Canonicalize[y]
      PROVE  Meaning[x] = Meaning[y]
  <2>1. \A z, w \in Documents :
          Depth[z] < Depth[x] /\ Canonicalize[z] = Canonicalize[w] => Meaning[z] = Meaning[w]
    BY <1>1
  <2> HIDE DEF S
  <2>2. \A z \in Documents : HasText(z)
    BY TextsAre
  <2>3. CASE x.kind = "array"
    <3>1. y.kind = "array" /\ Items(x) = Items(y)
      BY <1>1, <2>3, SameWithin
    <3>2. /\ Len(Items(x)) = Len(x.v) /\ DOMAIN x.v = 1..Len(x.v)
          /\ \A i \in 1..Len(x.v) : x.v[i] \in Documents /\ Depth[x.v[i]] < Depth[x]
                                    /\ Items(x)[i] = Canonicalize[x.v[i]]
      BY <2>2, <2>3, ItemsTexts
    <3>3. /\ Len(Items(y)) = Len(y.v) /\ DOMAIN y.v = 1..Len(y.v)
          /\ \A i \in 1..Len(y.v) : y.v[i] \in Documents /\ Items(y)[i] = Canonicalize[y.v[i]]
      BY <2>2, <3>1, ItemsTexts
    <3>4. DOMAIN x.v = DOMAIN y.v /\ \A i \in DOMAIN x.v : Meaning[x.v[i]] = Meaning[y.v[i]]
      BY <2>1, <3>1, <3>2, <3>3
    <3>5. [i \in DOMAIN x.v |-> Meaning[x.v[i]]] = [i \in DOMAIN y.v |-> Meaning[y.v[i]]]
      BY <3>4
    <3> QED
      BY <2>3, <3>1, <3>5, MeaningIs
  <2>4. CASE x.kind = "object"
    <3> DEFINE s == SortedEntries(x)
               t == SortedEntries(y)
    <3>1. y.kind = "object" /\ Sorted(x) = Sorted(y)
      BY <1>1, <2>4, SameWithin
    <3>2. /\ Len(Sorted(x)) = Len(s)
          /\ \A n \in 1..Len(s) :
               /\ s[n].is \in Documents /\ Depth[s[n].is] < Depth[x] /\ s[n].key \in Keys
               /\ Canonicalize[s[n].is] \in Text
               /\ Sorted(x)[n] = Member(s[n].key, Canonicalize[s[n].is])
      BY <2>2, <2>4, SortedTexts
    <3>3. /\ Len(Sorted(y)) = Len(t)
          /\ \A n \in 1..Len(t) :
               /\ t[n].is \in Documents /\ t[n].key \in Keys /\ Canonicalize[t[n].is] \in Text
               /\ Sorted(y)[n] = Member(t[n].key, Canonicalize[t[n].is])
      BY <2>2, <3>1, SortedTexts
    <3> HIDE DEF s, t
    <3>4. ASSUME NEW n \in 1..Len(s) PROVE s[n].key = t[n].key /\ Meaning[s[n].is] = Meaning[t[n].is]
      <4>1. n \in 1..Len(t)
        BY <3>1, <3>2, <3>3
      <4>2. Member(s[n].key, Canonicalize[s[n].is]) = Member(t[n].key, Canonicalize[t[n].is])
        BY <3>1, <3>2, <3>3, <4>1
      <4>3. s[n].key = t[n].key /\ Canonicalize[s[n].is] = Canonicalize[t[n].is]
        BY <3>2, <3>3, <4>1, <4>2, MembersTell
      <4> QED
        BY <2>1, <3>2, <3>3, <4>1, <4>3
    <3>5. Len(s) = Len(t) /\ \A n \in 1..Len(s) : SaidAt(x, n) = SaidAt(y, n)
      BY <3>1, <3>2, <3>3, <3>4 DEF SaidAt, s, t
    <3>6. {SaidAt(x, n) : n \in 1..Len(s)} = {SaidAt(y, n) : n \in 1..Len(t)}
      BY <3>5
    <3> QED
      BY <2>4, <3>1, <3>6, SaidSorted DEF s, t
  <2>5. CASE x.kind \notin {"array", "object"}
    BY <1>1, <2>5, SameWithin, MeaningIs, ZenonT(40)
  <2> QED
    BY <2>3, <2>4, <2>5
<1>2. Inductive(S)
  BY <1>1 DEF Inductive
<1> HIDE DEF S
<1>3. Documents \subseteq S
  BY <1>2, DepthInduction
<1> QED
  BY <1>3 DEF S

\* Ranks that rise, and ranks that are all found among others.
Rising(r, n) == \A i, j \in 1..n : r[i] \in Nat /\ (i < j => r[i] < r[j])
Found(r, n, q, m) == \A i \in 1..n : \E j \in 1..m : r[i] = q[j]
Alike(r, q, k) == \A i \in 1..k : r[i] = q[i]

\* Two rising sequences of the same ranks that agree so far agree on the next one.
LEMMA NextRank ==
  ASSUME NEW n \in Nat, NEW m \in Nat, NEW r, NEW q, Rising(r, n), Rising(q, m),
         Found(r, n, q, m), Found(q, m, r, n),
         NEW k \in 0..(n - 1), k <= m, Alike(r, q, k)
  PROVE  k + 1 <= m /\ r[k + 1] = q[k + 1]
<1>1. k + 1 \in 1..n /\ \A i \in 1..k : i \in 1..n /\ i \in 1..m /\ i < k + 1
  OBVIOUS
<1>2. PICK j \in 1..m : r[k + 1] = q[j]
  BY <1>1 DEF Found
<1>3. j \notin 1..k
  <2> SUFFICES ASSUME j \in 1..k PROVE FALSE
    OBVIOUS
  <2>1. r[j] = q[j] /\ r[j] < r[k + 1] /\ r[j] \in Nat
    BY <1>1 DEF Rising, Alike
  <2> QED
    BY <1>2, <2>1
<1>4. k + 1 <= j /\ k + 1 \in 1..m
  BY <1>3
<1>5. PICK i \in 1..n : q[k + 1] = r[i]
  BY <1>4 DEF Found
<1>6. i \notin 1..k
  <2> SUFFICES ASSUME i \in 1..k PROVE FALSE
    OBVIOUS
  <2>1. r[i] = q[i] /\ q[i] < q[k + 1] /\ q[i] \in Nat
    BY <1>1, <1>4 DEF Rising, Alike
  <2> QED
    BY <1>5, <2>1
<1>7. k + 1 <= i
  BY <1>6
<1>8. r[k + 1] <= r[i] /\ r[k + 1] \in Nat
  BY <1>1, <1>7 DEF Rising
<1>9. q[k + 1] <= q[j] /\ q[k + 1] \in Nat
  BY <1>4 DEF Rising
<1> QED
  BY <1>2, <1>4, <1>5, <1>8, <1>9

\* So they agree on all.
LEMMA SameRanks ==
  ASSUME NEW n \in Nat, NEW m \in Nat, NEW r, NEW q, Rising(r, n), Rising(q, m),
         Found(r, n, q, m), Found(q, m, r, n)
  PROVE  n <= m /\ Alike(r, q, n)
<1> DEFINE S == {k \in 0..n : k <= m /\ Alike(r, q, k)}
<1>1. 0 \in S
  BY DEF Alike
<1>2. ASSUME NEW k \in 0..(n - 1), k \in S PROVE k + 1 \in S
  <2>1. k <= m /\ Alike(r, q, k)
    BY <1>2
  <2>2. k + 1 <= m /\ r[k + 1] = q[k + 1]
    BY <2>1, NextRank
  <2>3. Alike(r, q, k + 1)
    BY <2>1, <2>2 DEF Alike
  <2> QED
    BY <2>2, <2>3
<1> HIDE DEF S
<1>3. n \in S
  BY <1>1, <1>2, UpTo
<1> QED
  BY <1>3 DEF S

\* The ranks of the sorted entries.
Ranks(d) == [n \in 1..Len(SortedEntries(d)) |-> Rank[SortedEntries(d)[n].key]]

\* What documents whose keys differ are made of.
LEMMA DifferIs ==
  ASSUME NEW d \in Documents, KeysDiffer[d]
  PROVE  /\ d.kind = "array" => \A i \in DOMAIN d.v : KeysDiffer[d.v[i]]
         /\ d.kind = "object" => /\ \A i, j \in DOMAIN d.v : i # j => Rank[d.v[i].key] # Rank[d.v[j].key]
                                 /\ \A i \in DOMAIN d.v : KeysDiffer[d.v[i].is]
<1>1. DifferOf(d, KeysDiffer)
  BY Recursion
<1>2. CASE d.kind = "array"
  BY <1>1, <1>2 DEF DifferOf
<1>3. CASE d.kind = "object"
  BY <1>1, <1>3 DEF DifferOf
<1> QED
  BY <1>2, <1>3

\* Where keys differ, sorting leaves no choice: the ranks rise.
LEMMA RanksRise ==
  ASSUME NEW d \in Documents, d.kind = "object", KeysDiffer[d]
  PROVE  /\ Rising(Ranks(d), Len(SortedEntries(d))) /\ Len(SortedEntries(d)) \in Nat
         /\ \A n \in 1..Len(SortedEntries(d)) : KeysDiffer[SortedEntries(d)[n].is]
<1> DEFINE s == SortedEntries(d)
           N == Len(s)
<1>1. N \in Nat /\ \A n \in 1..N : At(d, n) \in Said(d) /\ s[n] = d.v[At(d, n)]
  BY SortedIs, LenProperties
<1>2. \A n, m \in 1..N : n < m => Precedes(d.v, At(d, n), At(d, m))
  BY SortedIs
<1>3. \A i \in Said(d) : i \in DOMAIN d.v /\ i \in Nat /\ Rank[d.v[i].key] \in Nat
  BY SaidIs DEF Said
<1>4. \A i, j \in DOMAIN d.v : i # j => Rank[d.v[i].key] # Rank[d.v[j].key]
  BY DifferIs
<1>5. ASSUME NEW i \in Said(d), NEW j \in Said(d), Precedes(d.v, i, j)
      PROVE  Rank[d.v[i].key] < Rank[d.v[j].key]
  BY <1>3, <1>4, <1>5 DEF Precedes
<1>6. \A n \in 1..N : KeysDiffer[s[n].is]
  BY <1>1, <1>3, DifferIs
<1> HIDE DEF s, N
<1>7. ASSUME NEW n \in 1..N PROVE Rank[s[n].key] \in Nat
  BY <1>1, <1>3
<1>8. ASSUME NEW n \in 1..N, NEW m \in 1..N, n < m PROVE Rank[s[n].key] < Rank[s[m].key]
  <2>1. /\ At(d, n) \in Said(d) /\ s[n] = d.v[At(d, n)]
        /\ At(d, m) \in Said(d) /\ s[m] = d.v[At(d, m)]
    BY <1>1
  <2>2. Precedes(d.v, At(d, n), At(d, m))
    BY <1>2, <1>8
  <2> QED
    BY <1>5, <2>1, <2>2
<1>9. Ranks(d) = [n \in 1..N |-> Rank[s[n].key]]
  BY DEF Ranks, s, N
<1>10. Rising(Ranks(d), N)
  BY <1>7, <1>8, <1>9 DEF Rising
<1> QED
  BY <1>1, <1>6, <1>10 DEF s, N

\* The second of a pair.
LEMMA SameSecond ==
  ASSUME NEW p, NEW a, NEW q, NEW b, <<p, a>> = <<q, b>>
  PROVE  a = b
OBVIOUS

\* Each entry of an object is said by the other.
LEMMA EntriesFound ==
  ASSUME NEW d \in Documents, d.kind = "object", NEW e \in Documents, e.kind = "object",
         Meaning[d] = Meaning[e], NEW n \in 1..Len(SortedEntries(d))
  PROVE  \E m \in 1..Len(SortedEntries(e)) :
           /\ SortedEntries(d)[n].key = SortedEntries(e)[m].key
           /\ Meaning[SortedEntries(d)[n].is] = Meaning[SortedEntries(e)[m].is]
<1> DEFINE A == {SaidAt(d, i) : i \in 1..Len(SortedEntries(d))}
           B == {SaidAt(e, i) : i \in 1..Len(SortedEntries(e))}
<1>1. Meaning[d] = <<"object", A>> /\ Meaning[e] = <<"object", B>>
  BY SaidSorted
<1>2. SaidAt(d, n) \in A
  OBVIOUS
<1> HIDE DEF A, B
<1>3. A = B
  BY <1>1, SameSecond
<1>4. SaidAt(d, n) \in B
  BY <1>2, <1>3
<1>5. PICK m \in 1..Len(SortedEntries(e)) : SaidAt(d, n) = SaidAt(e, m)
  BY <1>4 DEF B
<1>6. \A k, l, x, y : Entry(k, x) = Entry(l, y) => k = l /\ x = y
  BY DEF Entry
<1> QED
  BY <1>5, <1>6 DEF SaidAt

\* Objects that say the same, and whose keys differ, are sorted alike.
LEMMA SortedAlike ==
  ASSUME NEW d \in Documents, d.kind = "object", KeysDiffer[d],
         NEW e \in Documents, e.kind = "object", KeysDiffer[e], Meaning[d] = Meaning[e]
  PROVE  /\ Len(SortedEntries(d)) = Len(SortedEntries(e))
         /\ \A n \in 1..Len(SortedEntries(d)) :
              /\ SortedEntries(d)[n].key = SortedEntries(e)[n].key
              /\ Meaning[SortedEntries(d)[n].is] = Meaning[SortedEntries(e)[n].is]
<1> DEFINE s == SortedEntries(d)
           t == SortedEntries(e)
           N == Len(s)
           M == Len(t)
<1>1. N \in Nat /\ M \in Nat /\ Rising(Ranks(d), N) /\ Rising(Ranks(e), M)
  BY RanksRise
<1>2. \A n \in 1..N : \E m \in 1..M : s[n].key = t[m].key /\ Meaning[s[n].is] = Meaning[t[m].is]
  BY EntriesFound
<1>3. \A n \in 1..M : \E m \in 1..N : t[n].key = s[m].key /\ Meaning[t[n].is] = Meaning[s[m].is]
  BY EntriesFound
<1>4. /\ \A n \in 1..N : Ranks(d)[n] = Rank[s[n].key]
      /\ \A n \in 1..M : Ranks(e)[n] = Rank[t[n].key]
  BY DEF Ranks
<1> HIDE DEF s, t, N, M
<1>5. Found(Ranks(d), N, Ranks(e), M) /\ Found(Ranks(e), M, Ranks(d), N)
  BY <1>2, <1>3, <1>4 DEF Found
<1>6. N <= M /\ M <= N /\ Alike(Ranks(d), Ranks(e), N)
  BY <1>1, <1>5, SameRanks
<1>7. N = M
  BY <1>1, <1>6
<1>8. ASSUME NEW n \in 1..N PROVE s[n].key = t[n].key /\ Meaning[s[n].is] = Meaning[t[n].is]
  <2>1. PICK m \in 1..M : s[n].key = t[m].key /\ Meaning[s[n].is] = Meaning[t[m].is]
    BY <1>2
  <2>2. Ranks(e)[n] = Ranks(e)[m] /\ n \in 1..M
    BY <1>4, <1>6, <1>7, <2>1 DEF Alike
  <2>3. n = m
    BY <1>1, <2>2 DEF Rising
  <2> QED
    BY <2>1, <2>3
<1> QED
  BY <1>7, <1>8 DEF s, t, N, M

\* Documents that say the same are of the same kind.
LEMMA SameMeaningSameKind ==
  ASSUME NEW d \in Documents, NEW e \in Documents, Meaning[d] = Meaning[e]
  PROVE  d.kind = e.kind
<1> DEFINE F(x) == [i \in DOMAIN x.v |-> Meaning[x.v[i]]]
           G(x) == {Entry(x.v[i].key, Meaning[x.v[i].is]) : i \in Said(x)}
<1>1. \A x \in Documents :
        /\ x.kind = "array" => Meaning[x] = <<"array", F(x)>>
        /\ x.kind = "object" => Meaning[x] = <<"object", G(x)>>
        /\ x.kind \notin {"array", "object"} => Meaning[x] = <<x.kind>>
  BY MeaningIs
<1> HIDE DEF F, G
<1> QED
  BY <1>1

\* Documents that say the same have one text, if their keys differ: by induction again.
LEMMA SameMeaningSameText ==
  ASSUME NEW d \in Documents, KeysDiffer[d], NEW e \in Documents, KeysDiffer[e],
         Meaning[d] = Meaning[e]
  PROVE  Canonicalize[d] = Canonicalize[e]
<1> DEFINE S == {x \in Documents : \A y \in Documents :
                   KeysDiffer[x] /\ KeysDiffer[y] /\ Meaning[x] = Meaning[y]
                     => Canonicalize[x] = Canonicalize[y]}
<1>1. ASSUME NEW x \in Documents, \A z \in Documents : Depth[z] < Depth[x] => z \in S,
             NEW y \in Documents, KeysDiffer[x], KeysDiffer[y], Meaning[x] = Meaning[y]
      PROVE  Canonicalize[x] = Canonicalize[y]
  <2>1. \A z, w \in Documents :
          Depth[z] < Depth[x] /\ KeysDiffer[z] /\ KeysDiffer[w] /\ Meaning[z] = Meaning[w]
            => Canonicalize[z] = Canonicalize[w]
    BY <1>1
  <2> HIDE DEF S
  <2>2. \A z \in Documents : HasText(z)
    BY TextsAre
  <2>3. x.kind = y.kind
    BY <1>1, SameMeaningSameKind
  <2>4. CASE x.kind = "array"
    <3> DEFINE F == [i \in DOMAIN x.v |-> Meaning[x.v[i]]]
               G == [i \in DOMAIN y.v |-> Meaning[y.v[i]]]
    <3>1. Meaning[x] = <<"array", F>> /\ Meaning[y] = <<"array", G>>
      BY <2>3, <2>4, MeaningIs
    <3>2. F = G
      <4> HIDE DEF F, G
      <4> QED
        BY <1>1, <3>1, SameSecond
    <3>3. DOMAIN x.v = DOMAIN y.v /\ \A i \in DOMAIN x.v : Meaning[x.v[i]] = Meaning[y.v[i]]
      <4>1. DOMAIN F = DOMAIN x.v /\ DOMAIN G = DOMAIN y.v
        OBVIOUS
      <4>2. \A i \in DOMAIN x.v : F[i] = Meaning[x.v[i]]
        OBVIOUS
      <4>3. \A i \in DOMAIN y.v : G[i] = Meaning[y.v[i]]
        OBVIOUS
      <4> HIDE DEF F, G
      <4> QED
        BY <3>2, <4>1, <4>2, <4>3
    <3>4. \A i \in DOMAIN x.v : x.v[i] \in Documents /\ Depth[x.v[i]] < Depth[x]
      BY <2>2, <2>4, ItemsTexts
    <3>5. \A i \in DOMAIN y.v : y.v[i] \in Documents
      BY <2>2, <2>3, <2>4, ItemsTexts
    <3>6. \A i \in DOMAIN x.v : KeysDiffer[x.v[i]]
      BY <1>1, <2>4, DifferIs
    <3>7. \A i \in DOMAIN y.v : KeysDiffer[y.v[i]]
      BY <1>1, <2>3, <2>4, DifferIs
    <3>8. \A i \in DOMAIN x.v : Canonicalize[x.v[i]] = Canonicalize[y.v[i]]
      BY <2>1, <3>3, <3>4, <3>5, <3>6, <3>7
    <3>9. Items(x) = Items(y)
      BY <3>3, <3>8 DEF Items
    <3> QED
      BY <2>3, <2>4, <3>9, Shapes
  <2>5. CASE x.kind = "object"
    <3> DEFINE s == SortedEntries(x)
               t == SortedEntries(y)
    <3>1. Len(s) = Len(t) /\ \A n \in 1..Len(s) :
            s[n].key = t[n].key /\ Meaning[s[n].is] = Meaning[t[n].is]
      BY <1>1, <2>3, <2>5, SortedAlike, ZenonT(40)
    <3>2. /\ \A n \in 1..Len(s) : KeysDiffer[s[n].is]
          /\ \A n \in 1..Len(t) : KeysDiffer[t[n].is]
      BY <1>1, <2>3, <2>5, RanksRise
    <3>3. /\ \A n \in 1..Len(s) : s[n].is \in Documents /\ Depth[s[n].is] < Depth[x]
          /\ \A n \in 1..Len(t) : t[n].is \in Documents
      BY <2>2, <2>3, <2>5, SortedTexts
    <3>4. \A n \in 1..Len(s) : Canonicalize[s[n].is] = Canonicalize[t[n].is]
      <4> HIDE DEF s, t
      <4> QED
        BY <2>1, <3>1, <3>2, <3>3
    <3>5. DOMAIN s = 1..Len(s) /\ DOMAIN t = 1..Len(t)
      BY <2>3, <2>5, SortedIs, LenProperties
    <3>6. /\ Sorted(x) = [n \in DOMAIN s |-> Member(s[n].key, Canonicalize[s[n].is])]
          /\ Sorted(y) = [n \in DOMAIN t |-> Member(t[n].key, Canonicalize[t[n].is])]
      BY DEF Sorted
    <3> HIDE DEF s, t
    <3>7. Sorted(x) = Sorted(y)
      BY <3>1, <3>4, <3>5, <3>6
    <3> QED
      BY <2>3, <2>5, <3>7, Shapes
  <2>6. CASE x.kind \notin {"array", "object"}
    BY <2>3, <2>6, Shapes
  <2> QED
    BY <2>4, <2>5, <2>6
<1>2. Inductive(S)
  BY <1>1 DEF Inductive
<1> HIDE DEF S
<1>3. Documents \subseteq S
  BY <1>2, DepthInduction
<1> QED
  BY <1>3 DEF S

\* No documents yet, or two.
DInv == documents = NoDocuments \/ documents \in Documents \X Documents

\* Two documents have one hash exactly when they say the same (audit-hash.js), whatever
\* they are made of, however deep they are and in whatever order their entries were added,
\* as long as localeCompare tells the keys of each object apart.
THEOREM Hashes == DocumentsSpec => []HashesTellDocumentsApart
<1>1. DocumentsInit => DInv
  BY DEF DocumentsInit, DInv
<1>2. DInv /\ [DocumentsNext]_documents => DInv'
  <2>1. ASSUME DocumentsNext PROVE DInv'
    <3>1. PICK d \in Documents, e \in Documents : documents' = <<d, e>>
      BY <2>1 DEF DocumentsNext
    <3> QED
      BY <3>1 DEF DInv
  <2>2. DInv /\ documents' = documents => DInv'
    BY DEF DInv
  <2> QED
    BY <2>1, <2>2
<1>3. DInv => HashesTellDocumentsApart
  <2> SUFFICES ASSUME DInv, documents # NoDocuments,
                      KeysDiffer[documents[1]], KeysDiffer[documents[2]]
               PROVE  Canonicalize[documents[1]] = Canonicalize[documents[2]]
                        <=> Meaning[documents[1]] = Meaning[documents[2]]
    BY DEF HashesTellDocumentsApart
  <2>1. documents[1] \in Documents /\ documents[2] \in Documents
    BY DEF DInv
  <2> QED
    BY <2>1, SameTextSaysTheSame, SameMeaningSameText
<1> QED
  BY <1>1, <1>2, <1>3, PTL DEF DocumentsSpec

=============================================================================
