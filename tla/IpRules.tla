--------------------------------- MODULE IpRules --------------------------------
(***************************************************************************)
(* getClientIp and enforceIpAllowlist of src/security.js, and the remote    *)
(* address src/vercel-adapter.js makes up: which clients a rule lets in.    *)
(*                                                                          *)
(* An IPv4 address is a register of IpBits bits, 32 in the code, bit 0 the  *)
(* last; other texts are kept apart by their kind: "mapped" is ::ffff:      *)
(* before an IPv4 address, "loop" is ::1, "text" anything else.             *)
(***************************************************************************)
EXTENDS Integers

CONSTANTS
  IpBits,
  Loopback,     \* 127.0.0.1
  Forwardings   \* what X-Forwarded-For may name

Bits == 0..(IpBits - 1)
Ipv4 == [Bits -> {0, 1}]
AllZeros == [bit \in Bits |-> 0]
AllOnes == [bit \in Bits |-> 1]

Ip(kind, number) == [kind |-> kind, number |-> number]
AddressTexts ==
  [kind : {"v4", "mapped"}, number : Ipv4]
    \union [kind : {"loop", "text"}, number : {AllZeros}]
NoAddress == Ip("none", AllZeros)   \* no header, or no prefix

ASSUME IpAssumption ==
  IpBits \in Nat \ {0} /\ Loopback \in Ipv4 /\ Forwardings \subseteq AddressTexts

\* A request: where its peer says it comes from, which is the socket or, on the
\* platform, X-Real-IP (0.0.0.0 without one); what X-Forwarded-For begins with; and a
\* rule of the allowlist.
VARIABLE visit

NormalizeIp(address) ==
  CASE address.kind = "mapped" -> Ip("v4", address.number)
    [] address.kind = "loop" -> Ip("v4", Loopback)
    [] OTHER -> address

\* The remoteAddress of the request: behind the adapter, clientIpFromHeaders.
RemoteAddress(v) ==
  IF v.platform = "serverless" /\ v.forwarded # NoAddress THEN v.forwarded ELSE v.peer

GetClientIp(v) ==
  IF v.trustProxy /\ v.forwarded # NoAddress THEN NormalizeIp(v.forwarded)
  ELSE NormalizeIp(RemoteAddress(v))

\* << of JavaScript: a shift by the width of the register is a shift by none.
ShiftLeft(number, count) ==
  [bit \in Bits |-> IF bit < (count % IpBits) THEN 0 ELSE number[bit - (count % IpBits)]]

BitwiseAnd(m, n) == [bit \in Bits |-> m[bit] * n[bit]]

\* Mutant: no special case for the empty prefix.
MaskByShift(prefix) == ShiftLeft(AllOnes, IpBits - prefix)

Mask(prefix) == IF prefix = 0 THEN AllZeros ELSE ShiftLeft(AllOnes, IpBits - prefix)

\* normalizeIp sees a rule with its prefix: ::1/128 is not ::1.
RuleNetwork(rule) ==
  IF rule.address.kind = "loop" /\ rule.hasPrefix THEN Ip("text", AllZeros)
  ELSE NormalizeIp(rule.address)

MatchesIpRule(ip, rule) ==
  LET network == RuleNetwork(rule)
  IN  IF ~rule.hasPrefix THEN ip = network
      ELSE /\ rule.prefix \in 0..IpBits
           /\ ip.kind = "v4" /\ network.kind = "v4"
           /\ BitwiseAnd(ip.number, Mask(rule.prefix)) =
                BitwiseAnd(network.number, Mask(rule.prefix))

-----------------------------------------------------------------------------
RuleSet ==
  [address : AddressTexts, hasPrefix : {TRUE}, prefix : -1..(IpBits + 1)]
    \union [address : AddressTexts, hasPrefix : {FALSE}, prefix : {0}]

IpInit ==
  visit \in [platform : {"server", "serverless"}, peer : AddressTexts,
             forwarded : {NoAddress} \union Forwardings, trustProxy : BOOLEAN, rule : {{}}]

IpNext ==
  /\ visit.rule = {}
  /\ \E rule \in RuleSet : visit' = [visit EXCEPT !.rule = {rule}]

IpSpec == IpInit /\ [][IpNext]_visit

-----------------------------------------------------------------------------
\* A rule with a prefix lets in exactly the clients whose address begins with it,
\* in whatever notation either is written, down to the prefix of no bits, where
\* the shift that makes the mask would wrap around.
CidrMatchesPrefix ==
  \A rule \in visit.rule :
    LET client == GetClientIp(visit)  network == NormalizeIp(rule.address)
    IN  rule.hasPrefix /\ rule.prefix \in 0..IpBits /\ rule.address.kind \in {"v4", "mapped"} =>
          (MatchesIpRule(client, rule) <=>
             /\ client.kind = "v4"
             /\ \A bit \in (IpBits - rule.prefix)..(IpBits - 1) :
                  client.number[bit] = network.number[bit])
=============================================================================
