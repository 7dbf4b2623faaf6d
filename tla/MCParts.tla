-------------------------------- MODULE MCParts --------------------------------
(***************************************************************************)
(* The parts of the gateway that compute and do not wait, side by side: one *)
(* of them moves, chosen at the start, and the others stand still.          *)
(***************************************************************************)
EXTENDS MessagePack, AlgorandAddress, MCCanonicalJson, SettlementReconciliation,
        SubmissionBody, IpRules, RequestPath, ServerlessInstances

VARIABLE part   \* the one that moves

-----------------------------------------------------------------------------
(* Instances of the constants.                                              *)

\* Markers of every family at its ends, and lengths of 0 to 2 and of 2^8 and more.
Pieces ==
  {<<b>> : b \in {0, 1, 127, 128, 129, 145, 146, 161, 193, 195, 196, 205, 217, 220, 222, 255}}
    \union {<<221, 0, 0, 0>>, <<129, 161, 0>>, <<211, 0, 0, 0, 0, 0, 0, 0>>,
            <<129, 160, 129, 160, 128>>}

Mixed(key) ==
  <<[i \in 1..ByteBits |-> (key[1][i] + i * key[2][ByteBits + 1 - i] + key[2][1] + i) % 2]>>

\* 1.5, 0.57 and 0.125.
SomeAmounts ==
  {[whole |-> 1, digits |-> <<5>>], [whole |-> 0, digits |-> <<5, 7>>],
   [whole |-> 0, digits |-> <<1, 2, 5>>]}

\* No definition tells one reference, UETR or instance from another.
Symmetry == Permutations(References) \union Permutations(Uetrs) \union Permutations(Instances)

OneZeroOne == [bit \in Bits |-> (bit + 1) % 2]
SomeForwardings == {Ip("mapped", [AllZeros EXCEPT ![0] = 1]), Ip("loop", AllZeros)}

\* None, and one with every name the adapter and the rewrite use.
SomeQueries ==
  {<<>>, <<Param("path", <<"v1", "assets">>), Param("limit", <<"x">>),
           Param("PATH", <<"x">>), Param("gatewayPath", <<"x">>)>>}

Minimal ==
  [name \in Settings |-> IF name \in {"BANK_API_KEYS", "ALGOD_URL"} THEN Given ELSE Unset]

WithBurst(burst) == [Minimal EXCEPT !.RATE_LIMIT_BURST = burst]
FewDeployments ==
  {WithBurst(1), WithBurst(2), WithBurst(0), [WithBurst(1) EXCEPT !.RATE_LIMIT_ENABLED = FALSE]}

\* Every pair of page limits, and every other setting out of its range or missing.
PageSettings == {Unset, 0, 1, 9, 1000, 1001, 10000, 10001}
ManyEnvironments ==
  {[Minimal EXCEPT !.DEFAULT_PAGE_LIMIT = d, !.MAX_PAGE_LIMIT = m] :
     d, m \in PageSettings}
    \union {[Minimal EXCEPT ![name] = n] : name \in DOMAIN IntegerSettings,
                                          n \in {-1, 0, 1, 600, 1024, 700000000}}
    \union {[Minimal EXCEPT ![name] = Unset] : name \in Texts}
    \union {[Minimal EXCEPT ![name] = Given] : name \in Texts}
    \union {[Minimal EXCEPT ![name] = flag] : name \in Flags, flag \in BOOLEAN}
    \union {[Minimal EXCEPT ![flag] = TRUE, ![name] = Given] : flag \in Flags, name \in Texts}

-----------------------------------------------------------------------------
NoUpload ==
  [content |-> [kind |-> "null", chars |-> 0, pads |-> 0], length |-> 0, received |-> 0,
   kept |-> 0, outcome |-> Reading, forwarded |-> 0]
NoSettings == [name \in Settings |-> Unset]
NoFleet == FleetOf(NoSettings)
NoVisit ==
  [platform |-> "server", peer |-> Ip("text", AllZeros), forwarded |-> NoAddress,
   trustProxy |-> FALSE, rule |-> {}]

Init ==
  /\ part \in {"pack", "address", "json", "settlement", "body", "ip", "path", "fleet", "config"}
  /\ PackInit /\ AddressInit /\ DocumentsInit /\ SettlementInit /\ PathInit
  /\ IF part = "body" THEN UploadInit ELSE upload = NoUpload
  /\ IF part = "ip" THEN IpInit ELSE visit = NoVisit
  /\ IF part = "fleet" THEN FleetInit ELSE fleet = NoFleet
  /\ IF part = "config" THEN ConfigInit ELSE env = NoSettings

PackStep ==
  part = "pack" /\ PackNext
  /\ UNCHANGED <<part, address, documents, dataset, upload, visit, place, fleet, env>>
AddressStep ==
  part = "address" /\ AddressNext
  /\ UNCHANGED <<part, packed, documents, dataset, upload, visit, place, fleet, env>>
DocumentsStep ==
  part = "json" /\ DocumentsNext
  /\ UNCHANGED <<part, packed, address, dataset, upload, visit, place, fleet, env>>
SettlementStep ==
  part = "settlement" /\ SettlementNext
  /\ UNCHANGED <<part, packed, address, documents, upload, visit, place, fleet, env>>
UploadStep ==
  part = "body" /\ UploadNext
  /\ UNCHANGED <<part, packed, address, documents, dataset, visit, place, fleet, env>>
IpStep ==
  part = "ip" /\ IpNext
  /\ UNCHANGED <<part, packed, address, documents, dataset, upload, place, fleet, env>>
PathStep ==
  part = "path" /\ PathNext
  /\ UNCHANGED <<part, packed, address, documents, dataset, upload, visit, fleet, env>>
FleetStep ==
  part = "fleet" /\ FleetNext
  /\ UNCHANGED <<part, packed, address, documents, dataset, upload, visit, place, env>>
ConfigStep ==
  part = "config" /\ ConfigNext
  /\ UNCHANGED <<part, packed, address, documents, dataset, upload, visit, place, fleet>>

Next ==
  \/ PackStep \/ AddressStep \/ DocumentsStep \/ SettlementStep \/ UploadStep
  \/ IpStep \/ PathStep \/ FleetStep \/ ConfigStep

vars == <<part, packed, address, documents, dataset, upload, visit, place, fleet, env>>
Spec == Init /\ [][Next]_vars
=============================================================================
