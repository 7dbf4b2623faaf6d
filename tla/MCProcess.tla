------------------------------- MODULE MCProcess -------------------------------
(***************************************************************************)
(* Environments a process is started with, each a few settings away from    *)
(* the least an operator has to give.                                       *)
(***************************************************************************)
EXTENDS Process, TLC

Minimal ==
  "BANK_API_KEYS" :> Given @@ "ALGOD_URL" :> Given @@ [name \in Settings |-> Unset]

With(changes) == changes @@ Minimal

TlsFiles == "TLS_CERT_FILE" :> Given @@ "TLS_KEY_FILE" :> Given

FewEnvironments ==
  {Minimal, With("ALGOD_URL" :> Unset), With("TLS_CERT_FILE" :> Given),
   With("REQUIRE_TLS" :> TRUE @@ TlsFiles), With("REQUIRE_TLS" :> TRUE),
   With("MTLS_REQUIRED" :> TRUE @@ TlsFiles),
   With("MTLS_REQUIRED" :> TRUE @@ TlsFiles @@ "MTLS_CA_FILE" :> Given)}
=============================================================================
