----------------------------- MODULE Configuration -----------------------------
(***************************************************************************)
(* loadConfig of src/config.js and createTlsOptions of src/server.js: which *)
(* environments are accepted, what they are loaded as, and the transport a  *)
(* server made from them speaks.                                            *)
(*                                                                          *)
(* An environment gives every setting a value: Unset (or empty), Malformed  *)
(* (text its parser refuses), Given (any text it takes), a boolean or an    *)
(* integer.  loadConfig throws at the first rule that is broken; every rule *)
(* throws a ConfigurationError, so only whether one is broken is kept.      *)
(***************************************************************************)
EXTENDS Integers

CONSTANTS Unset, Malformed, Given,
          Environments   \* the environments a deployment may have

VARIABLE env   \* process.env

Parsed(default, min, max) == [default |-> default, min |-> min, max |-> max]

IntegerSettings ==
  [DEFAULT_PAGE_LIMIT |-> Parsed(100, 1, 10000),
   MAX_PAGE_LIMIT |-> Parsed(1000, 1, 10000),
   PORT |-> Parsed(8443, 1, 65535),
   REQUEST_TIMEOUT_MS |-> Parsed(30000, 1000, 300000),
   HEADERS_TIMEOUT_MS |-> Parsed(10000, 1000, 120000),
   UPSTREAM_TIMEOUT_MS |-> Parsed(8000, 500, 120000),
   UPSTREAM_RETRY_ATTEMPTS |-> Parsed(2, 0, 5),
   NETWORK_VERIFY_TTL_MS |-> Parsed(60000, 1000, 3600000),
   MAX_BODY_BYTES |-> Parsed(1048576, 1024, 10485760),
   RATE_LIMIT_PER_MINUTE |-> Parsed(600, 1, 100000),
   RATE_LIMIT_BURST |-> Parsed(120, 1, 100000),
   IDEMPOTENCY_TTL_MS |-> Parsed(86400000, 1000, 604800000)]

Flags == {"ALLOW_UNAUTHENTICATED", "REQUIRE_INDEXER", "REQUIRE_TLS", "MTLS_REQUIRED",
          "ENFORCE_MAINNET", "RATE_LIMIT_ENABLED"}
Texts == {"BANK_API_KEY_HASHES", "BANK_API_KEYS", "INDEXER_URL", "ALGOD_URL",
          "TLS_CERT_FILE", "TLS_KEY_FILE", "MTLS_CA_FILE",
          "SUBMISSION_RECEIVER_WALLET", "SUBMISSION_ALLOWED_ASSET_IDS"}
Settings == Flags \union Texts \union DOMAIN IntegerSettings

\* parseBoolean: any word but 1, true, yes and on is FALSE.
Flag(e, name) ==
  IF e[name] = Unset THEN name \in {"ENFORCE_MAINNET", "RATE_LIMIT_ENABLED"} ELSE e[name]

Has(e, name) == e[name] = Given

Integer(e, name) ==
  IF e[name] = Unset THEN IntegerSettings[name].default ELSE e[name]

\* Mutant: the page limits are checked apart.
LeastAlone(e, name) == IntegerSettings[name].min

\* The maximum page may not be smaller than the default one.
Least(e, name) ==
  IF name = "MAX_PAGE_LIMIT" THEN Integer(e, "DEFAULT_PAGE_LIMIT")
  ELSE IntegerSettings[name].min

\* parseInteger does not throw.  A default is not compared with the bounds.
IntegerFits(e, name) ==
  e[name] # Unset => e[name] \in Least(e, name)..IntegerSettings[name].max

HasTlsFiles(e) == Has(e, "TLS_CERT_FILE") /\ Has(e, "TLS_KEY_FILE")

\* Mutant: the CA is forgotten.
TlsRulesHoldWithoutCa(e) ==
  Flag(e, "REQUIRE_TLS") \/ Flag(e, "MTLS_REQUIRED") => HasTlsFiles(e)

TlsRulesHold(e) ==
  /\ Flag(e, "REQUIRE_TLS") => HasTlsFiles(e)
  /\ Flag(e, "MTLS_REQUIRED") => HasTlsFiles(e) /\ Has(e, "MTLS_CA_FILE")

\* loadConfig returns.
Accepted(e) ==
  /\ \A name \in Texts : e[name] # Malformed
  /\ Has(e, "BANK_API_KEY_HASHES") \/ Has(e, "BANK_API_KEYS") \/ Flag(e, "ALLOW_UNAUTHENTICATED")
  /\ Flag(e, "REQUIRE_INDEXER") => Has(e, "INDEXER_URL")
  /\ TlsRulesHold(e)
  /\ IntegerFits(e, "DEFAULT_PAGE_LIMIT")
  /\ \A name \in DOMAIN IntegerSettings : IntegerFits(e, name)
  /\ Has(e, "SUBMISSION_ALLOWED_ASSET_IDS") => Has(e, "SUBMISSION_RECEIVER_WALLET")
  /\ Has(e, "ALGOD_URL")

\* createTlsOptions: readFileSync(null) throws when only one of the files is set.
Transport(e) ==
  IF ~Has(e, "TLS_CERT_FILE") /\ ~Has(e, "TLS_KEY_FILE") THEN "http"
  ELSE IF ~HasTlsFiles(e) THEN "none"
  ELSE IF ~Has(e, "MTLS_CA_FILE") THEN "https"
  ELSE IF Flag(e, "MTLS_REQUIRED") THEN "clientCertRequired" ELSE "clientCertAsked"

-----------------------------------------------------------------------------
(* withDefaultLimit, commonQuery.limit and parseAuditEvidenceOptions of     *)
(* src/validators.js and src/gateway.js: the page size sent to the indexer. *)

PageRefused == 0

\* boundedInteger: a client's limit.
BoundedInteger(limit, max) ==
  IF limit \in 1..max THEN limit ELSE PageRefused

\* `limit` is the client's, or Unset.
TransactionPage(e, limit) ==
  IF limit = Unset THEN Integer(e, "DEFAULT_PAGE_LIMIT")
  ELSE BoundedInteger(limit, Integer(e, "MAX_PAGE_LIMIT"))

EvidencePage(e, limit) ==
  IF limit = Unset
  THEN IF Integer(e, "MAX_PAGE_LIMIT") < 10 THEN Integer(e, "MAX_PAGE_LIMIT") ELSE 10
  ELSE BoundedInteger(limit, Integer(e, "MAX_PAGE_LIMIT"))

-----------------------------------------------------------------------------
ConfigInit == env \in Environments

\* An operator changes a setting.
ConfigNext ==
  \E name \in Settings : \E e \in Environments :
    /\ e = [env EXCEPT ![name] = e[name]]
    /\ env' = e

ConfigSpec == ConfigInit /\ [][ConfigNext]_env

PageLimits == {Unset} \union {0, 1, 9, 10, 11, 100, 1000, 1001, 10000, 10001}

\* No page asked of the indexer is empty or larger than the maximum, whether a
\* client, the default or the audit evidence sizes it -- unless the maximum is left
\* at its default of 1000, which is not compared with DEFAULT_PAGE_LIMIT.
PagesFitMaximum ==
  Accepted(env) =>
    LET max == Integer(env, "MAX_PAGE_LIMIT")
        forgotten == env["MAX_PAGE_LIMIT"] = Unset /\ Integer(env, "DEFAULT_PAGE_LIMIT") > max
    IN  \A limit \in PageLimits :
          /\ limit # Unset \/ ~forgotten => TransactionPage(env, limit) \in {PageRefused} \union 1..max
          /\ EvidencePage(env, limit) \in {PageRefused} \union 1..max
          /\ limit = Unset => EvidencePage(env, limit) # PageRefused
=============================================================================
