------------------------------- MODULE RequestPath ------------------------------
(***************************************************************************)
(* How the path of a request becomes a route: gatewayUrlFromRequestUrl of   *)
(* src/vercel-adapter.js behind the rewrite of vercel.json, and             *)
(* normalizePathApiKeyRoute, the route functions and safePath of            *)
(* src/gateway.js.                                                          *)
(*                                                                          *)
(* A path is the sequence of what stands between its slashes, empty parts   *)
(* included: /a//b/ is <<"a", "", "b", "">>, / is <<"">>.  "%" stands for a *)
(* part that cannot be decoded; the others decode to themselves and could   *)
(* name a host.  Dots and backslashes, which new URL resolves or reads as   *)
(* slashes, are left out.  A query is a sequence of [name, value], the      *)
(* value a path.                                                            *)
(***************************************************************************)
EXTENDS Naturals, Sequences, SequencesExt

CONSTANTS
  Words, MaxParts,   \* the paths checked
  Key,               \* a part with an API key, not one of Words
  Queries            \* what clients send after a path

VARIABLE place   \* the words of a path, behind one of the fronts of Paths

Url(path, query) == [path |-> path, query |-> query]
Param(name, value) == [name |-> name, value |-> value]
Root == <<"">>
Redacted == "[REDACTED]"
NoKeyInPath == "no key"
PathParts == Words \union {"", "v1", "v2", Key}
Params(names) == [name : names, value : Seq(PathParts)]

\* No word the gateway knows or writes itself is a key.
ASSUME WordsAssumption ==
  /\ "%" \in Words /\ MaxParts \in Nat
  /\ Key \notin Words \union {"", "v1", "v2", Redacted, NoKeyInPath}
  /\ Queries \subseteq Seq(Params(STRING))

\* filter: what is left of a sequence.
Without(seq, dropped) ==
  FlattenSeq([i \in DOMAIN seq |-> IF seq[i] \in dropped THEN <<>> ELSE <<seq[i]>>])

\* split('/').filter(Boolean).
Segments(path) == Without(path, {""})

Drop(path, n) == SubSeq(path, n + 1, Len(path))

-----------------------------------------------------------------------------
(* The adapter.                                                             *)

First(query, name) ==
  CHOOSE i \in DOMAIN query :
    query[i].name = name /\ \A j \in DOMAIN query : query[j].name = name => i <= j

\* isCapturedPath of searchParams.get, which is the first parameter of the name.
Captures(query, name) ==
  \E i \in DOMAIN query : query[i].name = name /\ query[First(query, name)].value # Root

\* Mutant: `path` is looked at first.
CapturedPathFirst(query) ==
  IF Captures(query, "path") THEN query[First(query, "path")].value
  ELSE IF Captures(query, "gatewayPath") THEN query[First(query, "gatewayPath")].value
  ELSE <<>>

\* getCapturedGatewayPath, <<>> for null; the route-matches header is left out.
CapturedGatewayPath(query) ==
  IF Captures(query, "gatewayPath") THEN query[First(query, "gatewayPath")].value
  ELSE IF Captures(query, "path") THEN query[First(query, "path")].value
  ELSE <<>>

ExternalSearch(query) == Without(query, Params({"gatewayPath", "path", "PATH"}))

\* gatewayUrlFromRequestUrl, on the URL the function is called with.
GatewayUrl(url) ==
  IF CapturedGatewayPath(url.query) = <<>> THEN url
  ELSE Url(CapturedGatewayPath(url.query), ExternalSearch(url.query))

\* External: the rewrite of vercel.json.
Rewritten(url) ==
  Url(<<"api", "gateway">>, <<Param("gatewayPath", url.path)>> \o url.query)

-----------------------------------------------------------------------------
(* The gateway.                                                             *)

\* new URL(url, 'http://gateway.local') takes what is behind two slashes for a host,
\* which the first part is that is not empty, and throws if there is none.
NamesHost(path) == Len(path) > 1 /\ path[1] = ""

IsHost(path, i) == path[i] # "" /\ \A j \in 1..(i - 1) : path[j] = ""

IsUrl(path) == NamesHost(path) => \E i \in DOMAIN path : IsHost(path, i) /\ path[i] # "%"

\* pathname: the host is no part of it.
Pathname(path) ==
  LET rest == Drop(path, CHOOSE i \in DOMAIN path : IsHost(path, i))
  IN  IF ~NamesHost(path) THEN path ELSE IF rest = <<>> THEN Root ELSE rest

PresentsKey(segments) == Len(segments) >= 2 /\ segments[1] = "v2"

\* Mutant: v1 is put before a path that has it.
NormalizedAlwaysV1(path) ==
  LET segments == Segments(path)
      rest == Drop(segments, 2)
  IN  IF ~PresentsKey(segments) THEN path
      ELSE CASE rest \in {<<>>, <<"status">>} -> <<"v1", "network", "status">>
             [] rest = <<"params">> -> <<"v1", "network", "params">>
             [] rest \in {<<"ready">>, <<"health">>} -> rest
             [] OTHER -> <<"v1">> \o rest

\* normalizePathApiKeyRoute.
Normalized(path) ==
  LET segments == Segments(path)
      rest == Drop(segments, 2)
  IN  IF ~PresentsKey(segments) THEN path
      ELSE CASE rest \in {<<>>, <<"status">>} -> <<"v1", "network", "status">>
             [] rest = <<"params">> -> <<"v1", "network", "params">>
             [] rest \in {<<"ready">>, <<"health">>} -> rest
             [] Len(rest) >= 2 /\ rest[1] = "v1" -> rest
             [] OTHER -> <<"v1">> \o rest

AccountRoute(s) ==
  CASE Len(s) = 2 -> "unknown"
    [] Len(s) = 3 -> "account"
    [] Len(s) = 5 /\ s[4] = "assets" -> "accountAsset"
    [] Len(s) = 4 /\ s[4] = "transactions" -> "accountTransactions"
    [] OTHER -> "accountUnknown"

AssetRoute(s) ==
  CASE Len(s) = 2 -> "unknown"
    [] Len(s) = 3 -> "asset"
    [] Len(s) = 4 /\ s[4] = "transactions" -> "assetTransactions"
    [] OTHER -> "assetUnknown"

TransactionRoute(s) ==
  CASE Len(s) = 4 /\ s[3] = "pending" -> "pending"
    [] Len(s) = 3 -> IF s[3] = "simulate" THEN "simulate" ELSE "transaction"
    [] Len(s) = 2 -> "submit"
    [] OTHER -> "unknown"

\* routeRequest, behind gatewayHandler's test for /health.
Route(path) ==
  LET s == Segments(path)
      second == IF Len(s) >= 2 THEN s[2] ELSE "none"
  IN  IF path = <<"health">> THEN "health"
      ELSE IF "%" \in Range(s) THEN "undecodable"
      ELSE IF path = <<"ready">> THEN "ready"
      ELSE IF s = <<>> \/ s[1] # "v1" THEN "unknown"
      ELSE CASE s = <<"v1", "network", "status">> -> "status"
             [] s = <<"v1", "network", "params">> -> "params"
             [] s = <<"v1", "audit", "evidence">> -> "evidence"
             [] second = "accounts" -> AccountRoute(s)
             [] second = "assets" -> AssetRoute(s)
             [] second = "blocks" /\ Len(s) = 3 -> "block"
             [] second = "transactions" -> TransactionRoute(s)
             [] OTHER -> "unknown"

\* What the gateway makes of a URL: the key in its path, the route, the query; no
\* URL, and a key that cannot be decoded, are errors of their own.
Understood(url) ==
  LET path == Pathname(url.path)
      segments == Segments(path)
      key == IF IsUrl(url.path) /\ PresentsKey(segments) THEN segments[2] ELSE NoKeyInPath
  IN  [key |-> key,
       route |-> IF ~IsUrl(url.path) THEN "noUrl"
                 ELSE IF key = "%" THEN "badPathKey"
                 ELSE Route(Normalized(path)),
       query |-> Without(url.query, Params({"gatewayPath"}))]

\* redactPathApiKey.
Redact(path) ==
  LET segments == Segments(path)
  IN  IF PresentsKey(segments) THEN [segments EXCEPT ![2] = Redacted] ELSE path

\* safePath.
LoggedPath(path) == IF IsUrl(path) THEN Redact(Pathname(path)) ELSE Root

-----------------------------------------------------------------------------
PathInit == place = <<>>

PathNext ==
  /\ Len(place) < MaxParts
  /\ \E word \in Words : place' = Append(place, word)

PathSpec == PathInit /\ [][PathNext]_place

Fronts ==
  {<<>>, <<"v1">>, <<"v2", Key>>, <<"v2", Key, "v1">>, <<"v2", "", Key>>,
   <<"">>, <<"", "v2", Key>>, <<"", "v1", "v2", Key>>}

\* A path is at least /.
Paths == {path \in {front \o place : front \in Fronts} : Len(path) > 0}

-----------------------------------------------------------------------------
\* A request means the same to the function on the platform as to the server: the
\* rewrite of its path and the adapter undo each other, whatever query it came with.
\* (Parameters with the names the rewrite uses are dropped by the one and refused by
\* the other; the root is no route in either, but only with no such parameter; and
\* the rewrite drops one of two slashes at the beginning, which then name no host.)
PlatformMeansTheSame ==
  \A path \in {path \in Paths : ~NamesHost(path)}, query \in Queries :
    LET direct == Understood(Url(path, query))
        rewritten == Understood(GatewayUrl(Rewritten(Url(path, query))))
        search == ExternalSearch(query)
    IN  path # Root \/ search = query => rewritten = [direct EXCEPT !.query = search]

ShortNames == {<<"status">>, <<"params">>, <<"ready">>, <<"health">>}

\* A key in the path, with or without v1 after it, changes nothing but who asks: the
\* route is the one of the path without it, but for the four short names, which are
\* routes of their own.  A key the gateway takes from a path is in no line of the log,
\* however slashes are doubled, and a path that presents none is logged as it is.
\* (Behind two slashes at the beginning of a path stands a host, and no v2: the
\* gateway then takes no key from //v2/<key>/status, and logs the key with the rest.)
KeyInPathOnlyAuthenticates ==
  LET rest == Segments(place)
      plain == Route(<<"v1">> \o rest)
  IN  /\ rest # <<>> =>
           /\ Route(Normalized(<<"v2", Key, "v1">> \o rest)) = plain
           /\ rest \notin ShortNames /\ rest[1] # "v1" =>
                Route(Normalized(<<"v2", Key>> \o rest)) = plain
      /\ \A path \in Paths :
           /\ Key \in Range(LoggedPath(path)) =>
                NamesHost(path) /\ Understood(Url(path, <<>>)).key # Key
           /\ ~NamesHost(path) /\ ~PresentsKey(Segments(path)) => LoggedPath(path) = path
=============================================================================
