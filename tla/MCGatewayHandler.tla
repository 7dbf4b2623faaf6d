--------------------------- MODULE MCGatewayHandler ---------------------------
(***************************************************************************)
(* Workloads for GatewayHandler: what one client may send, and pairs of    *)
(* reading requests that overlap.                                          *)
(***************************************************************************)
EXTENDS GatewayHandler, TLC

Get(route) ==
  [method |-> "GET", corsOrigin |-> FALSE, form |-> "plain", headerKey |-> "good",
   pathKey |-> NoKey, ip |-> "inside", route |-> route, defects |-> {}]

\* Every way to present, or not to present, a key, from anywhere, preflights
\* included, to routes that treat them differently.
Visitors ==
  {r \in Request :
     /\ r.defects = {} /\ r.route \in {"health", "ready", "account"}
     /\ r.form # "pathKey" => r.pathKey = NoKey
     /\ r.corsOrigin => r.method = "OPTIONS"}

\* Every route, with every method and every combination of defects.
Errands ==
  {[Get(route) EXCEPT !.method = method, !.defects = defects] :
     route \in Routes, method \in {"GET", "POST", "OPTIONS"},
     defects \in SUBSET {"address", "id", "query"}}

\* Any of them, beside a request for /health.
OneRequest == {"r1" :> r @@ "r2" :> Get("health") : r \in Visitors \union Errands}

Pair(route1, route2) == "r1" :> Get(route1) @@ "r2" :> Get(route2)
Overlapping ==
  {Pair("params", "ready")}
    \union {"r1" :> [Get("submit") EXCEPT !.method = "POST"] @@ "r2" :> Get(route) :
              route \in {"evidence", "params", "ready"}}

Everything == OneRequest \union Overlapping
=============================================================================
