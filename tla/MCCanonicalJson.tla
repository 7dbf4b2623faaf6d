---------------------------- MODULE MCCanonicalJson ----------------------------
(***************************************************************************)
(* Small documents: scalars, and arrays and objects of up to two parts, two *)
(* deep, over three keys of which localeCompare takes two for equal, as it  *)
(* does with two spellings of one accented letter.                          *)
(***************************************************************************)
EXTENDS CanonicalJson

Ranks == [k1 |-> 1, k2 |-> 2, k3 |-> 2]

ArraysOf(V) ==
  {Json("array", items) : items \in {<<>>} \union {<<v>> : v \in V} \union {<<v, w>> : v, w \in V}}
ObjectsOf(V) ==
  {Json("object", <<>>)} \union {Json("object", <<Entry(k, v)>>) : k \in Keys, v \in V}
    \union {Json("object", <<Entry(p[1], v), Entry(p[2], w)>>) :
              p \in {p \in Keys \X Keys : p[1] # p[2]}, v, w \in V}
Scalars == {Json("s", <<>>), Json("null", <<>>), Json("undefined", <<>>)}
Nested ==
  {Json("s", <<>>), Json("array", <<>>), Json("array", <<Json("s", <<>>)>>),
   Json("object", <<Entry("k1", Json("s", <<>>))>>)}
SmallDocuments ==
  Scalars \union ArraysOf(Scalars) \union ObjectsOf(Scalars) \union ArraysOf(Nested)
    \union ObjectsOf(Nested)
Depths ==
  [d \in SmallDocuments |->
     IF d \in Scalars THEN 0 ELSE IF d \in ArraysOf(Scalars) \union ObjectsOf(Scalars) THEN 1 ELSE 2]
=============================================================================
