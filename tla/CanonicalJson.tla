----------------------------- MODULE CanonicalJson -----------------------------
(***************************************************************************)
(* src/audit-hash.js: the canonical text of a JSON document, which is what  *)
(* its hash is taken of (SHA-256 is taken as injective).                    *)
(*                                                                          *)
(* A value is [kind, v]: an object's v is the sequence of its entries in    *)
(* the order they were added; a scalar's kind is what JSON.stringify makes  *)
(* of it.  A text is a sequence of tokens.                                  *)
(***************************************************************************)
EXTENDS Naturals, Sequences, SequencesExt

CONSTANTS
  Keys,
  Rank,        \* the place of a key in the order of localeCompare
  Documents,   \* JSON values: every part of one is one
  Depth        \* of a document: its parts have a smaller one

Json(kind, v) == [kind |-> kind, v |-> v]
Entry(key, value) == [key |-> key, is |-> value]
Entries == [key : Keys, is : Documents]

Punctuation == {"[", "]", "{", "}", ",", ":"}

ASSUME DocumentsAssumption ==
  /\ Rank \in [Keys -> Nat] /\ Depth \in [Documents -> Nat]
  /\ Keys \intersect Punctuation = {}
  /\ \A value \in Documents :
       /\ value = Json(value.kind, value.v) /\ value.kind \notin Punctuation
       /\ value.kind = "array" =>
            /\ value.v \in Seq(Documents)
            /\ \A i \in DOMAIN value.v : Depth[value.v[i]] < Depth[value]
       /\ value.kind = "object" =>
            /\ value.v \in Seq(Entries)
            /\ \A i \in DOMAIN value.v : Depth[value.v[i].is] < Depth[value]
       /\ value.kind \notin {"array", "object"} => value.v = <<>>

VARIABLE documents   \* two of them

\* filter: the entries of an object that are not undefined.
Said(object) == {i \in DOMAIN object.v : object.v[i].is.kind # "undefined"}

\* Mutant: keys are not sorted.
PrecedesByEntry(entries, i, j) == i < j

\* sort is stable: keys that compare equal stay in the order they were added.
Precedes(entries, i, j) ==
  \/ Rank[entries[i].key] < Rank[entries[j].key]
  \/ Rank[entries[i].key] = Rank[entries[j].key] /\ i < j

Position(object, i) == Cardinality({j \in Said(object) : Precedes(object.v, j, i)}) + 1

SortedEntries(object) ==
  [n \in 1..Cardinality(Said(object)) |->
     object.v[CHOOSE i \in Said(object) : Position(object, i) = n]]

Joined(texts) ==
  FlattenSeq([i \in DOMAIN texts |-> IF i = 1 THEN texts[i] ELSE <<",">> \o texts[i]])

Canonicalize[value \in Documents] ==
  CASE value.kind = "array" ->
         <<"[">> \o Joined([i \in DOMAIN value.v |-> Canonicalize[value.v[i]]]) \o <<"]">>
    [] value.kind = "object" ->
         LET entries == SortedEntries(value)
         IN  <<"{">> \o Joined([i \in DOMAIN entries |->
                           <<entries[i].key, ":">> \o Canonicalize[entries[i].is]]) \o <<"}">>
    [] OTHER -> <<value.kind>>

\* canonicalize throws on an undefined value that is no entry of an object.
Throws[value \in Documents] ==
  \/ value.kind = "undefined"
  \/ value.kind = "array" /\ \E i \in DOMAIN value.v : Throws[value.v[i]]
  \/ value.kind = "object" /\ \E i \in Said(value) : Throws[value.v[i].is]

-----------------------------------------------------------------------------
NoDocuments == <<>>
DocumentsInit == documents = NoDocuments

DocumentsNext ==
  /\ documents = NoDocuments
  /\ \E d1, d2 \in Documents : documents' = <<d1, d2>>

DocumentsSpec == DocumentsInit /\ [][DocumentsNext]_documents

\* What a document says: the order of its entries, and undefined ones, say nothing.
Meaning[value \in Documents] ==
  CASE value.kind = "array" -> <<"array", [i \in DOMAIN value.v |-> Meaning[value.v[i]]]>>
    [] value.kind = "object" ->
         <<"object", {Entry(value.v[i].key, Meaning[value.v[i].is]) : i \in Said(value)}>>
    [] OTHER -> <<value.kind>>

\* No object of the value has two keys that localeCompare takes for equal.
KeysDiffer[value \in Documents] ==
  CASE value.kind = "array" -> \A i \in DOMAIN value.v : KeysDiffer[value.v[i]]
    [] value.kind = "object" -> \A i, j \in DOMAIN value.v :
         /\ i # j => Rank[value.v[i].key] # Rank[value.v[j].key]
         /\ KeysDiffer[value.v[i].is]
    [] OTHER -> TRUE

\* Ordering is deterministic, as AUDIT_REPORT_MODEL.md asks: documents that say the same
\* have one hash, in whatever order their fields were put together.
OneMeaningOneHash ==
  documents # NoDocuments =>
    LET d1 == documents[1]  d2 == documents[2]
    IN  ~Throws[d1] /\ ~Throws[d2] /\ Meaning[d1] = Meaning[d2] =>
          Canonicalize[d1] = Canonicalize[d2]

\* Two documents, in whose objects localeCompare tells all keys apart, have one hash
\* exactly when they say the same: whoever rebuilds such a record field by field, in
\* any order, gets the hash that was reported, and a record that says something else
\* cannot have it.  (A record with two keys that localeCompare takes for equal is
\* excluded: its hash depends on which was added first, as OneMeaningOneHash shows.
\* All documents are compared under one locale, that of the host.)
HashesTellDocumentsApart ==
  documents # NoDocuments =>
    LET d1 == documents[1]  d2 == documents[2]
    IN  ~Throws[d1] /\ ~Throws[d2] /\ KeysDiffer[d1] /\ KeysDiffer[d2] =>
          (Canonicalize[d1] = Canonicalize[d2] <=> Meaning[d1] = Meaning[d2])
=============================================================================
