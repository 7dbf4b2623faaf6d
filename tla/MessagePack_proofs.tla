--------------------------- MODULE MessagePack_proofs ---------------------------
(***************************************************************************)
(* Proofs about MessagePack for every limit of depth and length, and bodies *)
(* of any bytes: that nesting is bounded, that a value is made of its own   *)
(* bytes only, and that no transaction of a body hides behind another.      *)
(***************************************************************************)
EXTENDS MessagePack, WellFoundedInduction, SequenceTheorems, TLAPS

-----------------------------------------------------------------------------
(* Induction, as membership of a set.                                      *)

\* A set of naturals has a least element.
LEMMA LeastElement ==
  ASSUME NEW T \in SUBSET Nat, T # {}
  PROVE  \E i \in T : \A j \in T : i <= j
<1> DEFINE R == OpToRel(<, Nat)
<1>1. IsWellFoundedOn(R, Nat)
  BY NatLessThanWellFounded
<1>2. \A i, j \in Nat : <<j, i>> \in R <=> j < i
  BY DEF OpToRel
<1> HIDE DEF R
<1>3. PICK i \in T : \A j \in T : ~(<<j, i>> \in R)
  BY <1>1, WFMin
<1>4. T \subseteq Nat
  OBVIOUS
<1>5. \A j \in T : ~(j < i)
  BY <1>2, <1>3, <1>4, Zenon
<1> QED
  BY <1>4, <1>5

\* What holds of 0, and of k + 1 when it holds of k below n, holds up to n.
LEMMA UpTo ==
  ASSUME NEW S, NEW n \in Nat, 0 \in S, \A k \in 0..(n - 1) : k \in S => k + 1 \in S
  PROVE  0..n \subseteq S
<1> SUFFICES ASSUME NEW m \in (0..n) \ S PROVE FALSE
  OBVIOUS
<1>1. (0..n) \ S \in SUBSET Nat
  OBVIOUS
<1>2. PICK i \in (0..n) \ S : \A j \in (0..n) \ S : i <= j
  BY <1>1, LeastElement
<1>3. i # 0 /\ i - 1 \in 0..(n - 1) /\ i - 1 \in 0..n /\ ~(i <= i - 1) /\ (i - 1) + 1 = i
  BY <1>2
<1> QED
  BY <1>2, <1>3

-----------------------------------------------------------------------------
(* DecodeItems is the recursion it is written as.                          *)

AfterItem(before, decode) ==
  IF before.error # "none" THEN before ELSE Push(before, decode[before.offset])

IsItems(f, decode, offset, count) ==
  f = [n \in 0..count |->
         IF n = 0 THEN Decoded(<<>>, offset) ELSE AfterItem(f[n - 1], decode)]

ItemsOf(decode, offset, count) == CHOOSE f : IsItems(f, decode, offset, count)

\* The values read so far exist, for any count.
LEMMA ItemsExist ==
  ASSUME NEW decode, NEW offset, NEW count \in Nat
  PROVE  \E f : IsItems(f, decode, offset, count)
<1> DEFINE S == {m \in Nat : \E f : IsItems(f, decode, offset, m)}
<1>1. 0 \in S
  <2> DEFINE f == [n \in 0..0 |-> Decoded(<<>>, offset)]
  <2>1. f = [n \in 0..0 |->
               IF n = 0 THEN Decoded(<<>>, offset) ELSE AfterItem(f[n - 1], decode)]
    OBVIOUS
  <2> HIDE DEF f
  <2>2. IsItems(f, decode, offset, 0)
    BY <2>1 DEF IsItems
  <2> QED
    BY <2>2
<1>2. ASSUME NEW m \in 0..(count - 1), m \in S PROVE m + 1 \in S
  <2>1. PICK f : IsItems(f, decode, offset, m)
    BY <1>2
  <2> DEFINE g == [n \in 0..(m + 1) |->
                     IF n = m + 1 THEN AfterItem(f[m], decode) ELSE f[n]]
  <2>2. ASSUME NEW n \in 0..(m + 1)
        PROVE  g[n] = IF n = 0 THEN Decoded(<<>>, offset) ELSE AfterItem(g[n - 1], decode)
    <3>1. CASE n = 0
      <4>1. f[0] = Decoded(<<>>, offset)
        BY <2>1 DEF IsItems
      <4> QED
        BY <3>1, <4>1
    <3>2. CASE n # 0
      <4>1. n - 1 \in 0..m /\ g[n - 1] = f[n - 1]
        BY <3>2
      <4>2. n # m + 1 => f[n] = AfterItem(f[n - 1], decode)
        BY <2>1, <3>2 DEF IsItems
      <4>3. n = m + 1 => n - 1 = m
        OBVIOUS
      <4> QED
        BY <3>2, <4>1, <4>2, <4>3
    <3> QED
      BY <3>1, <3>2
  <2>3. g = [n \in 0..(m + 1) |-> g[n]]
    OBVIOUS
  <2> HIDE DEF g
  <2>4. IsItems(g, decode, offset, m + 1)
    BY <2>2, <2>3 DEF IsItems
  <2> QED
    BY <2>4
<1>3. 0..count \subseteq S
  <2> HIDE DEF S
  <2> QED
    BY <1>1, <1>2, UpTo
<1> QED
  BY <1>3

\* DecodeItems is the last of them.
LEMMA ItemsAre ==
  ASSUME NEW decode, NEW offset, NEW count \in Nat
  PROVE  /\ DecodeItems(decode, offset, count) = ItemsOf(decode, offset, count)[count]
         /\ ItemsOf(decode, offset, count)[0] = Decoded(<<>>, offset)
         /\ \A n \in 1..count :
              ItemsOf(decode, offset, count)[n]
                = AfterItem(ItemsOf(decode, offset, count)[n - 1], decode)
<1> DEFINE g == ItemsOf(decode, offset, count)
<1>1. IsItems(g, decode, offset, count)
  BY ItemsExist DEF ItemsOf
<1>2. DecodeItems(decode, offset, count) = g[count]
  BY DEF DecodeItems, ItemsOf, IsItems, AfterItem
<1> HIDE DEF g
<1>3. g[0] = Decoded(<<>>, offset) /\ \A n \in 1..count : g[n] = AfterItem(g[n - 1], decode)
  BY <1>1 DEF IsItems
<1> QED
  BY <1>2, <1>3 DEF g
-----------------------------------------------------------------------------
(* What is asked of a decoder, a function from offsets to results.         *)

Result(r) == r = [error |-> r.error, value |-> r.value, offset |-> r.offset]

\* It never reads past the end, and every value takes at least a byte.
Progress(decode, end) ==
  \A p \in Nat : decode[p].error = "none" =>
    decode[p].offset \in Nat /\ p < decode[p].offset /\ decode[p].offset <= end

\* The values it decodes.
ValuesOf(decode) == {decode[p].value : p \in {q \in Nat : decode[q].error = "none"}}

\* What is decoded has progressed and consists of values of the decoder.
LEMMA ItemsProgress ==
  ASSUME NEW decode, NEW end \in Nat, Progress(decode, end),
         NEW offset \in Nat, offset <= end, NEW count \in Nat,
         DecodeItems(decode, offset, count).error = "none"
  PROVE  LET r == DecodeItems(decode, offset, count)
         IN  /\ r.offset \in Nat /\ offset <= r.offset /\ r.offset <= end
             /\ r.value \in Seq(ValuesOf(decode))
<1> DEFINE f == ItemsOf(decode, offset, count)
<1>1. /\ DecodeItems(decode, offset, count) = f[count]
     /\ f[0] = Decoded(<<>>, offset)
     /\ \A n \in 1..count : f[n] = AfterItem(f[n - 1], decode)
  BY ItemsAre
<1> HIDE DEF f
<1> DEFINE V == ValuesOf(decode)
           Good(r) == r.error = "none" =>
                        /\ r.offset \in Nat /\ offset <= r.offset /\ r.offset <= end
                        /\ r.value \in Seq(V)
           S == {n \in 0..count : Good(f[n])}
<1>2. 0 \in S
  <2>1. <<>> \in Seq(V)
    OBVIOUS
  <2> HIDE DEF V
  <2>2. Good(f[0])
    BY <1>1, <2>1 DEF Decoded
  <2> QED
    BY <2>2
<1>3. ASSUME NEW k \in 0..(count - 1), k \in S PROVE k + 1 \in S
  <2>1. f[k + 1] = AfterItem(f[k], decode) /\ k + 1 \in 0..count
    BY <1>1
  <2>2. CASE f[k].error # "none"
    BY <2>1, <2>2 DEF AfterItem
  <2>3. CASE f[k].error = "none"
    <3> DEFINE next == decode[f[k].offset]
    <3>1. f[k + 1] = Push(f[k], next)
      BY <2>1, <2>3 DEF AfterItem
    <3>2. CASE next.error # "none"
      BY <2>1, <3>1, <3>2 DEF Push
    <3>3. CASE next.error = "none"
      <4>1. f[k + 1] = Decoded(Append(f[k].value, next.value), next.offset)
        BY <3>1, <3>3 DEF Push
      <4>2. /\ f[k].offset \in Nat /\ offset <= f[k].offset /\ f[k].value \in Seq(V)
        BY <1>3, <2>3
      <4>3. next.offset \in Nat /\ f[k].offset < next.offset /\ next.offset <= end
        BY <3>3, <4>2 DEF Progress
      <4>4. next.value \in V
        BY <3>3, <4>2 DEF ValuesOf
      <4> HIDE DEF V, next
      <4>5. Append(f[k].value, next.value) \in Seq(V)
        BY <4>2, <4>4
      <4>6. Good(f[k + 1])
        BY <4>1, <4>2, <4>3, <4>5 DEF Decoded
      <4> QED
        BY <2>1, <4>6
    <3> QED
      BY <3>2, <3>3
  <2> QED
    BY <2>2, <2>3
<1>4. count \in S
  <2> HIDE DEF S
  <2>1. 0..count \subseteq S
    BY <1>2, <1>3, UpTo
  <2> QED
    BY <2>1
<1> QED
  BY <1>1, <1>4

\* Of a body that is cut after `cut` bytes a decoder reads what it reads of the whole
\* (`long`) if that lies before the cut, and reports the end otherwise.
Agree(long, short, cut) ==
  /\ short.error = "none" => short = long
  /\ long.error = "none" => IF long.offset <= cut THEN short = long ELSE short.error = "end"

AllAgree(long, short, cut) == \A p \in Nat : Agree(long[p], short[p], cut)

\* Decoders that agree on values agree on items.
LEMMA ItemsAgree ==
  ASSUME NEW long, NEW short, NEW end \in Nat, NEW cut \in Nat,
         Progress(long, end), Progress(short, cut), cut <= end,
         AllAgree(long, short, cut),
         NEW offset \in Nat, offset <= cut, NEW count \in Nat
  PROVE  Agree(DecodeItems(long, offset, count), DecodeItems(short, offset, count), cut)
<1> DEFINE f == ItemsOf(long, offset, count)
<1>1. /\ DecodeItems(long, offset, count) = f[count]
     /\ f[0] = Decoded(<<>>, offset)
     /\ \A n \in 1..count : f[n] = AfterItem(f[n - 1], long)
  BY ItemsAre
<1> HIDE DEF f
<1> DEFINE g == ItemsOf(short, offset, count)
<1>2. /\ DecodeItems(short, offset, count) = g[count]
     /\ g[0] = Decoded(<<>>, offset)
     /\ \A n \in 1..count : g[n] = AfterItem(g[n - 1], short)
  BY ItemsAre
<1> HIDE DEF g
<1> DEFINE Good(r, c) ==
             /\ Agree(r, c, cut)
             /\ r.error = "none" => r.offset \in Nat
             /\ c.error = "none" => c.offset \in Nat
           S == {n \in 0..count : Good(f[n], g[n])}
<1>3. 0 \in S
  BY <1>1, <1>2 DEF Decoded, Agree
<1>4. ASSUME NEW k \in 0..(count - 1), k \in S PROVE k + 1 \in S
  <2>1. /\ f[k + 1] = AfterItem(f[k], long) /\ g[k + 1] = AfterItem(g[k], short)
        /\ k + 1 \in 0..count
    BY <1>1, <1>2
  <2>2. Good(f[k], g[k])
    BY <1>4
  <2>3. CASE f[k].error # "none"
    \* The short one has failed too.
    <3>1. g[k].error # "none"
      BY <2>2, <2>3 DEF Agree
    <3> QED
      BY <2>1, <2>2, <2>3, <3>1 DEF AfterItem
  <2>4. CASE f[k].error = "none" /\ f[k].offset > cut
    <3>1. g[k].error = "end"
      BY <2>2, <2>4 DEF Agree
    <3>2. g[k + 1].error = "end"
      BY <2>1, <3>1 DEF AfterItem
    <3>3. f[k + 1] = Push(f[k], long[f[k].offset])
      BY <2>1, <2>4 DEF AfterItem
    <3>4. f[k + 1].error = "none" => f[k + 1].offset \in Nat /\ f[k + 1].offset > cut
      BY <2>2, <2>4, <3>3 DEF Push, Decoded, Progress
    <3>5. Good(f[k + 1], g[k + 1])
      BY <3>2, <3>4 DEF Agree
    <3> QED
      BY <2>1, <3>5
  <2>5. CASE f[k].error = "none" /\ f[k].offset <= cut
    <3>1. g[k] = f[k] /\ f[k].offset \in Nat
      BY <2>2, <2>5 DEF Agree
    <3> DEFINE l == long[f[k].offset]
               s == short[f[k].offset]
    <3>2. f[k + 1] = Push(f[k], l) /\ g[k + 1] = Push(f[k], s)
      BY <2>1, <2>5, <3>1 DEF AfterItem
    <3>3. Agree(l, s, cut) /\ (l.error = "none" => l.offset \in Nat)
                           /\ (s.error = "none" => s.offset \in Nat)
      BY <3>1 DEF Progress, AllAgree
    <3> HIDE DEF l, s
    <3>4. CASE l.error = "none" /\ l.offset <= cut
      <4>1. s = l
        BY <3>3, <3>4 DEF Agree
      <4>2. f[k + 1] = g[k + 1] /\ f[k + 1].error = "none" /\ f[k + 1].offset = l.offset
        BY <3>2, <3>4, <4>1 DEF Push, Decoded
      <4>3. Good(f[k + 1], g[k + 1])
        BY <3>3, <3>4, <4>2 DEF Agree
      <4> QED
        BY <2>1, <4>3
    <3>5. CASE l.error = "none" /\ ~(l.offset <= cut)
      <4>1. s.error = "end"
        BY <3>3, <3>5 DEF Agree
      <4>2. /\ g[k + 1].error = "end"
            /\ f[k + 1].error = "none" /\ f[k + 1].offset = l.offset
        BY <3>2, <3>5, <4>1 DEF Push, Decoded
      <4>3. Good(f[k + 1], g[k + 1])
        BY <3>3, <3>5, <4>2 DEF Agree
      <4> QED
        BY <2>1, <4>3
    <3>6. CASE l.error # "none"
      <4>1. s.error # "none"
        BY <3>3, <3>6 DEF Agree
      <4>2. g[k + 1].error # "none" /\ f[k + 1].error # "none"
        BY <3>2, <3>6, <4>1 DEF Push
      <4>3. Good(f[k + 1], g[k + 1])
        BY <4>2 DEF Agree
      <4> QED
        BY <2>1, <4>3
    <3> QED
      BY <3>4, <3>5, <3>6
  <2>6. f[k].error = "none" => f[k].offset \in Nat
    BY <2>2
  <2> QED
    BY <2>3, <2>4, <2>5, <2>6
<1>5. count \in S
  <2> HIDE DEF S
  <2>1. 0..count \subseteq S
    BY <1>3, <1>4, UpTo
  <2> QED
    BY <2>1
<1> QED
  BY <1>1, <1>2, <1>5

\* A result read `by` bytes further on.
Moved(there, here, by) ==
  /\ there.error = here.error
  /\ here.error = "none" =>
       /\ here.offset \in Nat
       /\ there.value = here.value /\ there.offset = here.offset + by

AllMoved(there, here, by) == \A p \in Nat : Moved(there[p + by], here[p], by)

\* Decoders that differ by a distance on values do on items.
LEMMA ItemsMoved ==
  ASSUME NEW there, NEW here, NEW by \in Nat,
         AllMoved(there, here, by),
         NEW offset \in Nat, NEW from, from = offset + by, NEW count \in Nat
  PROVE  Moved(DecodeItems(there, from, count), DecodeItems(here, offset, count), by)
<1> DEFINE f == ItemsOf(there, from, count)
<1>1. /\ DecodeItems(there, from, count) = f[count]
     /\ f[0] = Decoded(<<>>, from)
     /\ \A n \in 1..count : f[n] = AfterItem(f[n - 1], there)
  BY ItemsAre
<1> HIDE DEF f
<1> DEFINE g == ItemsOf(here, offset, count)
<1>2. /\ DecodeItems(here, offset, count) = g[count]
     /\ g[0] = Decoded(<<>>, offset)
     /\ \A n \in 1..count : g[n] = AfterItem(g[n - 1], here)
  BY ItemsAre
<1> HIDE DEF g
<1> DEFINE S == {n \in 0..count : Moved(f[n], g[n], by)}
<1>3. 0 \in S
  BY <1>1, <1>2 DEF Decoded, Moved
<1>4. ASSUME NEW k \in 0..(count - 1), k \in S PROVE k + 1 \in S
  <2>1. /\ f[k + 1] = AfterItem(f[k], there) /\ g[k + 1] = AfterItem(g[k], here)
        /\ k + 1 \in 0..count /\ Moved(f[k], g[k], by)
    <3>1. k + 1 \in 1..count /\ k + 1 \in 0..count /\ (k + 1) - 1 = k
      OBVIOUS
    <3>2. Moved(f[k], g[k], by)
      BY <1>4
    <3> QED
      BY <1>1, <1>2, <3>1, <3>2
  <2>2. CASE g[k].error # "none"
    BY <2>1, <2>2 DEF AfterItem, Moved
  <2>3. CASE g[k].error = "none"
    <3> DEFINE t == there[g[k].offset + by]
               h == here[g[k].offset]
    <3>1. /\ f[k + 1] = Push(f[k], t) /\ g[k + 1] = Push(g[k], h)
          /\ f[k].value = g[k].value /\ g[k].offset \in Nat
      BY <2>1, <2>3 DEF AfterItem, Moved
    <3>2. Moved(t, h, by)
      BY <3>1 DEF AllMoved
    <3> HIDE DEF t, h
    <3>3. Moved(f[k + 1], g[k + 1], by)
      BY <3>1, <3>2, SMTT(30) DEF Moved, Push, Decoded
    <3> QED
      BY <2>1, <3>3
  <2> QED
    BY <2>2, <2>3
<1>5. count \in S
  <2> HIDE DEF S
  <2>1. 0..count \subseteq S
    BY <1>3, <1>4, UpTo
  <2> QED
    BY <2>1
<1> QED
  BY <1>1, <1>2, <1>5
-----------------------------------------------------------------------------
(* The bytes of a body.                                                    *)

\* Bytes that are there are a subsequence.
LEMMA BytesThere ==
  ASSUME NEW buffer \in Seq(0..255), NEW offset \in Nat, NEW length \in Nat,
         Available(buffer, offset, length)
  PROVE  /\ Bytes(buffer, offset, length) \in Seq(0..255)
         /\ Len(Bytes(buffer, offset, length)) = length
         /\ \A i \in 1..length : Bytes(buffer, offset, length)[i] = buffer[offset + i]
<1>1. Min({offset + length, Len(buffer)}) = offset + length
  BY DEF Min, Available
<1>2. Bytes(buffer, offset, length) = SubSeq(buffer, offset + 1, offset + length)
  BY <1>1 DEF Bytes
<1>3. offset + length <= Len(buffer)
  BY DEF Available
<1>4. \A i \in (offset + 1)..(offset + length) : buffer[i] \in 0..255
  <2>1. \A i \in 1..Len(buffer) : buffer[i] \in 0..255
    BY ElementOfSeq
  <2>2. \A i \in (offset + 1)..(offset + length) : i \in 1..Len(buffer)
    BY <1>3
  <2> QED
    BY <2>1, <2>2
<1>5. /\ SubSeq(buffer, offset + 1, offset + length) \in Seq(0..255)
      /\ Len(SubSeq(buffer, offset + 1, offset + length)) = length
      /\ \A i \in 1..length : SubSeq(buffer, offset + 1, offset + length)[i] = buffer[offset + i]
  BY <1>3, <1>4, SMTT(30)
<1> QED
  BY <1>2, <1>5

IsNumber(f, digits, count) ==
  f = [n \in 0..count |-> IF n = 0 THEN 0 ELSE 256 * f[n - 1] + digits[n]]

\* The digits read so far denote a number, for any count of them.
LEMMA NumberExists ==
  ASSUME NEW digits, NEW count \in Nat
  PROVE  \E f : IsNumber(f, digits, count)
<1> DEFINE S == {m \in Nat : \E f : IsNumber(f, digits, m)}
<1>1. 0 \in S
  <2> DEFINE f == [n \in 0..0 |-> 0]
  <2>1. f = [n \in 0..0 |-> IF n = 0 THEN 0 ELSE 256 * f[n - 1] + digits[n]]
    OBVIOUS
  <2> HIDE DEF f
  <2>2. IsNumber(f, digits, 0)
    BY <2>1 DEF IsNumber
  <2> QED
    BY <2>2
<1>2. ASSUME NEW m \in 0..(count - 1), m \in S PROVE m + 1 \in S
  <2>1. PICK f : IsNumber(f, digits, m)
    BY <1>2
  <2> DEFINE g == [n \in 0..(m + 1) |-> IF n = m + 1 THEN 256 * f[m] + digits[m + 1] ELSE f[n]]
  <2>2. ASSUME NEW n \in 0..(m + 1)
        PROVE  g[n] = IF n = 0 THEN 0 ELSE 256 * g[n - 1] + digits[n]
    <3>1. CASE n = 0
      <4>1. f[0] = 0
        BY <2>1 DEF IsNumber
      <4> QED
        BY <3>1, <4>1
    <3>2. CASE n # 0
      <4>1. n - 1 \in 0..m /\ g[n - 1] = f[n - 1]
        BY <3>2
      <4>2. n # m + 1 => f[n] = 256 * f[n - 1] + digits[n]
        BY <2>1, <3>2 DEF IsNumber
      <4>3. n = m + 1 => n - 1 = m
        OBVIOUS
      <4> QED
        BY <3>2, <4>1, <4>2, <4>3
    <3> QED
      BY <3>1, <3>2
  <2>3. g = [n \in 0..(m + 1) |-> g[n]]
    OBVIOUS
  <2> HIDE DEF g
  <2>4. IsNumber(g, digits, m + 1)
    BY <2>2, <2>3 DEF IsNumber
  <2> QED
    BY <2>4
<1>3. 0..count \subseteq S
  <2> HIDE DEF S
  <2> QED
    BY <1>1, <1>2, UpTo
<1> QED
  BY <1>3

\* The number that digits denote is one.
LEMMA NumberIsNat ==
  ASSUME NEW digits \in Seq(0..255)
  PROVE  Number(digits) \in Nat
<1> DEFINE N == Len(digits)
           h == CHOOSE f : IsNumber(f, digits, N)
           P == {n \in 0..N : h[n] \in Nat}
<1>1. N \in Nat /\ \A i \in 1..N : digits[i] \in Nat
  <2>1. \A i \in 1..N : digits[i] \in 0..255
    BY ElementOfSeq
  <2>2. N \in Nat
    BY LenProperties
  <2>3. 0..255 \subseteq Nat
    OBVIOUS
  <2> HIDE DEF N
  <2> QED
    BY <2>1, <2>2, <2>3
<1>2. Number(digits) = h[N]
  BY DEF Number, IsNumber
<1>3. \E f : IsNumber(f, digits, N)
  <2> HIDE DEF N
  <2> QED
    BY <1>1, NumberExists
<1>4. IsNumber(h, digits, N)
  BY <1>3
<1> HIDE DEF h, N
<1>5. 0 \in P
  BY <1>1, <1>4 DEF IsNumber
<1>6. ASSUME NEW m \in 0..(N - 1), m \in P PROVE m + 1 \in P
  <2>1. m + 1 \in 0..N /\ m + 1 \in 1..N /\ m + 1 # 0 /\ (m + 1) - 1 = m
    BY <1>1
  <2>2. h[m + 1] = 256 * h[m] + digits[m + 1]
    BY <1>4, <2>1 DEF IsNumber
  <2>3. h[m] \in Nat /\ digits[m + 1] \in Nat
    BY <1>1, <1>6, <2>1
  <2> QED
    BY <2>1, <2>2, <2>3
<1>7. N \in P
  <2> HIDE DEF P
  <2>1. 0..N \subseteq P
    BY <1>1, <1>5, <1>6, UpTo
  <2> QED
    BY <2>1, <1>1
<1> QED
  BY <1>2, <1>7

\* So is a length.
LEMMA LengthIsNat ==
  ASSUME NEW marker \in 0..255, NEW number \in Seq(0..255)
  PROVE  Length(marker, number) \in Nat
<1>1. marker % 16 \in Nat /\ marker % 32 \in Nat
  OBVIOUS
<1>2. Number(number) \in Nat
  BY NumberIsNat
<1> QED
  BY <1>1, <1>2 DEF Length

\* The number of bytes after a marker is a number.
LEMMA WidthIsNat ==
  ASSUME NEW marker
  PROVE  Width(marker) \in Nat
  BY DEF Width

-----------------------------------------------------------------------------
(* What DecodeFamily and DecodeMarker keep of the decoder inside them.     *)

\* The five families of markers and the rest.
LEMMA FamilyIs ==
  ASSUME NEW marker \in 0..255, NEW number
  PROVE  \/ \A inner, buffer, after : DecodeFamily(inner, buffer, marker, number, after)
              = Decoded(Scalar(marker, number), after)
         \/ \A inner, buffer, after : DecodeFamily(inner, buffer, marker, number, after)
              = DecodeMap(inner, after, Length(marker, number))
         \/ \A inner, buffer, after : DecodeFamily(inner, buffer, marker, number, after)
              = DecodeArray(inner, after, Length(marker, number))
         \/ \E kind \in {"string", "binary"} :
              \A inner, buffer, after : DecodeFamily(inner, buffer, marker, number, after)
                = DecodeBytes(kind, buffer, after, Length(marker, number))
         \/ \A inner, buffer, after : DecodeFamily(inner, buffer, marker, number, after)
              = Refused("unsupported")
<1>1. CASE marker \in ScalarMarkers
  BY <1>1 DEF DecodeFamily
<1>2. CASE marker \notin ScalarMarkers /\ marker \in (128..143) \union Maps
  BY <1>2 DEF DecodeFamily
<1>3. CASE /\ marker \notin ScalarMarkers /\ marker \notin (128..143) \union Maps
           /\ marker \in (144..159) \union Arrays
  BY <1>3 DEF DecodeFamily
<1>4. CASE /\ marker \notin ScalarMarkers /\ marker \notin (128..143) \union Maps
           /\ marker \notin (144..159) \union Arrays
           /\ marker \in (160..191) \union Strings
  BY <1>4 DEF DecodeFamily
<1>5. CASE /\ marker \notin ScalarMarkers /\ marker \notin (128..143) \union Maps
           /\ marker \notin (144..159) \union Arrays
           /\ marker \notin (160..191) \union Strings /\ marker \in Binaries
  BY <1>5 DEF DecodeFamily
<1>6. CASE /\ marker \notin ScalarMarkers /\ marker \notin (128..143) \union Maps
           /\ marker \notin (144..159) \union Arrays
           /\ marker \notin (160..191) \union Strings /\ marker \notin Binaries
  BY <1>6 DEF DecodeFamily
<1> QED
  BY <1>1, <1>2, <1>3, <1>4, <1>5, <1>6
\* The values that are part of a value are values of the decoder inside.
LEMMA PairsAreParts ==
  ASSUME NEW V, NEW items \in Seq(V)
  PROVE  Parts(Value("map", Pairs(items))) \subseteq V
<1>1. Parts(Value("map", Pairs(items))) = {pair[2] : pair \in Pairs(items)}
  BY DEF Parts, Value
<1>2. ASSUME NEW pair \in Pairs(items) PROVE pair[2] \in V
  <2>1. PICK i \in 1..(Len(items) \div 2) : pair = <<items[2 * i - 1].data, items[2 * i]>>
    BY <1>2 DEF Pairs
  <2>2. pair[2] = items[2 * i]
    BY <2>1
  <2>3. 2 * i \in 1..Len(items)
    BY LenProperties
  <2> QED
    BY <2>2, <2>3, ElementOfSeq
<1> QED
  BY <1>1, <1>2

\* The parts of an array are its items.
LEMMA ItemsAreParts ==
  ASSUME NEW V, NEW items \in Seq(V)
  PROVE  Parts(Value("array", items)) \subseteq V
<1>1. Parts(Value("array", items)) = {items[i] : i \in DOMAIN items}
  BY DEF Parts, Value, Range
<1> QED
  BY <1>1

\* Nothing but arrays and maps has parts.
LEMMA BytesHaveNoParts ==
  ASSUME NEW kind \in {"string", "binary", "int", "negative", "null", "boolean"}, NEW data
  PROVE  Parts(Value(kind, data)) = {}
  BY DEF Parts, Value

\* Scalars have none.
LEMMA ScalarsHaveNoParts ==
  ASSUME NEW marker, NEW number
  PROVE  Parts(Scalar(marker, number)) = {}
<1>1. \A digits : Parts(Unsigned(digits)) = {}
  BY BytesHaveNoParts DEF Unsigned
<1>2. \A digits : Parts(Signed(digits)) = {}
  BY <1>1, BytesHaveNoParts DEF Signed
<1>3. Parts(Value("null", <<>>)) = {} /\ \A data : Parts(Value("boolean", data)) = {}
  BY BytesHaveNoParts
<1> QED
  BY <1>1, <1>2, <1>3 DEF Scalar

\* An array's data is a sequence, so that spreading it gives its values.
WellFormed(value) == value.kind = "array" => \E V : value.data \in Seq(V)

\* What a family reads starts where the marker's number ends, and ends in the body.
Reads(r, after, end, V) ==
  r.error = "none" =>
    /\ r.offset \in Nat /\ after <= r.offset /\ r.offset <= end
    /\ Parts(r.value) \subseteq V
    /\ WellFormed(r.value)

\* Whatever its family, a value ends in the body and is made of values of the decoder inside.
LEMMA FamilyReads ==
  ASSUME NEW buffer \in Seq(0..255), NEW inner, Progress(inner, Len(buffer)),
         NEW marker \in 0..255, NEW number \in Seq(0..255),
         NEW after \in Nat, after <= Len(buffer)
  PROVE  Reads(DecodeFamily(inner, buffer, marker, number, after), after, Len(buffer),
               ValuesOf(inner))
<1> DEFINE end == Len(buffer)
           length == Length(marker, number)
           V == ValuesOf(inner)
<1>1. end \in Nat /\ length \in Nat
  BY LengthIsNat, LenProperties
<1>2. Reads(Decoded(Scalar(marker, number), after), after, end, V)
  <2>1. Scalar(marker, number).kind # "array"
    BY DEF Scalar, Unsigned, Signed, Value
  <2> QED
    BY <1>1, <2>1, ScalarsHaveNoParts DEF Reads, Decoded, WellFormed
<1>3. Reads(DecodeMap(inner, after, length), after, end, V)
  <2> DEFINE items == DecodeItems(inner, after, 2 * length)
             r == DecodeMap(inner, after, length)
  <2> SUFFICES ASSUME r.error = "none"
               PROVE  /\ r.offset \in Nat /\ after <= r.offset /\ r.offset <= end
                      /\ Parts(r.value) \subseteq V /\ WellFormed(r.value)
    BY DEF Reads
  <2>1. items.error = "none" /\ r = Decoded(Value("map", Pairs(items.value)), items.offset)
    BY DEF DecodeMap, Refused
  <2>2. /\ items.offset \in Nat /\ after <= items.offset /\ items.offset <= end
        /\ items.value \in Seq(V)
    <3>1. 2 * length \in Nat
      BY <1>1
    <3> HIDE DEF end, length
    <3> QED
      BY <1>1, <2>1, <3>1, ItemsProgress DEF end
  <2> HIDE DEF V, end, items
  <2>3. Parts(r.value) \subseteq V
    BY <2>1, <2>2, PairsAreParts DEF Decoded
  <2> QED
    BY <2>1, <2>2, <2>3 DEF Decoded, WellFormed, Value
<1>4. Reads(DecodeArray(inner, after, length), after, end, V)
  <2> DEFINE items == DecodeItems(inner, after, length)
             r == DecodeArray(inner, after, length)
  <2> SUFFICES ASSUME r.error = "none"
               PROVE  /\ r.offset \in Nat /\ after <= r.offset /\ r.offset <= end
                      /\ Parts(r.value) \subseteq V /\ WellFormed(r.value)
    BY DEF Reads
  <2>1. items.error = "none" /\ r = Decoded(Value("array", items.value), items.offset)
    BY DEF DecodeArray, Refused
  <2>2. /\ items.offset \in Nat /\ after <= items.offset /\ items.offset <= end
        /\ items.value \in Seq(V)
    <3> HIDE DEF end, length
    <3> QED
      BY <1>1, <2>1, ItemsProgress DEF end
  <2> HIDE DEF V, end, items
  <2>3. Parts(r.value) \subseteq V
    BY <2>1, <2>2, ItemsAreParts DEF Decoded
  <2> QED
    BY <2>1, <2>2, <2>3 DEF Decoded, WellFormed, Value
<1>5. \A kind \in {"string", "binary"} :
        Reads(DecodeBytes(kind, buffer, after, length), after, end, V)
  <2> SUFFICES ASSUME NEW kind \in {"string", "binary"}
               PROVE  Reads(DecodeBytes(kind, buffer, after, length), after, end, V)
    OBVIOUS
  <2> HIDE DEF length
  <2>1. CASE Available(buffer, after, length)
    <3>1. DecodeBytes(kind, buffer, after, length)
            = Decoded(Value(kind, Bytes(buffer, after, length)), after + length)
      BY <2>1 DEF DecodeBytes
    <3>2. Parts(Value(kind, Bytes(buffer, after, length))) = {}
      BY BytesHaveNoParts
    <3>3. after + length \in Nat /\ after <= after + length /\ after + length <= end
      BY <1>1, <2>1 DEF Available
    <3>4. WellFormed(Value(kind, Bytes(buffer, after, length)))
      BY DEF WellFormed, Value
    <3> QED
      BY <3>1, <3>2, <3>3, <3>4 DEF Reads, Decoded
  <2>2. CASE ~Available(buffer, after, length)
    BY <2>2 DEF DecodeBytes, Refused, Reads
  <2> QED
    BY <2>1, <2>2
<1>6. Reads(Refused("unsupported"), after, end, V)
  BY DEF Refused, Reads
<1> HIDE DEF V, end, length
<1>7. Reads(DecodeFamily(inner, buffer, marker, number, after), after, end, V)
  BY <1>2, <1>3, <1>4, <1>5, <1>6, FamilyIs DEF length
<1> QED
  BY <1>7 DEF V, end
\* A body is cut, or what a body ends with.
IsCut(buffer, short) ==
  Len(short) <= Len(buffer) /\ \A i \in 1..Len(short) : short[i] = buffer[i]

IsTail(buffer, tail, by) ==
  Len(buffer) = Len(tail) + by /\ \A i \in 1..Len(tail) : buffer[by + i] = tail[i]

SameFrom(buffer, from, other, offset, length) ==
  \A i \in 1..length : buffer[from + i] = other[offset + i]

\* The same bytes are there, when they are before the cut.
LEMMA SameBytes ==
  ASSUME NEW buffer \in Seq(0..255), NEW short \in Seq(0..255),
         NEW from \in Nat, NEW offset \in Nat, NEW length \in Nat,
         Available(buffer, from, length), Available(short, offset, length),
         SameFrom(buffer, from, short, offset, length)
  PROVE  Bytes(buffer, from, length) = Bytes(short, offset, length)
<1> DEFINE b == Bytes(buffer, from, length)
           s == Bytes(short, offset, length)
<1>1. /\ b \in Seq(0..255) /\ Len(b) = length /\ \A i \in 1..length : b[i] = buffer[from + i]
      /\ s \in Seq(0..255) /\ Len(s) = length /\ \A i \in 1..length : s[i] = short[offset + i]
  BY BytesThere
<1> HIDE DEF b, s
<1>2. b = s
  BY <1>1, SeqEqual, ZenonT(40) DEF SameFrom
<1> QED
  BY <1>2 DEF b, s

\* Families agree on a body and its cut when the decoders inside do.
LEMMA FamilyAgrees ==
  ASSUME NEW buffer \in Seq(0..255), NEW short \in Seq(0..255), IsCut(buffer, short),
         NEW long, NEW cut, Progress(long, Len(buffer)), Progress(cut, Len(short)),
         AllAgree(long, cut, Len(short)),
         NEW marker \in 0..255, NEW number \in Seq(0..255),
         NEW after \in Nat, after <= Len(short)
  PROVE  Agree(DecodeFamily(long, buffer, marker, number, after),
               DecodeFamily(cut, short, marker, number, after), Len(short))
<1> DEFINE end == Len(short)
           length == Length(marker, number)
<1>1. end \in Nat /\ length \in Nat /\ Len(buffer) \in Nat /\ end <= Len(buffer)
  BY LengthIsNat, LenProperties, ZenonT(40) DEF IsCut
<1> HIDE DEF length
<1>2. \A count \in Nat :
        Agree(DecodeItems(long, after, count), DecodeItems(cut, after, count), end)
  BY <1>1, ItemsAgree, SMTT(30)
<1>3. Agree(DecodeMap(long, after, length), DecodeMap(cut, after, length), end)
  <2> DEFINE l == DecodeItems(long, after, 2 * length)
             s == DecodeItems(cut, after, 2 * length)
  <2>1. Agree(l, s, end)
    <3>1. 2 * length \in Nat
      BY <1>1
    <3> QED
      BY <1>2, <3>1
  <2>2. /\ DecodeMap(long, after, length)
             = IF length > MaxCollectionLength THEN Refused("large")
               ELSE IF l.error # "none" THEN l
               ELSE Decoded(Value("map", Pairs(l.value)), l.offset)
        /\ DecodeMap(cut, after, length)
             = IF length > MaxCollectionLength THEN Refused("large")
               ELSE IF s.error # "none" THEN s
               ELSE Decoded(Value("map", Pairs(s.value)), s.offset)
    BY DEF DecodeMap
  <2> HIDE DEF l, s, end
  <2> QED
    BY <2>1, <2>2 DEF Agree, Decoded, Refused
<1>4. Agree(DecodeArray(long, after, length), DecodeArray(cut, after, length), end)
  <2> DEFINE l == DecodeItems(long, after, length)
             s == DecodeItems(cut, after, length)
  <2>1. Agree(l, s, end)
    BY <1>1, <1>2
  <2>2. /\ DecodeArray(long, after, length)
             = IF length > MaxCollectionLength THEN Refused("large")
               ELSE IF l.error # "none" THEN l
               ELSE Decoded(Value("array", l.value), l.offset)
        /\ DecodeArray(cut, after, length)
             = IF length > MaxCollectionLength THEN Refused("large")
               ELSE IF s.error # "none" THEN s
               ELSE Decoded(Value("array", s.value), s.offset)
    BY DEF DecodeArray
  <2> HIDE DEF l, s, end
  <2> QED
    BY <2>1, <2>2 DEF Agree, Decoded, Refused
<1>5. \A kind \in {"string", "binary"} :
        Agree(DecodeBytes(kind, buffer, after, length), DecodeBytes(kind, short, after, length),
              end)
  <2> SUFFICES ASSUME NEW kind \in {"string", "binary"}
               PROVE  Agree(DecodeBytes(kind, buffer, after, length),
                            DecodeBytes(kind, short, after, length), end)
    OBVIOUS
  <2>1. CASE Available(short, after, length)
    <3>1. Available(buffer, after, length)
      BY <1>1, <2>1 DEF Available
    <3>2. SameFrom(buffer, after, short, after, length)
      BY <1>1, <2>1 DEF Available, IsCut, SameFrom
    <3> HIDE DEF end
    <3>3. Bytes(buffer, after, length) = Bytes(short, after, length)
      BY <1>1, <2>1, <3>1, <3>2, SameBytes
    <3>4. after + length <= end
      BY <2>1 DEF Available, end
    <3> QED
      BY <2>1, <3>1, <3>3, <3>4 DEF DecodeBytes, Decoded, Agree
  <2>2. CASE ~Available(short, after, length)
    <3>1. DecodeBytes(kind, short, after, length).error = "end"
      BY <2>2 DEF DecodeBytes, Refused
    <3>2. DecodeBytes(kind, buffer, after, length).error = "none" =>
            ~(DecodeBytes(kind, buffer, after, length).offset <= end)
      BY <2>2 DEF DecodeBytes, Refused, Decoded, Available
    <3> QED
      BY <3>1, <3>2 DEF Agree
  <2> QED
    BY <2>1, <2>2
<1>6. \A r : (r.error = "none" => r.offset <= end) => Agree(r, r, end)
  BY DEF Agree
<1>7. /\ Agree(Refused("unsupported"), Refused("unsupported"), end)
      /\ Agree(Decoded(Scalar(marker, number), after), Decoded(Scalar(marker, number), after), end)
  BY <1>6 DEF Decoded, Refused
<1> HIDE DEF end
<1>8. Agree(DecodeFamily(long, buffer, marker, number, after),
            DecodeFamily(cut, short, marker, number, after), end)
  BY <1>3, <1>4, <1>5, <1>7, FamilyIs DEF length
<1> QED
  BY <1>8 DEF end

\* Families move with the body when the decoders inside do.
LEMMA FamilyMoves ==
  ASSUME NEW buffer \in Seq(0..255), NEW tail \in Seq(0..255), NEW by \in Nat,
         IsTail(buffer, tail, by),
         NEW there, NEW here, AllMoved(there, here, by),
         NEW marker \in 0..255, NEW number \in Seq(0..255), NEW after \in Nat
  PROVE  Moved(DecodeFamily(there, buffer, marker, number, after + by),
               DecodeFamily(here, tail, marker, number, after), by)
<1> DEFINE length == Length(marker, number)
           further == after + by
<1>1. length \in Nat /\ further \in Nat
      /\ Len(tail) \in Nat /\ Len(buffer) = Len(tail) + by
  <2>1. length \in Nat
    BY LengthIsNat
  <2>2. Len(tail) \in Nat
    BY LenProperties
  <2> HIDE DEF length
  <2> QED
    BY <2>1, <2>2 DEF IsTail
<1> HIDE DEF length, further
<1>2. \A count \in Nat :
        Moved(DecodeItems(there, further, count), DecodeItems(here, after, count), by)
  BY ItemsMoved DEF further
<1>3. Moved(DecodeMap(there, further, length), DecodeMap(here, after, length), by)
  <2> DEFINE t == DecodeItems(there, further, 2 * length)
             h == DecodeItems(here, after, 2 * length)
  <2>1. Moved(t, h, by)
    <3>1. 2 * length \in Nat
      BY <1>1
    <3> QED
      BY <1>2, <3>1
  <2>2. /\ DecodeMap(there, further, length)
             = IF length > MaxCollectionLength THEN Refused("large")
               ELSE IF t.error # "none" THEN t
               ELSE Decoded(Value("map", Pairs(t.value)), t.offset)
        /\ DecodeMap(here, after, length)
             = IF length > MaxCollectionLength THEN Refused("large")
               ELSE IF h.error # "none" THEN h
               ELSE Decoded(Value("map", Pairs(h.value)), h.offset)
    BY DEF DecodeMap
  <2> HIDE DEF t, h
  <2> QED
    BY <2>1, <2>2 DEF Moved, Decoded, Refused
<1>4. Moved(DecodeArray(there, further, length), DecodeArray(here, after, length), by)
  <2> DEFINE t == DecodeItems(there, further, length)
             h == DecodeItems(here, after, length)
  <2>1. Moved(t, h, by)
    BY <1>1, <1>2
  <2>2. /\ DecodeArray(there, further, length)
             = IF length > MaxCollectionLength THEN Refused("large")
               ELSE IF t.error # "none" THEN t
               ELSE Decoded(Value("array", t.value), t.offset)
        /\ DecodeArray(here, after, length)
             = IF length > MaxCollectionLength THEN Refused("large")
               ELSE IF h.error # "none" THEN h
               ELSE Decoded(Value("array", h.value), h.offset)
    BY DEF DecodeArray
  <2> HIDE DEF t, h
  <2> QED
    BY <2>1, <2>2 DEF Moved, Decoded, Refused
<1>5. \A kind \in {"string", "binary"} :
        Moved(DecodeBytes(kind, buffer, further, length), DecodeBytes(kind, tail, after, length),
              by)
  <2> SUFFICES ASSUME NEW kind \in {"string", "binary"}
               PROVE  Moved(DecodeBytes(kind, buffer, further, length),
                            DecodeBytes(kind, tail, after, length), by)
    OBVIOUS
  <2>1. Available(buffer, further, length) <=> Available(tail, after, length)
    BY <1>1 DEF Available, further
  <2>2. CASE Available(tail, after, length)
    <3>1. SameFrom(buffer, further, tail, after, length)
      <4> SUFFICES ASSUME NEW i \in 1..length PROVE buffer[further + i] = tail[after + i]
        BY DEF SameFrom
      <4>1. after + i \in 1..Len(tail) /\ further + i = by + (after + i)
        BY <1>1, <2>2 DEF Available, further
      <4> QED
        BY <4>1 DEF IsTail
    <3>2. Bytes(buffer, further, length) = Bytes(tail, after, length)
      BY <1>1, <2>1, <2>2, <3>1, SameBytes
    <3>3. further + length = (after + length) + by /\ after + length \in Nat
      BY <1>1 DEF further
    <3> QED
      BY <2>1, <2>2, <3>2, <3>3 DEF DecodeBytes, Decoded, Moved
  <2>3. CASE ~Available(tail, after, length)
    BY <2>1, <2>3 DEF DecodeBytes, Refused, Moved
  <2> QED
    BY <2>2, <2>3
<1>6. /\ Moved(Refused("unsupported"), Refused("unsupported"), by)
      /\ Moved(Decoded(Scalar(marker, number), further), Decoded(Scalar(marker, number), after),
               by)
  BY DEF Moved, Decoded, Refused, further
<1>7. Moved(DecodeFamily(there, buffer, marker, number, further),
            DecodeFamily(here, tail, marker, number, after), by)
  BY <1>3, <1>4, <1>5, <1>6, FamilyIs DEF length
<1> QED
  BY <1>7 DEF further
\* What DecodeMarker finds when the marker and the bytes of its number are there.
LEMMA MarkerIs ==
  ASSUME NEW buffer \in Seq(0..255), NEW inner, NEW offset \in Nat
  PROVE  LET marker == buffer[offset + 1]
             width == Width(marker)
             number == Bytes(buffer, offset + 1, width)
             there == offset < Len(buffer) /\ Available(buffer, offset + 1, width)
         IN  /\ offset < Len(buffer) => marker \in 0..255
             /\ there =>
                  /\ number \in Seq(0..255)
                  /\ offset + 1 + width <= Len(buffer)
                  /\ DecodeMarker(inner, buffer, offset)
                       = DecodeFamily(inner, buffer, marker, number, offset + 1 + width)
             /\ ~there => DecodeMarker(inner, buffer, offset) = Refused("end")
<1> DEFINE marker == buffer[offset + 1]
           width == Width(marker)
           number == Bytes(buffer, offset + 1, width)
           there == offset < Len(buffer) /\ Available(buffer, offset + 1, width)
           after == offset + 1 + width
<1>1. Len(buffer) \in Nat /\ width \in Nat /\ offset + 1 \in Nat
  <2>1. width \in Nat
    BY WidthIsNat
  <2>2. Len(buffer) \in Nat
    BY LenProperties
  <2> QED
    BY <2>1, <2>2
<1>2. offset < Len(buffer) => marker \in 0..255
  <2>1. offset < Len(buffer) => offset + 1 \in 1..Len(buffer)
    BY <1>1
  <2> QED
    BY <2>1, ElementOfSeq
<1>3. DecodeMarker(inner, buffer, offset)
        = IF offset >= Len(buffer) \/ ~Available(buffer, offset + 1, width) THEN Refused("end")
          ELSE DecodeFamily(inner, buffer, marker, number, after)
  BY DEF DecodeMarker
<1>4. offset < Len(buffer) <=> ~(offset >= Len(buffer))
  BY <1>1
<1>5. there => number \in Seq(0..255) /\ after <= Len(buffer)
  <2> SUFFICES ASSUME there PROVE number \in Seq(0..255) /\ after <= Len(buffer)
    OBVIOUS
  <2> HIDE DEF width
  <2>1. number \in Seq(0..255)
    BY <1>1, BytesThere
  <2>2. after <= Len(buffer)
    BY <1>1 DEF Available
  <2> QED
    BY <2>1, <2>2
<1> HIDE DEF marker, width, number, after
<1>6. /\ there => DecodeMarker(inner, buffer, offset)
                    = DecodeFamily(inner, buffer, marker, number, after)
      /\ ~there => DecodeMarker(inner, buffer, offset) = Refused("end")
  BY <1>3, <1>4
<1> QED
  BY <1>2, <1>5, <1>6 DEF marker, width, number, after

\* With its marker, a value takes at least a byte.
LEMMA MarkerReads ==
  ASSUME NEW buffer \in Seq(0..255), NEW inner, Progress(inner, Len(buffer)), NEW offset \in Nat
  PROVE  Reads(DecodeMarker(inner, buffer, offset), offset + 1, Len(buffer), ValuesOf(inner))
<1> DEFINE marker == buffer[offset + 1]
           width == Width(marker)
           number == Bytes(buffer, offset + 1, width)
           after == offset + 1 + width
           V == ValuesOf(inner)
           r == DecodeMarker(inner, buffer, offset)
<1>1. Len(buffer) \in Nat /\ width \in Nat /\ after \in Nat /\ offset + 1 <= after
  <2>1. width \in Nat
    BY WidthIsNat
  <2>2. Len(buffer) \in Nat
    BY LenProperties
  <2> HIDE DEF width
  <2> QED
    BY <2>1, <2>2
<1>2. CASE offset < Len(buffer) /\ Available(buffer, offset + 1, width)
  <2>1. /\ marker \in 0..255 /\ number \in Seq(0..255) /\ after <= Len(buffer)
        /\ r = DecodeFamily(inner, buffer, marker, number, after)
    BY <1>2, MarkerIs
  <2> HIDE DEF marker, number, width, after, r
  <2>2. Reads(r, after, Len(buffer), V)
    BY <1>1, <2>1, FamilyReads
  <2> HIDE DEF V
  <2>3. Reads(r, offset + 1, Len(buffer), V)
    BY <1>1, <2>2 DEF Reads
  <2> QED
    BY <2>3 DEF V, r
<1>3. CASE ~(offset < Len(buffer) /\ Available(buffer, offset + 1, width))
  <2>1. r = Refused("end")
    BY <1>3, MarkerIs
  <2> HIDE DEF r
  <2>2. Reads(r, offset + 1, Len(buffer), V)
    BY <2>1 DEF Reads, Refused
  <2> QED
    BY <2>2 DEF r
<1> QED
  BY <1>2, <1>3

\* A marker at or across the cut is the end; one before it tells the same.
LEMMA MarkerAgrees ==
  ASSUME NEW buffer \in Seq(0..255), NEW short \in Seq(0..255), IsCut(buffer, short),
         NEW long, NEW cut, Progress(long, Len(buffer)), Progress(cut, Len(short)),
         AllAgree(long, cut, Len(short)), NEW offset \in Nat
  PROVE  Agree(DecodeMarker(long, buffer, offset), DecodeMarker(cut, short, offset), Len(short))
<1> DEFINE l == DecodeMarker(long, buffer, offset)
           s == DecodeMarker(cut, short, offset)
           marker == buffer[offset + 1]
           width == Width(marker)
           number == Bytes(buffer, offset + 1, width)
           after == offset + 1 + width
<1>1. Len(buffer) \in Nat /\ Len(short) \in Nat /\ Len(short) <= Len(buffer)
  <2>1. Len(buffer) \in Nat /\ Len(short) \in Nat
    BY LenProperties
  <2> QED
    BY <2>1 DEF IsCut
<1>2. width \in Nat /\ offset + 1 \in Nat /\ after \in Nat
  <2>1. width \in Nat
    BY WidthIsNat
  <2> HIDE DEF width
  <2> QED
    BY <2>1
<1>3. Reads(l, offset + 1, Len(buffer), ValuesOf(long))
  BY MarkerReads
<1>4. CASE offset >= Len(short)
  \* Nothing is there, and what is read of the whole body ends after the cut.
  <2>1. ~(offset < Len(short))
    BY <1>1, <1>4
  <2>2. s = Refused("end")
    BY <2>1, MarkerIs
  <2> HIDE DEF l, s
  <2>3. l.error = "none" => ~(l.offset <= Len(short))
    BY <1>1, <1>3, <1>4 DEF Reads
  <2>4. Agree(l, s, Len(short))
    BY <2>2, <2>3 DEF Agree, Refused
  <2> QED
    BY <2>4 DEF l, s
<1>5. CASE ~(offset >= Len(short))
  <2>1. offset < Len(short) /\ offset < Len(buffer) /\ offset + 1 \in 1..Len(short)
    BY <1>1, <1>5
  <2>2. short[offset + 1] = marker
    BY <2>1 DEF IsCut
  <2>3. marker \in 0..255
    BY <2>1, MarkerIs
  <2>4. CASE Available(short, offset + 1, width)
    <3>1. Available(buffer, offset + 1, width)
      <4> HIDE DEF width
      <4> QED
        BY <1>1, <1>2, <2>4 DEF Available
    <3>2. SameFrom(buffer, offset + 1, short, offset + 1, width)
      <4> HIDE DEF width
      <4> QED
        BY <1>1, <1>2, <2>4 DEF Available, SameFrom, IsCut
    <3>3. Bytes(short, offset + 1, width) = number
      <4> HIDE DEF width
      <4> QED
        BY <1>2, <2>4, <3>1, <3>2, SameBytes
    <3>4. /\ number \in Seq(0..255)
          /\ l = DecodeFamily(long, buffer, marker, number, after)
      BY <2>1, <3>1, MarkerIs
    <3>5. after <= Len(short) /\ s = DecodeFamily(cut, short, marker, number, after)
      BY <2>1, <2>2, <2>4, <3>3, MarkerIs
    <3> HIDE DEF l, s, marker, width, number, after
    <3>6. Agree(l, s, Len(short))
      BY <1>2, <2>3, <3>4, <3>5, FamilyAgrees
    <3> QED
      BY <3>6 DEF l, s
  <2>5. CASE ~Available(short, offset + 1, width)
    <3>1. s = Refused("end")
      BY <2>2, <2>5, MarkerIs
    <3>2. l.error = "none" => ~(l.offset <= Len(short))
      <4> SUFFICES ASSUME l.error = "none" PROVE ~(l.offset <= Len(short))
        OBVIOUS
      <4>1. Available(buffer, offset + 1, width)
        <5>1. ~Available(buffer, offset + 1, width) => l = Refused("end")
          BY MarkerIs
        <5> HIDE DEF l
        <5> QED
          BY <5>1 DEF Refused
      <4>2. /\ number \in Seq(0..255) /\ after <= Len(buffer)
            /\ l = DecodeFamily(long, buffer, marker, number, after)
        BY <2>1, <4>1, MarkerIs
      <4> HIDE DEF l, marker, number, width, after
      <4>3. Reads(l, after, Len(buffer), ValuesOf(long))
        BY <1>2, <2>3, <4>2, FamilyReads
      <4>4. l.offset \in Nat /\ after <= l.offset
        BY <4>3 DEF Reads
      <4>5. ~(after <= Len(short))
        BY <1>1, <1>2, <2>5 DEF Available, after
      <4> QED
        BY <1>1, <1>2, <4>4, <4>5
    <3> HIDE DEF l, s
    <3>3. Agree(l, s, Len(short))
      BY <3>1, <3>2 DEF Agree, Refused
    <3> QED
      BY <3>3 DEF l, s
  <2> QED
    BY <2>4, <2>5
<1> QED
  BY <1>4, <1>5

\* Markers move with the body.
LEMMA MarkerMoves ==
  ASSUME NEW buffer \in Seq(0..255), NEW tail \in Seq(0..255), NEW by \in Nat,
         IsTail(buffer, tail, by),
         NEW there, NEW here, AllMoved(there, here, by), NEW offset \in Nat
  PROVE  Moved(DecodeMarker(there, buffer, offset + by), DecodeMarker(here, tail, offset), by)
<1> DEFINE t == DecodeMarker(there, buffer, offset + by)
           h == DecodeMarker(here, tail, offset)
           marker == tail[offset + 1]
           width == Width(marker)
           number == Bytes(tail, offset + 1, width)
           after == offset + 1 + width
           from == offset + by
<1>1. /\ Len(tail) \in Nat /\ Len(buffer) = Len(tail) + by
      /\ offset + 1 \in Nat /\ from + 1 \in Nat /\ from \in Nat
  <2>1. Len(tail) \in Nat
    BY LenProperties
  <2> QED
    BY <2>1 DEF IsTail
<1>2. width \in Nat /\ after \in Nat /\ from + 1 + width = after + by
  <2>1. width \in Nat
    BY WidthIsNat
  <2> HIDE DEF width
  <2> QED
    BY <2>1
<1>3. from < Len(buffer) <=> offset < Len(tail)
  BY <1>1
<1>4. CASE ~(offset < Len(tail))
  <2>1. h = Refused("end")
    BY <1>4, MarkerIs
  <2>2. t = Refused("end")
    BY <1>1, <1>3, <1>4, MarkerIs
  <2> HIDE DEF t, h
  <2>3. Moved(t, h, by)
    BY <2>1, <2>2 DEF Moved, Refused
  <2> QED
    BY <2>3 DEF t, h
<1>5. CASE offset < Len(tail)
  <2>1. buffer[from + 1] = marker
    <3>1. offset + 1 \in 1..Len(tail) /\ by + (offset + 1) = from + 1
      BY <1>1, <1>5
    <3> QED
      BY <3>1 DEF IsTail
  <2>2. marker \in 0..255
    BY <1>5, MarkerIs
  <2>3. Available(buffer, from + 1, width) <=> Available(tail, offset + 1, width)
    <3> HIDE DEF width
    <3> QED
      BY <1>1, <1>2 DEF Available
  <2>4. CASE ~Available(tail, offset + 1, width)
    <3>1. h = Refused("end")
      BY <2>4, MarkerIs
    <3>2. t = Refused("end")
      BY <1>1, <2>1, <2>3, <2>4, MarkerIs
    <3> HIDE DEF t, h
    <3>3. Moved(t, h, by)
      BY <3>1, <3>2 DEF Moved, Refused
    <3> QED
      BY <3>3 DEF t, h
  <2>5. CASE Available(tail, offset + 1, width)
    <3>1. SameFrom(buffer, from + 1, tail, offset + 1, width)
      <4> HIDE DEF width
      <4> SUFFICES ASSUME NEW i \in 1..width
                   PROVE  buffer[from + 1 + i] = tail[offset + 1 + i]
        BY DEF SameFrom
      <4>1. offset + 1 + i \in 1..Len(tail) /\ by + (offset + 1 + i) = from + 1 + i
        BY <1>1, <1>2, <2>5 DEF Available
      <4>2. buffer[by + (offset + 1 + i)] = tail[offset + 1 + i]
        BY <4>1 DEF IsTail
      <4> HIDE DEF from
      <4> QED
        BY <4>1, <4>2
    <3>2. Bytes(buffer, from + 1, width) = number
      <4> HIDE DEF width, from
      <4> QED
        BY <1>1, <1>2, <2>3, <2>5, <3>1, SameBytes
    <3>3. /\ number \in Seq(0..255)
          /\ h = DecodeFamily(here, tail, marker, number, after)
      BY <1>5, <2>5, MarkerIs
    <3>4. t = DecodeFamily(there, buffer, marker, number, from + 1 + width)
      BY <1>1, <1>3, <1>5, <2>1, <2>3, <2>5, <3>2, MarkerIs
    <3> HIDE DEF t, h, marker, width, number, after, from
    <3>5. Moved(t, h, by)
      BY <1>2, <2>2, <3>3, <3>4, FamilyMoves, ZenonT(40)
    <3> QED
      BY <3>5 DEF t, h
  <2> QED
    BY <2>4, <2>5
<1> QED
  BY <1>4, <1>5
-----------------------------------------------------------------------------
(* The levels of a decoder.                                                *)

IsDecoders(at, buffer, levels) ==
  at = [left \in 0..levels |->
          IF left = 0 THEN [offset \in Nat |-> Refused("deep")]
          ELSE [offset \in Nat |-> DecodeMarker(at[left - 1], buffer, offset)]]

\* The decoders of a body exist, for any number of levels.
LEMMA DecodersExist ==
  ASSUME NEW buffer, NEW levels \in Nat
  PROVE  \E at : IsDecoders(at, buffer, levels)
<1> DEFINE S == {m \in Nat : \E at : IsDecoders(at, buffer, m)}
           Deep == [offset \in Nat |-> Refused("deep")]
           Outside(inner) == [offset \in Nat |-> DecodeMarker(inner, buffer, offset)]
<1>a. ASSUME NEW at, NEW m
      PROVE  IsDecoders(at, buffer, m) <=>
               at = [left \in 0..m |-> IF left = 0 THEN Deep ELSE Outside(at[left - 1])]
  BY DEF IsDecoders
<1> HIDE DEF Deep, Outside
<1>1. 0 \in S
  <2> DEFINE at == [left \in 0..0 |-> Deep]
  <2>1. at = [left \in 0..0 |-> IF left = 0 THEN Deep ELSE Outside(at[left - 1])]
    OBVIOUS
  <2> HIDE DEF at
  <2>2. IsDecoders(at, buffer, 0)
    BY <1>a, <2>1
  <2> QED
    BY <2>2
<1>2. ASSUME NEW m \in 0..(levels - 1), m \in S PROVE m + 1 \in S
  <2>1. PICK at : IsDecoders(at, buffer, m)
    BY <1>2
  <2>2. at = [left \in 0..m |-> IF left = 0 THEN Deep ELSE Outside(at[left - 1])]
    BY <1>a, <2>1
  <2> DEFINE next == [left \in 0..(m + 1) |-> IF left = m + 1 THEN Outside(at[m]) ELSE at[left]]
  <2>3. ASSUME NEW left \in 0..(m + 1)
        PROVE  next[left] = IF left = 0 THEN Deep ELSE Outside(next[left - 1])
    <3>1. CASE left = 0
      <4>1. at[0] = Deep
        BY <2>2
      <4> QED
        BY <3>1, <4>1
    <3>2. CASE left # 0
      <4>1. left - 1 \in 0..m /\ next[left - 1] = at[left - 1]
        BY <3>2
      <4>2. left # m + 1 => at[left] = Outside(at[left - 1])
        BY <2>2, <3>2
      <4>3. left = m + 1 => left - 1 = m
        OBVIOUS
      <4> QED
        BY <3>2, <4>1, <4>2, <4>3
    <3> QED
      BY <3>1, <3>2
  <2>4. next = [left \in 0..(m + 1) |-> next[left]]
    OBVIOUS
  <2> HIDE DEF next
  <2>5. next = [left \in 0..(m + 1) |-> IF left = 0 THEN Deep ELSE Outside(next[left - 1])]
    BY <2>3, <2>4
  <2>6. IsDecoders(next, buffer, m + 1)
    BY <1>a, <2>5
  <2> QED
    BY <2>6
<1>3. 0..levels \subseteq S
  <2> HIDE DEF S
  <2> QED
    BY <1>1, <1>2, UpTo
<1> QED
  BY <1>3

\* There is a level more than there is depth.
LEMMA LevelsIsNat ==
  Levels \in Nat /\ Levels = MaxDepth + 1
  BY PackAssumption DEF Levels

\* The level below the last refuses everything, and each other reads with the one inside.
LEMMA DecodersAre ==
  ASSUME NEW buffer
  PROVE  /\ \A p \in Nat : DecodersOf(buffer)[0][p] = Refused("deep")
         /\ \A left \in 1..Levels, p \in Nat :
              DecodersOf(buffer)[left][p] = DecodeMarker(DecodersOf(buffer)[left - 1], buffer, p)
<1> DEFINE d == CHOOSE at : IsDecoders(at, buffer, Levels)
<1>1. IsDecoders(d, buffer, Levels)
  BY DecodersExist, LevelsIsNat
<1>2. DecodersOf(buffer) = d
  BY DEF DecodersOf, IsDecoders
<1> HIDE DEF d
<1>3. d[0] = [offset \in Nat |-> Refused("deep")]
  BY <1>1, LevelsIsNat DEF IsDecoders
<1>4. ASSUME NEW left \in 1..Levels
      PROVE  d[left] = [offset \in Nat |-> DecodeMarker(d[left - 1], buffer, offset)]
  <2>1. left \in 0..Levels /\ left # 0
    BY LevelsIsNat
  <2> QED
    BY <1>1, <2>1 DEF IsDecoders
<1> QED
  BY <1>2, <1>3, <1>4, ZenonT(40)

\* Every level progresses, and what it reads consists of values of the level inside.
LEMMA DecodersProgress ==
  ASSUME NEW buffer \in Seq(0..255)
  PROVE  \A left \in 0..Levels : Progress(DecodersOf(buffer)[left], Len(buffer))
<1> DEFINE d == DecodersOf(buffer)
           S == {left \in 0..Levels : Progress(d[left], Len(buffer))}
<1>1. 0 \in S
  BY DecodersAre, LevelsIsNat DEF Progress, Refused
<1>2. ASSUME NEW k \in 0..(Levels - 1), k \in S PROVE k + 1 \in S
  <2>1. k + 1 \in 1..Levels /\ k + 1 \in 0..Levels /\ (k + 1) - 1 = k
    BY LevelsIsNat
  <2>2. \A p \in Nat : d[k + 1][p] = DecodeMarker(d[k], buffer, p)
    BY <2>1, DecodersAre
  <2>3. Progress(d[k], Len(buffer))
    BY <1>2
  <2> HIDE DEF d
  <2>4. \A p \in Nat : Reads(d[k + 1][p], p + 1, Len(buffer), ValuesOf(d[k]))
    BY <2>2, <2>3, MarkerReads
  <2>5. Progress(d[k + 1], Len(buffer))
    BY <2>4 DEF Reads, Progress
  <2> QED
    BY <2>1, <2>5
<1>3. 0..Levels \subseteq S
  <2> HIDE DEF S
  <2> QED
    BY <1>1, <1>2, UpTo, LevelsIsNat
<1> QED
  BY <1>3

\* What a level reads is made of values of the one inside.
LEMMA DecodersRead ==
  ASSUME NEW buffer \in Seq(0..255), NEW left \in 1..Levels, NEW p \in Nat
  PROVE  Reads(DecodersOf(buffer)[left][p], p + 1, Len(buffer),
               ValuesOf(DecodersOf(buffer)[left - 1]))
<1>1. left - 1 \in 0..Levels
  BY LevelsIsNat
<1>2. DecodersOf(buffer)[left][p] = DecodeMarker(DecodersOf(buffer)[left - 1], buffer, p)
  BY DecodersAre
<1>3. Progress(DecodersOf(buffer)[left - 1], Len(buffer))
  BY <1>1, DecodersProgress
<1> QED
  BY <1>2, <1>3, MarkerReads

\* The decoders of a body that is cut agree with those of the body.
LEMMA DecodersAgree ==
  ASSUME NEW buffer \in Seq(0..255), NEW short \in Seq(0..255), IsCut(buffer, short)
  PROVE  \A left \in 0..Levels :
           AllAgree(DecodersOf(buffer)[left], DecodersOf(short)[left], Len(short))
<1> DEFINE d == DecodersOf(buffer)
           s == DecodersOf(short)
           S == {left \in 0..Levels : AllAgree(d[left], s[left], Len(short))}
<1>1. 0 \in S
  BY DecodersAre, LevelsIsNat DEF AllAgree, Agree, Refused
<1>2. ASSUME NEW k \in 0..(Levels - 1), k \in S PROVE k + 1 \in S
  <2>1. k + 1 \in 1..Levels /\ k + 1 \in 0..Levels /\ (k + 1) - 1 = k /\ k \in 0..Levels
    BY LevelsIsNat
  <2>2. \A p \in Nat : /\ d[k + 1][p] = DecodeMarker(d[k], buffer, p)
                       /\ s[k + 1][p] = DecodeMarker(s[k], short, p)
    BY <2>1, DecodersAre
  <2>3. /\ Progress(d[k], Len(buffer)) /\ Progress(s[k], Len(short))
        /\ AllAgree(d[k], s[k], Len(short))
    BY <1>2, <2>1, DecodersProgress
  <2> HIDE DEF d, s
  <2>4. AllAgree(d[k + 1], s[k + 1], Len(short))
    BY <2>2, <2>3, MarkerAgrees DEF AllAgree
  <2> QED
    BY <2>1, <2>4
<1>3. 0..Levels \subseteq S
  <2> HIDE DEF S
  <2> QED
    BY <1>1, <1>2, UpTo, LevelsIsNat
<1> QED
  BY <1>3

\* The decoders of what a body ends with read the same, further on.
LEMMA DecodersMove ==
  ASSUME NEW buffer \in Seq(0..255), NEW tail \in Seq(0..255), NEW by \in Nat,
         IsTail(buffer, tail, by)
  PROVE  \A left \in 0..Levels : AllMoved(DecodersOf(buffer)[left], DecodersOf(tail)[left], by)
<1> DEFINE d == DecodersOf(buffer)
           s == DecodersOf(tail)
           S == {left \in 0..Levels : AllMoved(d[left], s[left], by)}
<1>1. 0 \in S
  BY DecodersAre, LevelsIsNat DEF AllMoved, Moved, Refused
<1>2. ASSUME NEW k \in 0..(Levels - 1), k \in S PROVE k + 1 \in S
  <2>1. k + 1 \in 1..Levels /\ k + 1 \in 0..Levels /\ (k + 1) - 1 = k
    BY LevelsIsNat
  <2>2. \A p \in Nat : /\ d[k + 1][p + by] = DecodeMarker(d[k], buffer, p + by)
                       /\ s[k + 1][p] = DecodeMarker(s[k], tail, p)
    BY <2>1, DecodersAre
  <2>3. AllMoved(d[k], s[k], by)
    BY <1>2
  <2> HIDE DEF d, s
  <2>4. \A p \in Nat : Moved(DecodeMarker(d[k], buffer, p + by), DecodeMarker(s[k], tail, p), by)
    BY <2>3, MarkerMoves
  <2>5. AllMoved(d[k + 1], s[k + 1], by)
    BY <2>2, <2>4 DEF AllMoved
  <2> QED
    BY <2>1, <2>5
<1>3. 0..Levels \subseteq S
  <2> HIDE DEF S
  <2> QED
    BY <1>1, <1>2, UpTo, LevelsIsNat
<1> QED
  BY <1>3
-----------------------------------------------------------------------------
(* A value is made of its own bytes only.                                  *)

\* A body is bytes (the invariant the theorems rest on).
PackTypeOK == packed \in Seq(0..255)

\* It stays bytes whatever chunks it is put together from.
LEMMA PackTypeOKInvariant ==
  PackSpec => []PackTypeOK
<1>1. PackInit => PackTypeOK
  BY DEF PackInit, PackTypeOK
<1>2. PackTypeOK /\ [PackNext]_packed => PackTypeOK'
  <2> SUFFICES ASSUME PackTypeOK, PackNext PROVE PackTypeOK'
    BY DEF PackTypeOK
  <2>1. PICK chunk \in Chunks : packed' = packed \o chunk
    BY DEF PackNext
  <2>2. chunk \in Seq(0..255)
    BY PackAssumption
  <2> QED
    BY <2>1, <2>2, ConcatProperties DEF PackTypeOK
<1> QED
  BY <1>1, <1>2, PTL DEF PackSpec

\* The first bytes of a body are a cut of it.
LEMMA BytesAreCut ==
  ASSUME NEW buffer \in Seq(0..255), NEW n \in 0..Len(buffer)
  PROVE  /\ Bytes(buffer, 0, n) \in Seq(0..255) /\ Len(Bytes(buffer, 0, n)) = n
         /\ IsCut(buffer, Bytes(buffer, 0, n))
<1>1. Len(buffer) \in Nat
  BY LenProperties
<1>2. Available(buffer, 0, n)
  BY <1>1 DEF Available
<1>3. /\ Bytes(buffer, 0, n) \in Seq(0..255) /\ Len(Bytes(buffer, 0, n)) = n
      /\ \A i \in 1..n : Bytes(buffer, 0, n)[i] = buffer[0 + i]
  BY <1>1, <1>2, BytesThere
<1>4. \A i \in 1..n : 0 + i = i
  OBVIOUS
<1> QED
  BY <1>1, <1>3, <1>4 DEF IsCut

\* What is decoded of a body and of its first bytes agrees.
LEMMA CutDecodes ==
  ASSUME NEW buffer \in Seq(0..255), NEW n \in 0..Len(buffer)
  PROVE  Agree(Decode(buffer)[0], Decode(Bytes(buffer, 0, n))[0], n)
<1> DEFINE short == Bytes(buffer, 0, n)
<1>1. short \in Seq(0..255) /\ Len(short) = n /\ IsCut(buffer, short)
  BY BytesAreCut
<1>2. Levels \in 0..Levels
  BY LevelsIsNat
<1> HIDE DEF short
<1>3. AllAgree(DecodersOf(buffer)[Levels], DecodersOf(short)[Levels], n)
  BY <1>1, <1>2, DecodersAgree
<1>4. Agree(Decode(buffer)[0], Decode(short)[0], n)
  BY <1>3 DEF AllAgree, Decode
<1> QED
  BY <1>4 DEF short

\* A value is read from the bytes it is made of and no others: what follows does not
\* change it, and with one byte less it is refused as incomplete.
THEOREM ValuesEndWhereTheirBytesEndInvariant ==
  PackSpec => []ValuesEndWhereTheirBytesEnd
<1>1. PackTypeOK => ValuesEndWhereTheirBytesEnd
  <2> SUFFICES ASSUME PackTypeOK PROVE ValuesEndWhereTheirBytesEnd
    OBVIOUS
  <2> DEFINE decoded == Decode(packed)[0]
             Cut(n) == Decode(Bytes(packed, 0, n))[0]
  <2>1. packed \in Seq(0..255) /\ Len(packed) \in Nat
    BY LenProperties DEF PackTypeOK
  <2>2. \A n \in 0..Len(packed) : Agree(decoded, Cut(n), n)
    BY <2>1, CutDecodes
  <2>3. Progress(Decode(packed), Len(packed))
    BY <2>1, DecodersProgress, LevelsIsNat DEF Decode
  <2>4. decoded.error = "none" => decoded.offset \in 0..Len(packed)
    BY <2>1, <2>3 DEF Progress
  <2> HIDE DEF decoded, Cut
  <2>5. ASSUME decoded.error = "none"
        PROVE  /\ Cut(decoded.offset) = decoded
               /\ \A n \in 0..(decoded.offset - 1) : Cut(n).error = "end"
    <3>1. decoded.offset \in 0..Len(packed)
      BY <2>4, <2>5
    <3>2. Cut(decoded.offset) = decoded
      BY <2>2, <2>5, <3>1 DEF Agree
    <3>3. ASSUME NEW n \in 0..(decoded.offset - 1) PROVE Cut(n).error = "end"
      <4>1. n \in 0..Len(packed) /\ ~(decoded.offset <= n)
        BY <2>1, <3>1
      <4> QED
        BY <2>2, <2>5, <4>1 DEF Agree
    <3> QED
      BY <3>2, <3>3
  <2> QED
    BY <2>5 DEF ValuesEndWhereTheirBytesEnd, decoded, Cut
<1> QED
  BY <1>1, PackTypeOKInvariant, PTL
-----------------------------------------------------------------------------
(* The loop over a body is the recursion it is written as.                 *)

AfterFirst(first, read) ==
  IF first.error # "none" THEN first ELSE Prepend(first.value, read[first.offset])

FromOffset(decode, read, offset, end) ==
  IF offset = end THEN Decoded(<<>>, offset) ELSE AfterFirst(decode[offset], read)

IsRead(read, decode, start, end) ==
  read = [offset \in start..end |-> FromOffset(decode, read, offset, end)]

\* What is read from an offset on exists, for any offset: it goes on further on.
LEMMA ReadExists ==
  ASSUME NEW decode, NEW end \in Nat, Progress(decode, end)
  PROVE  \E read : IsRead(read, decode, 0, end)
<1> DEFINE S == {m \in 0..end : \E read : IsRead(read, decode, end - m, end)}
<1>1. 0 \in S
  <2> DEFINE read == [offset \in end..end |-> Decoded(<<>>, offset)]
  <2>1. read = [offset \in end..end |-> FromOffset(decode, read, offset, end)]
    BY DEF FromOffset
  <2> HIDE DEF read
  <2>2. IsRead(read, decode, end - 0, end)
    BY <2>1 DEF IsRead
  <2> QED
    BY <2>2
<1>2. ASSUME NEW m \in 0..(end - 1), m \in S PROVE m + 1 \in S
  <2> DEFINE start == end - m
  <2>1. start \in Nat /\ start - 1 \in Nat /\ start <= end /\ end - (m + 1) = start - 1
        /\ m + 1 \in 0..end
    OBVIOUS
  <2>2. PICK read : IsRead(read, decode, start, end)
    BY <1>2
  <2> HIDE DEF start
  <2> DEFINE next == [offset \in (start - 1)..end |->
                        IF offset = start - 1 THEN AfterFirst(decode[offset], read)
                        ELSE read[offset]]
  <2>3. \A offset \in start..end : next[offset] = read[offset]
    BY <2>1
  <2>4. ASSUME NEW offset \in (start - 1)..end, offset # end
        PROVE  AfterFirst(decode[offset], next) = AfterFirst(decode[offset], read)
    <3>1. CASE decode[offset].error # "none"
      BY <3>1 DEF AfterFirst
    <3>2. CASE decode[offset].error = "none"
      <4>1. offset \in Nat
        BY <2>1
      <4>2. decode[offset].offset \in start..end
        BY <2>1, <3>2, <4>1 DEF Progress
      <4> HIDE DEF next
      <4> QED
        BY <2>3, <4>2 DEF AfterFirst
    <3> QED
      BY <3>1, <3>2
  <2>5. ASSUME NEW offset \in (start - 1)..end
        PROVE  next[offset] = FromOffset(decode, next, offset, end)
    <3>1. CASE offset = start - 1
      <4>1. offset # end /\ next[offset] = AfterFirst(decode[offset], read)
        BY <2>1, <3>1
      <4> HIDE DEF next
      <4> QED
        BY <2>4, <4>1 DEF FromOffset
    <3>2. CASE offset # start - 1
      <4>1. offset \in start..end /\ next[offset] = read[offset]
        BY <2>1, <3>2
      <4>2. read[offset] = FromOffset(decode, read, offset, end)
        BY <2>2, <4>1 DEF IsRead
      <4> HIDE DEF next
      <4> QED
        BY <2>4, <4>1, <4>2 DEF FromOffset
    <3> QED
      BY <3>1, <3>2
  <2>6. next = [offset \in (start - 1)..end |-> next[offset]]
    OBVIOUS
  <2> HIDE DEF next
  <2>7. next = [offset \in (start - 1)..end |-> FromOffset(decode, next, offset, end)]
    BY <2>5, <2>6
  <2>8. IsRead(next, decode, end - (m + 1), end)
    BY <2>1, <2>7 DEF IsRead
  <2> QED
    BY <2>1, <2>8
<1>3. end \in S
  <2> HIDE DEF S
  <2>1. 0..end \subseteq S
    BY <1>1, <1>2, UpTo
  <2> QED
    BY <2>1
<1>4. \E read : IsRead(read, decode, end - end, end)
  BY <1>3
<1>5. end - end = 0
  OBVIOUS
<1> QED
  BY <1>4, <1>5

\* Decoding a body at depth 0 progresses, and ends in the body.
LEMMA DecodeProgresses ==
  ASSUME NEW buffer \in Seq(0..255)
  PROVE  Progress(Decode(buffer), Len(buffer)) /\ Len(buffer) \in Nat
<1>1. Len(buffer) \in Nat
  BY LenProperties
<1>2. Progress(DecodersOf(buffer)[Levels], Len(buffer))
  BY DecodersProgress, LevelsIsNat
<1> QED
  BY <1>1, <1>2 DEF Decode

\* ReadValues is the function that goes on from every offset.
LEMMA ReadIs ==
  ASSUME NEW buffer \in Seq(0..255)
  PROVE  \A offset \in 0..Len(buffer) :
           ReadValues(buffer)[offset]
             = FromOffset(Decode(buffer), ReadValues(buffer), offset, Len(buffer))
<1> DEFINE r == CHOOSE read : IsRead(read, Decode(buffer), 0, Len(buffer))
<1>1. IsRead(r, Decode(buffer), 0, Len(buffer))
  BY DecodeProgresses, ReadExists
<1>2. ReadValues(buffer) = r
  BY DEF ReadValues, IsRead, FromOffset, AfterFirst
<1> HIDE DEF r
<1> QED
  BY <1>1, <1>2 DEF IsRead

\* What is read from an offset on.
LEMMA ReadFrom ==
  ASSUME NEW buffer \in Seq(0..255), NEW offset \in 0..Len(buffer)
  PROVE  LET first == Decode(buffer)[offset]
             read == ReadValues(buffer)
         IN  /\ offset = Len(buffer) => read[offset] = Decoded(<<>>, offset)
             /\ offset # Len(buffer) /\ first.error # "none" => read[offset] = first
             /\ offset # Len(buffer) /\ first.error = "none" =>
                  /\ first.offset \in (offset + 1)..Len(buffer)
                  /\ read[offset] = Prepend(first.value, read[first.offset])
<1>1. ReadValues(buffer)[offset]
        = FromOffset(Decode(buffer), ReadValues(buffer), offset, Len(buffer))
  BY ReadIs
<1>2. offset \in Nat /\ Len(buffer) \in Nat
  BY LenProperties
<1>3. Decode(buffer)[offset].error = "none" =>
        Decode(buffer)[offset].offset \in (offset + 1)..Len(buffer)
  BY <1>2, DecodeProgresses DEF Progress
<1> QED
  BY <1>1, <1>3 DEF FromOffset, AfterFirst

\* What holds of the end, and of an offset when it holds of all after it, holds of all.
LEMMA Backwards ==
  ASSUME NEW S, NEW end \in Nat,
         \A p \in 0..end : (\A q \in (p + 1)..end : q \in S) => p \in S
  PROVE  0..end \subseteq S
<1> SUFFICES ASSUME NEW p \in (0..end) \ S PROVE FALSE
  OBVIOUS
<1> DEFINE T == {end - q : q \in (0..end) \ S}
<1>1. T \in SUBSET Nat /\ T # {}
  OBVIOUS
<1> HIDE DEF T
<1>2. PICK i \in T : \A j \in T : i <= j
  BY <1>1, LeastElement
<1>3. PICK q \in (0..end) \ S : i = end - q
  BY DEF T
<1>4. \A s \in (q + 1)..end : s \in S
  <2> SUFFICES ASSUME NEW s \in (q + 1)..end, s \notin S PROVE FALSE
    OBVIOUS
  <2>1. s \in 0..end /\ end - s \in T
    BY DEF T
  <2>2. ~(i <= end - s)
    BY <1>3
  <2> QED
    BY <1>2, <2>1, <2>2
<1> QED
  BY <1>3, <1>4

\* The values of a body are values of its decoder.
LEMMA ReadReads ==
  ASSUME NEW buffer \in Seq(0..255)
  PROVE  \A offset \in 0..Len(buffer) :
           ReadValues(buffer)[offset].error = "none" =>
             ReadValues(buffer)[offset].value \in Seq(ValuesOf(Decode(buffer)))
<1> DEFINE read == ReadValues(buffer)
           end == Len(buffer)
           V == ValuesOf(Decode(buffer))
           S == {p \in 0..end : read[p].error = "none" => read[p].value \in Seq(V)}
<1>1. end \in Nat
  BY LenProperties
<1>2. ASSUME NEW p \in 0..end, \A q \in (p + 1)..end : q \in S
      PROVE  p \in S
  <2> DEFINE first == Decode(buffer)[p]
             rest == read[first.offset]
  <2>1. CASE p = end
    <3>1. read[p] = Decoded(<<>>, p)
      BY <2>1, ReadFrom
    <3> HIDE DEF read, V
    <3>2. read[p].value = <<>>
      BY <3>1 DEF Decoded
    <3>3. read[p].value \in Seq(V)
      BY <3>2, EmptySeq
    <3> QED
      BY <3>3
  <2>2. CASE p # end /\ first.error # "none"
    <3>1. read[p] = first
      BY <2>2, ReadFrom
    <3> HIDE DEF read, V, first
    <3> QED
      BY <2>2, <3>1
  <2>3. CASE p # end /\ first.error = "none"
    <3>1. first.offset \in (p + 1)..end /\ read[p] = Prepend(first.value, rest)
      BY <2>3, ReadFrom
    <3>2. first.value \in V
      BY <2>3, <1>1 DEF ValuesOf
    <3>3. rest.error = "none" => rest.value \in Seq(V)
      BY <1>2, <3>1
    <3> HIDE DEF read, V, first, rest
    <3>4. CASE rest.error # "none"
      BY <3>1, <3>4 DEF Prepend
    <3>5. CASE rest.error = "none"
      <4>1. read[p] = Decoded(<<first.value>> \o rest.value, rest.offset)
        BY <3>1, <3>5 DEF Prepend
      <4>2. <<first.value>> \in Seq(V) /\ rest.value \in Seq(V)
        BY <3>2, <3>3, <3>5
      <4>3. <<first.value>> \o rest.value \in Seq(V)
        BY <4>2, ConcatProperties
      <4>4. read[p].value \in Seq(V)
        BY <4>1, <4>3 DEF Decoded
      <4> QED
        BY <4>4
    <3> QED
      BY <3>4, <3>5
  <2> QED
    BY <2>1, <2>2, <2>3
<1>3. 0..end \subseteq S
  <2> HIDE DEF S, end
  <2> QED
    BY <1>1, <1>2, Backwards
<1> QED
  BY <1>3
-----------------------------------------------------------------------------
(* Nesting is bounded.                                                     *)

IsInside(inside, values, levels) ==
  inside = [n \in 0..levels |->
              IF n = 0 THEN values ELSE UNION {Parts(value) : value \in inside[n - 1]}]

\* What is so many levels inside exists.
LEMMA InsideExists ==
  ASSUME NEW values, NEW levels \in Nat
  PROVE  \E inside : IsInside(inside, values, levels)
<1> DEFINE S == {m \in Nat : \E inside : IsInside(inside, values, m)}
           Next(set) == UNION {Parts(value) : value \in set}
<1>a. ASSUME NEW inside, NEW m
      PROVE  IsInside(inside, values, m) <=>
               inside = [n \in 0..m |-> IF n = 0 THEN values ELSE Next(inside[n - 1])]
  BY DEF IsInside
<1> HIDE DEF Next
<1>1. 0 \in S
  <2> DEFINE inside == [n \in 0..0 |-> values]
  <2>1. inside = [n \in 0..0 |-> IF n = 0 THEN values ELSE Next(inside[n - 1])]
    OBVIOUS
  <2> HIDE DEF inside
  <2>2. IsInside(inside, values, 0)
    BY <1>a, <2>1
  <2> QED
    BY <2>2
<1>2. ASSUME NEW m \in 0..(levels - 1), m \in S PROVE m + 1 \in S
  <2>1. PICK inside : IsInside(inside, values, m)
    BY <1>2
  <2>2. inside = [n \in 0..m |-> IF n = 0 THEN values ELSE Next(inside[n - 1])]
    BY <1>a, <2>1
  <2> DEFINE deeper == [n \in 0..(m + 1) |-> IF n = m + 1 THEN Next(inside[m]) ELSE inside[n]]
  <2>3. ASSUME NEW n \in 0..(m + 1)
        PROVE  deeper[n] = IF n = 0 THEN values ELSE Next(deeper[n - 1])
    <3>1. CASE n = 0
      <4>1. inside[0] = values
        BY <2>2
      <4> QED
        BY <3>1, <4>1
    <3>2. CASE n # 0
      <4>1. n - 1 \in 0..m /\ deeper[n - 1] = inside[n - 1]
        BY <3>2
      <4>2. n # m + 1 => inside[n] = Next(inside[n - 1])
        BY <2>2, <3>2
      <4>3. n = m + 1 => n - 1 = m
        OBVIOUS
      <4> QED
        BY <3>2, <4>1, <4>2, <4>3
    <3> QED
      BY <3>1, <3>2
  <2>4. deeper = [n \in 0..(m + 1) |-> deeper[n]]
    OBVIOUS
  <2> HIDE DEF deeper
  <2>5. deeper = [n \in 0..(m + 1) |-> IF n = 0 THEN values ELSE Next(deeper[n - 1])]
    BY <2>3, <2>4
  <2>6. IsInside(deeper, values, m + 1)
    BY <1>a, <2>5
  <2> QED
    BY <2>6
<1>3. 0..levels \subseteq S
  <2> HIDE DEF S
  <2> QED
    BY <1>1, <1>2, UpTo
<1> QED
  BY <1>3

\* The parts of what a level reads are values of the level inside it.
LEMMA PartsAreInside ==
  ASSUME NEW buffer \in Seq(0..255), NEW left \in 1..Levels,
         NEW value \in ValuesOf(DecodersOf(buffer)[left])
  PROVE  Parts(value) \subseteq ValuesOf(DecodersOf(buffer)[left - 1])
<1> DEFINE d == DecodersOf(buffer)[left]
<1>1. PICK p \in Nat : d[p].error = "none" /\ value = d[p].value
  BY DEF ValuesOf
<1>2. Reads(d[p], p + 1, Len(buffer), ValuesOf(DecodersOf(buffer)[left - 1]))
  BY DecodersRead
<1> HIDE DEF d
<1> QED
  BY <1>1, <1>2 DEF Reads

\* Every level inside takes one level of the decoders, and the last has no values.
LEMMA NothingIsTooDeep ==
  ASSUME NEW buffer \in Seq(0..255), NEW values \in SUBSET ValuesOf(Decode(buffer))
  PROVE  Inside(values, Levels) = {}
<1> DEFINE inside == CHOOSE f : IsInside(f, values, Levels)
           V(left) == ValuesOf(DecodersOf(buffer)[left])
           S == {n \in 0..Levels : inside[n] \subseteq V(Levels - n)}
<1>1. IsInside(inside, values, Levels)
  BY InsideExists, LevelsIsNat
<1>2. Inside(values, Levels) = inside[Levels]
  BY DEF Inside, IsInside
<1> HIDE DEF inside
<1>3. 0 \in S
  <2>1. inside[0] = values /\ Levels - 0 = Levels
    BY <1>1, LevelsIsNat DEF IsInside
  <2>2. inside[0] \subseteq V(Levels)
    BY <2>1 DEF Decode
  <2> HIDE DEF V
  <2> QED
    BY <2>1, <2>2, LevelsIsNat
<1>4. ASSUME NEW k \in 0..(Levels - 1), k \in S PROVE k + 1 \in S
  <2>1. /\ k + 1 \in 0..Levels /\ Levels - k \in 1..Levels /\ (k + 1) - 1 = k
        /\ Levels - (k + 1) = (Levels - k) - 1 /\ k + 1 # 0
    BY LevelsIsNat
  <2>2. inside[k + 1] = UNION {Parts(value) : value \in inside[k]}
    BY <1>1, <2>1 DEF IsInside
  <2>3. inside[k] \subseteq V(Levels - k)
    BY <1>4
  <2>4. \A value \in V(Levels - k) : Parts(value) \subseteq V((Levels - k) - 1)
    BY <2>1, PartsAreInside
  <2> HIDE DEF V
  <2>5. inside[k + 1] \subseteq V((Levels - k) - 1)
    BY <2>2, <2>3, <2>4
  <2> QED
    BY <2>1, <2>5
<1>5. Levels \in S
  <2> HIDE DEF S
  <2>1. 0..Levels \subseteq S
    BY <1>3, <1>4, UpTo, LevelsIsNat
  <2> QED
    BY <2>1, LevelsIsNat
<1>6. V(0) = {}
  BY DecodersAre DEF ValuesOf, Refused
<1>7. Levels - Levels = 0
  BY LevelsIsNat
<1> HIDE DEF V
<1> QED
  BY <1>2, <1>5, <1>6, <1>7

\* No body makes values deeper than the limit, so the recursion of the decoder is bounded.
THEOREM NestingIsBoundedInvariant ==
  PackSpec => []NestingIsBounded
<1>1. PackTypeOK => NestingIsBounded
  <2> SUFFICES ASSUME PackTypeOK, Decodes(packed)
               PROVE  Inside(Range(ReadValues(packed)[0].value), MaxDepth + 1) = {}
    BY DEF NestingIsBounded
  <2> DEFINE values == ReadValues(packed)[0].value
             V == ValuesOf(Decode(packed))
  <2>1. packed \in Seq(0..255) /\ 0 \in 0..Len(packed)
    BY LenProperties DEF PackTypeOK
  <2>2. values \in Seq(V)
    BY <2>1, ReadReads DEF Decodes
  <2>3. Range(values) \subseteq V
    <3> HIDE DEF values, V
    <3> QED
      BY <2>2 DEF Range
  <2>4. Inside(Range(values), Levels) = {}
    BY <2>1, <2>3, NothingIsTooDeep
  <2> QED
    BY <2>4, LevelsIsNat
<1> QED
  BY <1>1, PackTypeOKInvariant, PTL
-----------------------------------------------------------------------------
(* Sequences of sequences, one after the other.                            *)

IsFlattened(f, seqs, count) ==
  f = [i \in 1..count |-> IF i = 1 THEN seqs[i] ELSE f[i - 1] \o seqs[i]]

\* The first sequences, one after the other, exist for any number of them.
LEMMA FlattenedExists ==
  ASSUME NEW seqs, NEW count \in Nat
  PROVE  \E f : IsFlattened(f, seqs, count)
<1> DEFINE S == {m \in Nat : \E f : IsFlattened(f, seqs, m)}
<1>1. 0 \in S
  <2> DEFINE f == [i \in 1..0 |-> seqs[i]]
  <2>1. f = [i \in 1..0 |-> IF i = 1 THEN seqs[i] ELSE f[i - 1] \o seqs[i]]
    OBVIOUS
  <2> HIDE DEF f
  <2>2. IsFlattened(f, seqs, 0)
    BY <2>1 DEF IsFlattened
  <2> QED
    BY <2>2
<1>2. ASSUME NEW m \in 0..(count - 1), m \in S PROVE m + 1 \in S
  <2>1. PICK f : IsFlattened(f, seqs, m)
    BY <1>2
  <2> DEFINE last == IF m = 0 THEN seqs[1] ELSE f[m] \o seqs[m + 1]
             g == [i \in 1..(m + 1) |-> IF i = m + 1 THEN last ELSE f[i]]
  <2>2. ASSUME NEW i \in 1..(m + 1)
        PROVE  g[i] = IF i = 1 THEN seqs[i] ELSE g[i - 1] \o seqs[i]
    <3>1. CASE i = m + 1 /\ m = 0
      BY <3>1
    <3>2. CASE i = m + 1 /\ m # 0
      <4>1. i # 1 /\ i - 1 = m /\ m \in 1..m /\ m # m + 1
        BY <3>2
      <4>2. g[m] = f[m]
        BY <4>1
      <4> QED
        BY <3>2, <4>1, <4>2
    <3>3. CASE i # m + 1
      <4>1. i \in 1..m /\ (i # 1 => i - 1 \in 1..m /\ i - 1 # m + 1)
        BY <3>3
      <4>2. f[i] = IF i = 1 THEN seqs[i] ELSE f[i - 1] \o seqs[i]
        BY <2>1, <4>1 DEF IsFlattened
      <4>3. g[i] = f[i] /\ (i # 1 => g[i - 1] = f[i - 1])
        BY <4>1, <3>3
      <4> QED
        BY <4>2, <4>3
    <3> QED
      BY <3>1, <3>2, <3>3
  <2>3. g = [i \in 1..(m + 1) |-> g[i]]
    OBVIOUS
  <2> HIDE DEF g
  <2>4. IsFlattened(g, seqs, m + 1)
    BY <2>2, <2>3 DEF IsFlattened
  <2> QED
    BY <2>4
<1>3. 0..count \subseteq S
  <2> HIDE DEF S
  <2> QED
    BY <1>1, <1>2, UpTo
<1> QED
  BY <1>3

\* The first n of the sequences, one after the other, in W.
Flattens(h, seqs, W) ==
  /\ h[0] = <<>>
  /\ \A n \in 1..Len(seqs) : h[n] = h[n - 1] \o seqs[n]
  /\ \A n \in 0..Len(seqs) : h[n] \in Seq(W)
  /\ FlattenSeq(seqs) = h[Len(seqs)]

\* FlattenSeq is the last of them, and adds one sequence after the other to none.
LEMMA FlattenSeqIs ==
  ASSUME NEW W, NEW seqs \in Seq(Seq(W))
  PROVE  \E h : Flattens(h, seqs, W)
<1> DEFINE N == Len(seqs)
           g == CHOOSE f : IsFlattened(f, seqs, N)
           h == [n \in 0..N |-> IF n = 0 THEN <<>> ELSE g[n]]
           S == {n \in 0..N : h[n] \in Seq(W)}
<1>1. N \in Nat /\ \A n \in 1..N : seqs[n] \in Seq(W)
  BY LenProperties, ElementOfSeq
<1>2. IsFlattened(g, seqs, N)
  <2> HIDE DEF N
  <2> QED
    BY <1>1, FlattenedExists
<1>3. FlattenSeq(seqs) = IF N = 0 THEN seqs ELSE g[N]
  BY DEF FlattenSeq, IsFlattened
<1>4. N = 0 => seqs = <<>>
  OBVIOUS
<1> HIDE DEF g, N
<1>5. h[0] = <<>>
  BY <1>1
<1>6. ASSUME NEW n \in 1..N PROVE h[n] = h[n - 1] \o seqs[n]
  <2>1. g[n] = IF n = 1 THEN seqs[n] ELSE g[n - 1] \o seqs[n]
    BY <1>2 DEF IsFlattened
  <2>2. h[n] = g[n] /\ n - 1 \in 0..N /\ (n # 1 => h[n - 1] = g[n - 1])
        /\ (n = 1 => n - 1 = 0)
    BY <1>1
  <2>3. <<>> \o seqs[n] = seqs[n]
    BY <1>1, ConcatEmptySeq
  <2> HIDE DEF h
  <2> QED
    BY <1>5, <2>1, <2>2, <2>3
<1>7. h[N] = FlattenSeq(seqs)
  BY <1>1, <1>3, <1>4
<1> HIDE DEF h
<1>8. 0 \in S
  <2>1. h[0] \in Seq(W)
    BY <1>5, EmptySeq
  <2> QED
    BY <1>1, <2>1
<1>9. ASSUME NEW k \in 0..(N - 1), k \in S PROVE k + 1 \in S
  <2>1. k + 1 \in 1..N /\ k + 1 \in 0..N /\ (k + 1) - 1 = k
    BY <1>1
  <2>2. h[k + 1] = h[k] \o seqs[k + 1] /\ h[k] \in Seq(W) /\ seqs[k + 1] \in Seq(W)
    BY <1>1, <1>6, <1>9, <2>1
  <2>3. h[k + 1] \in Seq(W)
    BY <2>2, ConcatProperties
  <2> QED
    BY <2>1, <2>3
<1>10. \A n \in 0..N : h[n] \in Seq(W)
  <2> HIDE DEF S
  <2>1. 0..N \subseteq S
    BY <1>1, <1>8, <1>9, UpTo
  <2> QED
    BY <2>1 DEF S
<1>11. Flattens(h, seqs, W)
  BY <1>5, <1>6, <1>7, <1>10 DEF Flattens, N
<1> QED
  BY <1>11

FlattenedOf(seqs, W) == CHOOSE h : Flattens(h, seqs, W)

\* What is put together of two sequences of sequences.
LEMMA FlattenSeqConcat ==
  ASSUME NEW W, NEW s \in Seq(Seq(W)), NEW t \in Seq(Seq(W))
  PROVE  FlattenSeq(s \o t) = FlattenSeq(s) \o FlattenSeq(t)
<1> DEFINE hs == FlattenedOf(s, W)
           ht == FlattenedOf(t, W)
           h == FlattenedOf(s \o t, W)
           M == Len(s)
           N == Len(t)
<1>1. s \o t \in Seq(Seq(W)) /\ Len(s \o t) = M + N /\ M \in Nat /\ N \in Nat
  BY ConcatProperties, LenProperties
<1>2. Flattens(hs, s, W) /\ Flattens(ht, t, W) /\ Flattens(h, s \o t, W)
  BY <1>1, FlattenSeqIs DEF FlattenedOf
<1>3. /\ \A n \in 1..M : (s \o t)[n] = s[n]
      /\ \A n \in 1..N : (s \o t)[M + n] = t[n]
  BY <1>1
<1> HIDE DEF hs, ht, h, M, N
<1> DEFINE A == {n \in 0..M : h[n] = hs[n]}
           B == {n \in 0..N : h[M + n] = hs[M] \o ht[n]}
<1>4. 0 \in A
  BY <1>1, <1>2 DEF Flattens
<1>5. ASSUME NEW k \in 0..(M - 1), k \in A PROVE k + 1 \in A
  <2>1. k + 1 \in 1..M /\ k + 1 \in 1..(M + N) /\ k + 1 \in 0..M /\ (k + 1) - 1 = k
    BY <1>1
  <2>2. h[k + 1] = h[k] \o (s \o t)[k + 1]
    BY <1>1, <1>2, <2>1 DEF Flattens
  <2>3. hs[k + 1] = hs[k] \o s[k + 1]
    BY <1>1, <1>2, <2>1 DEF Flattens, M
  <2>4. h[k] = hs[k] /\ (s \o t)[k + 1] = s[k + 1]
    BY <1>3, <1>5, <2>1
  <2> QED
    BY <2>1, <2>2, <2>3, <2>4
<1>6. h[M] = hs[M]
  <2> HIDE DEF A
  <2>1. 0..M \subseteq A
    BY <1>1, <1>4, <1>5, UpTo
  <2> QED
    BY <1>1, <2>1 DEF A
<1>7. hs[M] \in Seq(W) /\ \A n \in 0..N : ht[n] \in Seq(W)
  BY <1>1, <1>2 DEF Flattens, M, N
<1>8. 0 \in B
  <2>1. ht[0] = <<>> /\ hs[M] \o <<>> = hs[M] /\ M + 0 = M
    BY <1>1, <1>2, <1>7, ConcatEmptySeq DEF Flattens
  <2>2. h[M + 0] = hs[M] \o ht[0]
    BY <1>6, <2>1, Zenon
  <2>3. 0 \in 0..N
    BY <1>1
  <2> QED
    BY <2>2, <2>3, Zenon
<1>9. ASSUME NEW k \in 0..(N - 1), k \in B PROVE k + 1 \in B
  <2>1. /\ k + 1 \in 1..N /\ M + (k + 1) \in 1..(M + N) /\ k + 1 \in 0..N /\ k \in 0..N
        /\ (k + 1) - 1 = k /\ (M + (k + 1)) - 1 = M + k
    BY <1>1
  <2>2. h[M + (k + 1)] = h[M + k] \o (s \o t)[M + (k + 1)]
    <3>1. \A n \in 1..(M + N) : h[n] = h[n - 1] \o (s \o t)[n]
      BY <1>1, <1>2 DEF Flattens
    <3> QED
      BY <2>1, <3>1
  <2>3. ht[k + 1] = ht[k] \o t[k + 1]
    BY <1>1, <1>2, <2>1 DEF Flattens, N
  <2>4. h[M + k] = hs[M] \o ht[k] /\ (s \o t)[M + (k + 1)] = t[k + 1]
    BY <1>3, <1>9, <2>1
  <2>5. t[k + 1] \in Seq(W)
    BY <2>1, ElementOfSeq DEF N
  <2>6. (hs[M] \o ht[k]) \o t[k + 1] = hs[M] \o (ht[k] \o t[k + 1])
    <3>1. \A x, y, z \in Seq(W) : (x \o y) \o z = x \o (y \o z)
      BY ConcatAssociative, SMTT(30)
    <3>2. ht[k] \in Seq(W)
      BY <1>7, <2>1
    <3> QED
      BY <1>7, <2>5, <3>1, <3>2, Zenon
  <2> QED
    BY <2>1, <2>2, <2>3, <2>4, <2>6
<1>10. h[M + N] = hs[M] \o ht[N]
  <2> HIDE DEF B
  <2>1. 0..N \subseteq B
    BY <1>1, <1>8, <1>9, UpTo
  <2>2. N \in 0..N
    BY <1>1
  <2> QED
    BY <2>1, <2>2, Zenon DEF B
<1> QED
  BY <1>1, <1>2, <1>10 DEF Flattens, M, N
-----------------------------------------------------------------------------
(* The transactions of a body.                                             *)

\* A value with the sequence it is spread to.
LEMMA SpreadsAreSeq ==
  ASSUME NEW V, \A value \in V : WellFormed(value), NEW values \in Seq(V)
  PROVE  [i \in DOMAIN values |-> Spread(values[i])]
           \in Seq(Seq(UNION {Range(Spread(value)) : value \in V}))
<1> DEFINE W == UNION {Range(Spread(value)) : value \in V}
<1>1. ASSUME NEW value \in V PROVE Spread(value) \in Seq(W)
  <2> DEFINE s == Spread(value)
  <2>1. \E X : s \in Seq(X)
    <3>1. CASE value.kind = "array"
      BY <3>1 DEF WellFormed, Spread
    <3>2. CASE value.kind # "array"
      <4>1. <<value>> \in Seq({value})
        OBVIOUS
      <4> QED
        BY <3>2, <4>1 DEF Spread
    <3> QED
      BY <3>1, <3>2
  <2>2. PICK X : s \in Seq(X)
    BY <2>1
  <2>3. Range(s) \subseteq W
    BY DEF W
  <2> HIDE DEF s, W
  <2>4. Len(s) \in Nat /\ s \in [1..Len(s) -> X] /\ DOMAIN s = 1..Len(s)
    BY <2>2, LenProperties
  <2>5. \A i \in 1..Len(s) : s[i] \in W
    BY <2>3, <2>4 DEF Range
  <2>6. s \in [1..Len(s) -> W]
    BY <2>4, <2>5
  <2>7. s \in Seq(W)
    BY <2>4, <2>6
  <2> QED
    BY <2>7 DEF s
<1> DEFINE spread == [i \in DOMAIN values |-> Spread(values[i])]
<1>2. Len(values) \in Nat /\ DOMAIN values = 1..Len(values)
  BY LenProperties
<1>3. \A i \in 1..Len(values) : Spread(values[i]) \in Seq(W)
  BY <1>1, ElementOfSeq
<1> HIDE DEF W
<1>4. spread \in [1..Len(values) -> Seq(W)]
  BY <1>2, <1>3
<1>5. spread \in Seq(Seq(W))
  BY <1>2, <1>4
<1> QED
  BY <1>5 DEF W

\* The transactions of values, one after the other.
TransactionsIn(values) == FlattenSeq([i \in DOMAIN values |-> Spread(values[i])])

\* The transactions of two sequences of values, one after the other.
LEMMA TransactionsConcat ==
  ASSUME NEW V, \A value \in V : WellFormed(value), NEW s \in Seq(V), NEW t \in Seq(V)
  PROVE  TransactionsIn(s \o t) = TransactionsIn(s) \o TransactionsIn(t)
<1> DEFINE W == UNION {Range(Spread(value)) : value \in V}
           Spreads(values) == [i \in DOMAIN values |-> Spread(values[i])]
<1>1. s \o t \in Seq(V)
  BY ConcatProperties
<1>2. Spreads(s) \in Seq(Seq(W)) /\ Spreads(t) \in Seq(Seq(W)) /\ Spreads(s \o t) \in Seq(Seq(W))
  BY <1>1, SpreadsAreSeq
<1>3. /\ Len(s) \in Nat /\ Len(t) \in Nat /\ Len(s \o t) = Len(s) + Len(t)
      /\ DOMAIN s = 1..Len(s) /\ DOMAIN t = 1..Len(t) /\ DOMAIN (s \o t) = 1..Len(s \o t)
  BY <1>1, LenProperties, ConcatProperties
<1>4. /\ Len(Spreads(s)) = Len(s) /\ Len(Spreads(t)) = Len(t)
      /\ Len(Spreads(s \o t)) = Len(s) + Len(t)
  BY <1>2, <1>3
<1>5. Spreads(s) \o Spreads(t) \in Seq(Seq(W))
      /\ Len(Spreads(s) \o Spreads(t)) = Len(s) + Len(t)
  <2> HIDE DEF Spreads, W
  <2> QED
    BY <1>2, <1>4, ConcatProperties
<1>6. ASSUME NEW i \in 1..(Len(s) + Len(t))
      PROVE  Spreads(s \o t)[i] = (Spreads(s) \o Spreads(t))[i]
  <2>1. CASE i \in 1..Len(s)
    <3>1. (s \o t)[i] = s[i]
      BY <1>3, <2>1
    <3>2. Spreads(s \o t)[i] = Spread(s[i]) /\ Spreads(s)[i] = Spread(s[i])
      BY <1>3, <2>1, <3>1
    <3>3. (Spreads(s) \o Spreads(t))[i] = Spreads(s)[i]
      <4> HIDE DEF Spreads, W
      <4> QED
        BY <1>2, <1>3, <1>4, <2>1
    <3> QED
      BY <3>2, <3>3
  <2>2. CASE i \notin 1..Len(s)
    <3>1. i - Len(s) \in 1..Len(t)
      BY <1>3, <2>2
    <3>2. (s \o t)[i] = t[i - Len(s)]
      BY <1>3, <2>2
    <3>3. /\ Spreads(s \o t)[i] = Spread(t[i - Len(s)])
          /\ Spreads(t)[i - Len(s)] = Spread(t[i - Len(s)])
      BY <1>3, <3>1, <3>2
    <3>4. (Spreads(s) \o Spreads(t))[i] = Spreads(t)[i - Len(s)]
      <4> DEFINE a == Spreads(s)
                 b == Spreads(t)
      <4>1. a \in Seq(Seq(W)) /\ b \in Seq(Seq(W)) /\ Len(a) = Len(s) /\ Len(b) = Len(t)
        BY <1>2, <1>4
      <4> HIDE DEF a, b, W
      <4>2. (a \o b)[i] = b[i - Len(s)]
        BY <1>3, <2>2, <4>1
      <4> QED
        BY <4>2 DEF a, b
    <3> QED
      BY <3>3, <3>4
  <2> QED
    BY <2>1, <2>2
<1> HIDE DEF Spreads, W
<1>7. Spreads(s \o t) = Spreads(s) \o Spreads(t)
  BY <1>2, <1>4, <1>5, <1>6, SeqEqual
<1>8. FlattenSeq(Spreads(s) \o Spreads(t)) = FlattenSeq(Spreads(s)) \o FlattenSeq(Spreads(t))
  BY <1>2, FlattenSeqConcat
<1>9. /\ TransactionsIn(s) = FlattenSeq(Spreads(s)) /\ TransactionsIn(t) = FlattenSeq(Spreads(t))
      /\ TransactionsIn(s \o t) = FlattenSeq(Spreads(s \o t))
  BY DEF TransactionsIn, Spreads
<1> QED
  BY <1>7, <1>8, <1>9

\* The values of a decoder are well formed.
LEMMA ValuesAreWellFormed ==
  ASSUME NEW buffer \in Seq(0..255), NEW value \in ValuesOf(Decode(buffer))
  PROVE  WellFormed(value)
<1> DEFINE d == DecodersOf(buffer)[Levels]
<1>1. PICK p \in Nat : d[p].error = "none" /\ value = d[p].value
  BY DEF ValuesOf, Decode
<1>2. Levels \in 1..Levels
  BY LevelsIsNat, PackAssumption
<1>3. Reads(d[p], p + 1, Len(buffer), ValuesOf(DecodersOf(buffer)[Levels - 1]))
  BY <1>2, DecodersRead
<1> HIDE DEF d
<1> QED
  BY <1>1, <1>3 DEF Reads
\* What is read of a body from `by` on is what is read of its tail.
LEMMA TailReads ==
  ASSUME NEW buffer \in Seq(0..255), NEW tail \in Seq(0..255), NEW by \in Nat,
         IsTail(buffer, tail, by)
  PROVE  \A p \in 0..Len(tail) :
           LET there == ReadValues(buffer)[p + by]
               here == ReadValues(tail)[p]
           IN  there.error = here.error /\ (here.error = "none" => there.value = here.value)
<1> DEFINE b == ReadValues(buffer)
           t == ReadValues(tail)
           end == Len(tail)
           Same(p) == b[p + by].error = t[p].error
                      /\ (t[p].error = "none" => b[p + by].value = t[p].value)
           S == {p \in 0..end : Same(p)}
<1>1. end \in Nat /\ Len(buffer) = end + by
  BY LenProperties DEF IsTail
<1>2. AllMoved(Decode(buffer), Decode(tail), by)
  BY DecodersMove, LevelsIsNat DEF Decode
<1>3. ASSUME NEW p \in 0..end, \A q \in (p + 1)..end : q \in S
      PROVE  p \in S
  <2> DEFINE first == Decode(tail)[p]
             later == Decode(buffer)[p + by]
  <2>1. p + by \in 0..Len(buffer) /\ (p = end <=> p + by = Len(buffer)) /\ p \in Nat
    BY <1>1
  <2>2. Moved(later, first, by)
    BY <1>2, <2>1 DEF AllMoved
  <2>3. CASE p = end
    <3>1. t[p] = Decoded(<<>>, p) /\ b[p + by] = Decoded(<<>>, p + by)
      BY <2>1, <2>3, ReadFrom
    <3> HIDE DEF b, t
    <3>2. Same(p)
      BY <3>1 DEF Decoded
    <3> QED
      BY <3>2
  <2>4. CASE p # end /\ first.error # "none"
    <3>1. later.error # "none" /\ later.error = first.error
      BY <2>2, <2>4 DEF Moved
    <3>2. t[p] = first /\ b[p + by] = later
      BY <2>1, <2>4, <3>1, ReadFrom
    <3> HIDE DEF b, t, first, later
    <3>3. Same(p)
      BY <2>4, <3>1, <3>2
    <3> QED
      BY <3>3
  <2>5. CASE p # end /\ first.error = "none"
    <3>1. /\ later.error = "none" /\ later.value = first.value
          /\ later.offset = first.offset + by
      BY <2>2, <2>5 DEF Moved
    <3>2. first.offset \in (p + 1)..end /\ t[p] = Prepend(first.value, t[first.offset])
      BY <2>5, ReadFrom
    <3>3. b[p + by] = Prepend(later.value, b[later.offset])
      BY <2>1, <2>5, <3>1, ReadFrom
    <3>4. Same(first.offset)
      BY <1>3, <3>2
    <3> HIDE DEF b, t, first, later
    <3>5. Same(p)
      <4> DEFINE x == b[later.offset]
                 y == t[first.offset]
      <4>1. x.error = y.error /\ (y.error = "none" => x.value = y.value)
        BY <3>1, <3>4
      <4>2. t[p] = Prepend(first.value, y) /\ b[p + by] = Prepend(first.value, x)
        BY <3>1, <3>2, <3>3
      <4> HIDE DEF x, y
      <4>3. /\ b[p + by].error = x.error /\ t[p].error = y.error
            /\ x.error = "none" => b[p + by].value = <<first.value>> \o x.value
            /\ y.error = "none" => t[p].value = <<first.value>> \o y.value
        BY <4>2 DEF Prepend, Decoded
      <4> QED
        BY <4>1, <4>3
    <3> QED
      BY <3>5
  <2> QED
    BY <2>3, <2>4, <2>5
<1>4. 0..end \subseteq S
  <2> HIDE DEF S, end
  <2> QED
    BY <1>1, <1>3, Backwards
<1> QED
  BY <1>4

\* What is read of a body from p on is what is read of its head, which decodes, and
\* what is read of its tail.
LEMMA HeadReads ==
  ASSUME NEW buffer \in Seq(0..255), NEW head \in Seq(0..255), IsCut(buffer, head)
  PROVE  \A p \in 0..Len(head) :
           LET all == ReadValues(buffer)[p]
               first == ReadValues(head)[p]
               rest == ReadValues(buffer)[Len(head)]
           IN  first.error = "none" =>
                 /\ all.error = "none" <=> rest.error = "none"
                 /\ rest.error = "none" => all.value = first.value \o rest.value
<1> DEFINE b == ReadValues(buffer)
           h == ReadValues(head)
           end == Len(head)
           rest == b[end]
           V == ValuesOf(Decode(buffer)) \union ValuesOf(Decode(head))
           Adds(p) == h[p].error = "none" =>
                        /\ b[p].error = "none" <=> rest.error = "none"
                        /\ rest.error = "none" => b[p].value = h[p].value \o rest.value
           S == {p \in 0..end : Adds(p)}
<1>1. end \in Nat /\ Len(buffer) \in Nat /\ end <= Len(buffer)
  BY LenProperties DEF IsCut
<1>2. AllAgree(Decode(buffer), Decode(head), end)
  BY DecodersAgree, LevelsIsNat DEF Decode
<1>3. rest.error = "none" => rest.value \in Seq(V)
  <2>1. end \in 0..Len(buffer)
    BY <1>1
  <2>2. rest.error = "none" => rest.value \in Seq(ValuesOf(Decode(buffer)))
    BY <2>1, ReadReads
  <2>3. ValuesOf(Decode(buffer)) \subseteq V
    OBVIOUS
  <2> HIDE DEF V, rest
  <2> QED
    BY <2>2, <2>3, SeqMonotonic
<1>4. ASSUME NEW p \in 0..end, \A q \in (p + 1)..end : q \in S
      PROVE  p \in S
  <2>1. CASE p = end
    <3>1. h[p] = Decoded(<<>>, p)
      BY <2>1, ReadFrom
    <3> HIDE DEF V, b, h
    <3>2. h[p].value = <<>>
      BY <3>1 DEF Decoded
    <3>3. rest.error = "none" => <<>> \o rest.value = rest.value
      BY <1>3, ConcatEmptySeq
    <3>4. Adds(p)
      BY <2>1, <3>2, <3>3
    <3> QED
      BY <3>4
  <2>2. CASE p # end /\ h[p].error # "none"
    BY <2>2
  <2>3. CASE p # end /\ h[p].error = "none"
    <3> DEFINE first == Decode(head)[p]
    <3>1. first.error = "none"
      BY <2>3, ReadFrom
    <3>2. first.offset \in (p + 1)..end /\ h[p] = Prepend(first.value, h[first.offset])
      BY <2>3, <3>1, ReadFrom
    <3>3. p \in Nat /\ p \in 0..Len(buffer) /\ p # Len(buffer)
      BY <1>1, <2>3
    <3>4. Decode(buffer)[p] = first
      BY <1>2, <3>1, <3>3 DEF AllAgree, Agree
    <3>5. b[p] = Prepend(first.value, b[first.offset])
      BY <3>1, <3>3, <3>4, ReadFrom, SMTT(30)
    <3>6. Adds(first.offset)
      BY <1>4, <3>2
    <3>7. first.value \in V
      BY <3>1, <3>3 DEF ValuesOf
    <3>8. h[first.offset].error = "none" => h[first.offset].value \in Seq(V)
      <4>1. first.offset \in 0..end
        BY <1>1, <3>2
      <4>2. h[first.offset].error = "none" =>
              h[first.offset].value \in Seq(ValuesOf(Decode(head)))
        BY <4>1, ReadReads
      <4>3. ValuesOf(Decode(head)) \subseteq V
        OBVIOUS
      <4> HIDE DEF V, h, first
      <4> QED
        BY <4>2, <4>3, SeqMonotonic
    <3> HIDE DEF V, b, h, first, rest
    <3>9. h[first.offset].error = "none"
      BY <2>3, <3>2 DEF Prepend
    <3>10. h[p].value = <<first.value>> \o h[first.offset].value
      BY <3>2, <3>9 DEF Prepend, Decoded
    <3>11. b[p].error = "none" <=> b[first.offset].error = "none"
      BY <3>5 DEF Prepend, Decoded
    <3>12. b[first.offset].error = "none" =>
             b[p].value = <<first.value>> \o b[first.offset].value
      BY <3>5 DEF Prepend, Decoded
    <3>13. rest.error = "none" => b[p].value = h[p].value \o rest.value
      <4> SUFFICES ASSUME rest.error = "none" PROVE b[p].value = h[p].value \o rest.value
        OBVIOUS
      <4> DEFINE x == <<first.value>>
                 y == h[first.offset].value
                 z == rest.value
      <4>1. x \in Seq(V) /\ y \in Seq(V) /\ z \in Seq(V)
        BY <1>3, <3>7, <3>8, <3>9
      <4>2. b[p].value = x \o (y \o z) /\ h[p].value = x \o y
        BY <3>6, <3>9, <3>10, <3>12
      <4> HIDE DEF x, y, z
      <4>3. (x \o y) \o z = x \o (y \o z)
        BY <4>1, ConcatAssociative
      <4> QED
        BY <4>2, <4>3 DEF z
    <3>14. Adds(p)
      BY <3>6, <3>9, <3>11, <3>13
    <3> QED
      BY <3>14
  <2> QED
    BY <2>1, <2>2, <2>3
<1>5. 0..end \subseteq S
  <2> HIDE DEF S, end
  <2> QED
    BY <1>1, <1>4, Backwards
<1> QED
  BY <1>5
\* A body that is two bodies one after the other is refused, or checked, for the
\* transactions of both: none hides behind a value or an array before it.
THEOREM TransactionsAddUpInvariant ==
  PackSpec => []TransactionsAddUp
<1>1. PackTypeOK => TransactionsAddUp
  <2> SUFFICES ASSUME PackTypeOK, NEW n \in 1..(Len(packed) - 1),
                      Decodes(SubSeq(packed, 1, n))
               PROVE  LET head == SubSeq(packed, 1, n)
                          tail == SubSeq(packed, n + 1, Len(packed))
                      IN  /\ Decodes(packed) <=> Decodes(tail)
                          /\ Decodes(tail) =>
                               Transactions(packed) = Transactions(head) \o Transactions(tail)
    BY DEF TransactionsAddUp
  <2> DEFINE head == SubSeq(packed, 1, n)
             tail == SubSeq(packed, n + 1, Len(packed))
             all == ReadValues(packed)[0]
             first == ReadValues(head)[0]
             rest == ReadValues(tail)[0]
             middle == ReadValues(packed)[n]
  <2>1. packed \in Seq(0..255) /\ Len(packed) \in Nat /\ n \in Nat /\ n < Len(packed)
    BY LenProperties DEF PackTypeOK
  <2>2. \A i \in 1..Len(packed) : packed[i] \in 0..255
    BY <2>1, ElementOfSeq
  <2>3. /\ head \in Seq(0..255) /\ Len(head) = n
        /\ \A i \in 1..n : head[i] = packed[i]
    BY <2>1, <2>2, SubSeqProperties
  <2>4. /\ tail \in Seq(0..255) /\ Len(tail) = Len(packed) - n
        /\ \A i \in 1..Len(tail) : tail[i] = packed[n + i]
    BY <2>1, <2>2, SubSeqProperties
  <2>5. IsCut(packed, head) /\ IsTail(packed, tail, n)
    <3> HIDE DEF head, tail
    <3> QED
      BY <2>1, <2>3, <2>4 DEF IsCut, IsTail
  <2>6. packed # <<>> /\ tail # <<>> /\ first.error = "none"
    <3>1. first.error = "none"
      BY DEF Decodes
    <3> HIDE DEF tail
    <3> QED
      BY <2>1, <2>4, <3>1
  <2> HIDE DEF head, tail
  <2>7. /\ all.error = "none" <=> middle.error = "none"
        /\ middle.error = "none" => all.value = first.value \o middle.value
    <3>1. 0 \in 0..Len(head)
      BY <2>1, <2>3
    <3> QED
      BY <2>1, <2>3, <2>5, <2>6, <3>1, HeadReads
  <2>8. middle.error = rest.error /\ (rest.error = "none" => middle.value = rest.value)
    <3>1. 0 \in 0..Len(tail) /\ 0 + n = n
      BY <2>1, <2>4
    <3>2. /\ ReadValues(packed)[0 + n].error = rest.error
          /\ rest.error = "none" => ReadValues(packed)[0 + n].value = rest.value
      BY <2>1, <2>4, <2>5, <3>1, TailReads
    <3> QED
      BY <3>1, <3>2
  <2>9. Decodes(packed) <=> Decodes(tail)
    BY <2>6, <2>7, <2>8 DEF Decodes
  <2>10. ASSUME Decodes(tail)
         PROVE  Transactions(packed) = Transactions(head) \o Transactions(tail)
    <3> DEFINE V == ValuesOf(Decode(head)) \union ValuesOf(Decode(tail))
    <3>1. rest.error = "none"
      BY <2>10 DEF Decodes
    <3>2. 0 \in 0..Len(head) /\ 0 \in 0..Len(tail)
      BY <2>1, <2>3, <2>4
    <3>3. /\ first.value \in Seq(ValuesOf(Decode(head)))
          /\ rest.value \in Seq(ValuesOf(Decode(tail)))
      BY <2>3, <2>4, <2>6, <3>1, <3>2, ReadReads
    <3>4. ValuesOf(Decode(head)) \subseteq V /\ ValuesOf(Decode(tail)) \subseteq V
      OBVIOUS
    <3>5. \A value \in V : WellFormed(value)
      BY <2>3, <2>4, ValuesAreWellFormed
    <3> HIDE DEF V, all, first, middle, rest
    <3>6. first.value \in Seq(V) /\ rest.value \in Seq(V)
      BY <3>3, <3>4, SeqMonotonic
    <3>7. all.value = first.value \o rest.value
      BY <2>7, <2>8, <3>1
    <3>8. TransactionsIn(all.value) = TransactionsIn(first.value) \o TransactionsIn(rest.value)
      BY <3>5, <3>6, <3>7, TransactionsConcat
    <3>9. /\ Transactions(packed) = TransactionsIn(all.value)
          /\ Transactions(head) = TransactionsIn(first.value)
          /\ Transactions(tail) = TransactionsIn(rest.value)
      BY DEF Transactions, TransactionsIn, all, first, rest
    <3> QED
      BY <3>8, <3>9
  <2> QED
    BY <2>9, <2>10 DEF head, tail
<1> QED
  BY <1>1, PackTypeOKInvariant, PTL
=============================================================================
