--------------------------- MODULE ContentProofs ----------------------------
(***************************************************************************)
(* What the program makes of the content of a file, for files of any       *)
(* length: that reading by chunks is never seen in the sniffer's verdict,  *)
(* that every word of the user stays through any sequence of checks and    *)
(* strips, and that a diff makes the new text out of the old one.          *)
(*                                                                         *)
(* The argument about words: what a header without errors spans is markup  *)
(* (SpanHolds), what is laid out is markup (RenderedTyped), what is        *)
(* trimmed is space, and so texts that are made by replacing, inserting    *)
(* and removing such lines have the words they had (KeepsWords).  That of  *)
(* the diff: lines are cut as readlines() cuts them and are found again in *)
(* what is made of them (LinesOnly), and what is common to both ends of    *)
(* two files does not overlap (EditFound).                                 *)
(***************************************************************************)
EXTENDS Sniffer, HeaderText, SequenceLemmas

-----------------------------------------------------------------------------
(* Line ends between two positions of a text.                              *)

Pairs(t, a, b) == {p \in a .. b : t[p] = "CR" /\ p < b /\ t[p + 1] = "LF"}
Alone(t, a, b) == {p \in a .. b : t[p] = "CR" /\ p < b /\ t[p + 1] # "LF"}
Feeds(t, a, b) == {p \in a .. b : t[p] = "LF" /\ (p = a \/ t[p - 1] # "CR")}

\* The line ends in t[a..b], without a CR at the very end.
Between(t, a, b) ==
  [lf |-> Cardinality(Feeds(t, a, b)), crlf |-> Cardinality(Pairs(t, a, b)),
   cr |-> Cardinality(Alone(t, a, b))]

LEMMA AreFinite ==
  ASSUME NEW t, NEW a \in Nat, NEW b \in Nat
  PROVE  /\ IsFiniteSet(Pairs(t, a, b)) /\ IsFiniteSet(Alone(t, a, b))
         /\ IsFiniteSet(Feeds(t, a, b))
         /\ Cardinality(Pairs(t, a, b)) \in Nat /\ Cardinality(Alone(t, a, b)) \in Nat
         /\ Cardinality(Feeds(t, a, b)) \in Nat
<1>1. IsFiniteSet(a .. b)
  BY FS_Interval
<1>2. /\ Pairs(t, a, b) \subseteq a .. b /\ Alone(t, a, b) \subseteq a .. b
      /\ Feeds(t, a, b) \subseteq a .. b
  BY DEF Pairs, Alone, Feeds
<1>3. /\ IsFiniteSet(Pairs(t, a, b)) /\ IsFiniteSet(Alone(t, a, b))
      /\ IsFiniteSet(Feeds(t, a, b))
  BY <1>1, <1>2, FS_Subset
<1> QED BY <1>3, FS_CardinalityType

LEMMA BumpedPairs ==
  ASSUME NEW x \in Nat, NEW y \in Nat, NEW z \in Nat
  PROVE  Bump([lf |-> x, crlf |-> y, cr |-> z], "crlf") = [lf |-> x, crlf |-> y + 1, cr |-> z]
BY DEF Bump

LEMMA BumpedAlone ==
  ASSUME NEW x \in Nat, NEW y \in Nat, NEW z \in Nat
  PROVE  Bump([lf |-> x, crlf |-> y, cr |-> z], "cr") = [lf |-> x, crlf |-> y, cr |-> z + 1]
BY DEF Bump

LEMMA OneMore ==
  ASSUME NEW S, NEW x, IsFiniteSet(S), x \notin S
  PROVE  Cardinality(S \cup {x}) = Cardinality(S) + 1
BY FS_AddElement

\* Nothing is in nothing.
LEMMA NoneBetween ==
  ASSUME NEW t, NEW a \in Nat, NEW b \in Nat, b < a
  PROVE  Between(t, a, b) = NoCounts
<1>1. Pairs(t, a, b) = {} /\ Alone(t, a, b) = {} /\ Feeds(t, a, b) = {}
  BY DEF Pairs, Alone, Feeds
<1> QED BY <1>1, FS_EmptySet DEF Between, NoCounts

(* One turn of the loop of _count_newlines, for what stands between two positions. *)
LEMMA OneTurn ==
  ASSUME NEW t, NEW a \in Nat, NEW b \in Nat, a <= b
  PROVE  Between(t, a, b) =
           IF t[a] = "CR" /\ a = b THEN NoCounts
           ELSE IF t[a] = "CR" /\ t[a + 1] = "LF" THEN Bump(Between(t, a + 2, b), "crlf")
           ELSE IF t[a] = "CR" THEN Bump(Between(t, a + 1, b), "cr")
           ELSE IF t[a] = "LF" THEN Bump(Between(t, a + 1, b), "lf")
           ELSE Between(t, a + 1, b)
<1> USE AreFinite
<1>1. CASE t[a] = "CR" /\ a = b
  <2>1. Pairs(t, a, b) = {} /\ Alone(t, a, b) = {} /\ Feeds(t, a, b) = {}
    BY <1>1 DEF Pairs, Alone, Feeds
  <2> QED BY <1>1, <2>1, FS_EmptySet DEF Between, NoCounts
<1>2. CASE t[a] = "CR" /\ a < b /\ t[a + 1] = "LF"
  <2>1. /\ Pairs(t, a, b) = Pairs(t, a + 2, b) \cup {a}
        /\ a \notin Pairs(t, a + 2, b)
    BY <1>2 DEF Pairs
  <2>2. Alone(t, a, b) = Alone(t, a + 2, b)
    BY <1>2 DEF Alone
  <2>3. Feeds(t, a, b) = Feeds(t, a + 2, b)
    BY <1>2 DEF Feeds
  <2>4. Cardinality(Pairs(t, a, b)) = Cardinality(Pairs(t, a + 2, b)) + 1
    BY <2>1, OneMore
  <2> QED BY <1>2, <2>2, <2>3, <2>4 DEF Between, Bump
<1>3. CASE t[a] = "CR" /\ a < b /\ t[a + 1] # "LF"
  <2>1. /\ Alone(t, a, b) = Alone(t, a + 1, b) \cup {a}
        /\ a \notin Alone(t, a + 1, b)
    BY <1>3 DEF Alone
  <2>2. Pairs(t, a, b) = Pairs(t, a + 1, b)
    BY <1>3 DEF Pairs
  <2>3. Feeds(t, a, b) = Feeds(t, a + 1, b)
    BY <1>3 DEF Feeds
  <2>4. Cardinality(Alone(t, a, b)) = Cardinality(Alone(t, a + 1, b)) + 1
    BY <2>1, OneMore
  <2> QED BY <1>3, <2>2, <2>3, <2>4 DEF Between, Bump
<1>4. CASE t[a] = "LF"
  <2>1. /\ Feeds(t, a, b) = Feeds(t, a + 1, b) \cup {a}
        /\ a \notin Feeds(t, a + 1, b)
    BY <1>4 DEF Feeds
  <2>2. Pairs(t, a, b) = Pairs(t, a + 1, b)
    BY <1>4 DEF Pairs
  <2>3. Alone(t, a, b) = Alone(t, a + 1, b)
    BY <1>4 DEF Alone
  <2>4. Cardinality(Feeds(t, a, b)) = Cardinality(Feeds(t, a + 1, b)) + 1
    BY <2>1, OneMore
  <2> QED BY <1>4, <2>2, <2>3, <2>4 DEF Between, Bump
<1>5. CASE t[a] # "CR" /\ t[a] # "LF"
  <2>1. Feeds(t, a, b) = Feeds(t, a + 1, b)
    BY <1>5 DEF Feeds
  <2>2. Pairs(t, a, b) = Pairs(t, a + 1, b)
    BY <1>5 DEF Pairs
  <2>3. Alone(t, a, b) = Alone(t, a + 1, b)
    BY <1>5 DEF Alone
  <2> QED BY <1>5, <2>1, <2>2, <2>3 DEF Between
<1> QED BY <1>1, <1>2, <1>3, <1>4, <1>5

-----------------------------------------------------------------------------
(* The loop over one chunk.                                                *)

ScanStep(buf, f, i) ==
  IF i > Len(buf) THEN NoCounts
  ELSE IF buf[i] = "CR" /\ i = Len(buf) THEN NoCounts
  ELSE IF buf[i] = "CR" /\ buf[i + 1] = "LF" THEN Bump(f[i + 2], "crlf")
  ELSE IF buf[i] = "CR" THEN Bump(f[i + 1], "cr")
  ELSE IF buf[i] = "LF" THEN Bump(f[i + 1], "lf")
  ELSE f[i + 1]

(* Since the loop goes forward and stops behind the chunk, its equation has one solution at
   most, so that a solution is what it computes. *)
LEMMA ScanIsItsSolution ==
  ASSUME NEW buf, Len(buf) \in Nat, NEW f,
         f = [i \in 1 .. Len(buf) + 2 |-> ScanStep(buf, f, i)],
         NEW start \in 1 .. Len(buf) + 2
  PROVE  ScanFrom(buf, start) = f[start]
<1> DEFINE n == Len(buf)
           Solves(g) == g = [i \in 1 .. n + 2 |-> ScanStep(buf, g, i)]
           g == CHOOSE h : Solves(h)
<1>1. Solves(g)
  <2> HIDE DEF Solves
  <2>1. Solves(f)
    BY DEF Solves
  <2> QED BY <2>1
<1>2. ScanFrom(buf, start) = g[start]
  BY Zenon DEF ScanFrom, ScanStep
<1> DEFINE G == {k \in Nat : \A i \in 1 .. n + 2 : i + k >= n + 1 => g[i] = f[i]}
<1> HIDE DEF g
<1>3. 0 \in G
  <2> SUFFICES ASSUME NEW i \in 1 .. n + 2, i >= n + 1 PROVE g[i] = f[i]
    OBVIOUS
  <2> QED BY <1>1 DEF ScanStep
<1>4. ASSUME NEW k \in Nat, k \in G
      PROVE  k + 1 \in G
  <2> SUFFICES ASSUME NEW i \in 1 .. n + 2, i + (k + 1) >= n + 1 PROVE g[i] = f[i]
    OBVIOUS
  <2>1. CASE i > n
    BY <1>1, <2>1 DEF ScanStep
  <2>2. CASE i <= n
    <3>1. g[i + 1] = f[i + 1] /\ g[i + 2] = f[i + 2]
      BY <1>4, <2>2
    <3>2. g[i] = ScanStep(buf, g, i) /\ f[i] = ScanStep(buf, f, i)
      BY <1>1
    <3> QED BY <3>1, <3>2 DEF ScanStep
  <2> QED BY <2>1, <2>2
<1> HIDE DEF G
<1>5. n + 2 \in G
  BY <1>3, <1>4, Induction
<1>6. start + (n + 2) >= n + 1
  OBVIOUS
<1> QED BY <1>2, <1>5, <1>6 DEF G

\* A scan of a chunk finds the line ends that stand there in the file.
LEMMA ScanFindsLineEnds ==
  ASSUME NEW t \in Seq(Symbols), NEW d \in Nat, NEW e \in Nat, d <= e, e <= Len(t),
         NEW start \in 1 .. e - d + 2
  PROVE  ScanFrom(SubSeq(t, d + 1, e), start) = Between(t, d + start, e)
<1> DEFINE buf == SubSeq(t, d + 1, e)
           n == e - d
           f == [i \in 1 .. n + 2 |-> Between(t, d + i, e)]
<1>1. n \in Nat /\ Len(buf) = n /\ \A i \in 1 .. n : buf[i] = t[d + i]
  OBVIOUS
<1> HIDE DEF buf
<1>2. ASSUME NEW i \in 1 .. n + 2
      PROVE  f[i] = ScanStep(buf, f, i)
  <2>1. CASE i > n
    BY <2>1, <1>1, NoneBetween DEF ScanStep
  <2>2. CASE i <= n
    <3>1. i \in 1 .. n /\ d + i \in Nat /\ d + i <= e /\ i + 1 \in 1 .. n + 2 /\ i + 2 \in 1 .. n + 2
      BY <2>2, <1>1
    <3>2. /\ f[i] = Between(t, d + i, e) /\ f[i + 1] = Between(t, (d + i) + 1, e)
          /\ f[i + 2] = Between(t, (d + i) + 2, e)
      BY <3>1
    <3>3. buf[i] = t[d + i] /\ (i # n => buf[i + 1] = t[(d + i) + 1])
      BY <3>1, <1>1
    <3>4. (i = n) <=> (d + i = e)
      BY <3>1
    <3> HIDE DEF f
    <3> QED BY <3>1, <3>2, <3>3, <3>4, <1>1, OneTurn DEF ScanStep
  <2> QED BY <2>1, <2>2, <1>1
<1> HIDE DEF f
<1>3. f = [i \in 1 .. Len(buf) + 2 |-> ScanStep(buf, f, i)]
  BY <1>1, <1>2 DEF f
<1>4. ScanFrom(buf, start) = f[start]
  BY <1>1, <1>3, ScanIsItsSolution
<1> QED BY <1>4 DEF f, buf

-----------------------------------------------------------------------------
(* A chunk and what was read before it.                                    *)

EndsIn(t, d, s) == d > 0 /\ t[d] = s

LEMMA Together ==
  ASSUME NEW S, NEW T, IsFiniteSet(S), IsFiniteSet(T), S \cap T = {}
  PROVE  /\ IsFiniteSet(S \cup T)
         /\ Cardinality(S \cup T) = Cardinality(S) + Cardinality(T)
<1>1. Cardinality(S) \in Nat /\ Cardinality(T) \in Nat
  BY FS_CardinalityType
<1>2. Cardinality(S \cap T) = 0
  BY FS_EmptySet
<1>3. /\ IsFiniteSet(S \cup T)
      /\ Cardinality(S \cup T) = Cardinality(S) + Cardinality(T) - Cardinality(S \cap T)
  BY FS_Union, Zenon
<1> QED BY <1>1, <1>2, <1>3

(* A CR at the end of what was read meets the first byte of the chunk: _count_newlines adds
   what the chunk settles. *)
LEMMA ChunkIsAdded ==
  ASSUME NEW t \in Seq(Symbols), NEW d \in Nat, NEW e \in Nat, d < e, e <= Len(t)
  PROVE  Between(t, 1, e) =
           Plus(Between(t, 1, d), CountNewlines(SubSeq(t, d + 1, e), EndsIn(t, d, "CR")))
<1> DEFINE buf == SubSeq(t, d + 1, e)
<1>1. buf[1] = t[d + 1]
  OBVIOUS
<1>2. /\ ScanFrom(buf, 1) = Between(t, d + 1, e)
      /\ ScanFrom(buf, 2) = Between(t, d + 2, e)
  BY ScanFindsLineEnds
<1> HIDE DEF buf
<1>3. \A a \in {d + 1, d + 2} :
         /\ IsFiniteSet(Pairs(t, a, e)) /\ IsFiniteSet(Alone(t, a, e)) /\ IsFiniteSet(Feeds(t, a, e))
         /\ Cardinality(Pairs(t, a, e)) \in Nat /\ Cardinality(Alone(t, a, e)) \in Nat
         /\ Cardinality(Feeds(t, a, e)) \in Nat
  BY AreFinite
<1>4. /\ IsFiniteSet(Pairs(t, 1, d)) /\ IsFiniteSet(Alone(t, 1, d)) /\ IsFiniteSet(Feeds(t, 1, d))
      /\ Cardinality(Pairs(t, 1, d)) \in Nat /\ Cardinality(Alone(t, 1, d)) \in Nat
      /\ Cardinality(Feeds(t, 1, d)) \in Nat
  BY AreFinite
<1>5. CASE ~EndsIn(t, d, "CR")
  <2>1. /\ Pairs(t, 1, e) = Pairs(t, 1, d) \cup Pairs(t, d + 1, e)
        /\ Pairs(t, 1, d) \cap Pairs(t, d + 1, e) = {}
    BY <1>5 DEF Pairs, EndsIn
  <2>2. /\ Alone(t, 1, e) = Alone(t, 1, d) \cup Alone(t, d + 1, e)
        /\ Alone(t, 1, d) \cap Alone(t, d + 1, e) = {}
    BY <1>5 DEF Alone, EndsIn
  <2>3. /\ Feeds(t, 1, e) = Feeds(t, 1, d) \cup Feeds(t, d + 1, e)
        /\ Feeds(t, 1, d) \cap Feeds(t, d + 1, e) = {}
    BY <1>5 DEF Feeds, EndsIn
  <2>4. /\ Cardinality(Pairs(t, 1, e)) = Cardinality(Pairs(t, 1, d)) + Cardinality(Pairs(t, d + 1, e))
        /\ Cardinality(Alone(t, 1, e)) = Cardinality(Alone(t, 1, d)) + Cardinality(Alone(t, d + 1, e))
        /\ Cardinality(Feeds(t, 1, e)) = Cardinality(Feeds(t, 1, d)) + Cardinality(Feeds(t, d + 1, e))
    BY <2>1, <2>2, <2>3, <1>3, <1>4, Together
  <2> QED BY <1>2, <1>5, <2>4 DEF Between, Plus, CountNewlines, buf
<1>6. CASE EndsIn(t, d, "CR") /\ t[d + 1] = "LF"
  <2>1. /\ Pairs(t, 1, e) = (Pairs(t, 1, d) \cup Pairs(t, d + 2, e)) \cup {d}
        /\ Pairs(t, 1, d) \cap Pairs(t, d + 2, e) = {}
        /\ d \notin Pairs(t, 1, d) \cup Pairs(t, d + 2, e)
    BY <1>6 DEF Pairs, EndsIn
  <2>2. /\ Alone(t, 1, e) = Alone(t, 1, d) \cup Alone(t, d + 2, e)
        /\ Alone(t, 1, d) \cap Alone(t, d + 2, e) = {}
    BY <1>6 DEF Alone, EndsIn
  <2>3. /\ Feeds(t, 1, e) = Feeds(t, 1, d) \cup Feeds(t, d + 2, e)
        /\ Feeds(t, 1, d) \cap Feeds(t, d + 2, e) = {}
    BY <1>6 DEF Feeds, EndsIn
  <2>4. IsFiniteSet(Pairs(t, 1, d) \cup Pairs(t, d + 2, e))
    BY <2>1, <1>3, <1>4, Together
  <2>5. /\ Cardinality(Pairs(t, 1, e)) = (Cardinality(Pairs(t, 1, d)) + Cardinality(Pairs(t, d + 2, e))) + 1
        /\ Cardinality(Alone(t, 1, e)) = Cardinality(Alone(t, 1, d)) + Cardinality(Alone(t, d + 2, e))
        /\ Cardinality(Feeds(t, 1, e)) = Cardinality(Feeds(t, 1, d)) + Cardinality(Feeds(t, d + 2, e))
    <3>1. Cardinality(Pairs(t, 1, e)) = Cardinality(Pairs(t, 1, d) \cup Pairs(t, d + 2, e)) + 1
      BY <2>1, <2>4, OneMore
    <3>2. Cardinality(Pairs(t, 1, d) \cup Pairs(t, d + 2, e))
            = Cardinality(Pairs(t, 1, d)) + Cardinality(Pairs(t, d + 2, e))
      BY <2>1, <1>3, <1>4, Together
    <3> QED BY <2>2, <2>3, <3>1, <3>2, <1>3, <1>4, Together
  <2>6. CountNewlines(buf, EndsIn(t, d, "CR")) = Bump(Between(t, d + 2, e), "crlf")
    BY <1>1, <1>2, <1>3, <1>6 DEF CountNewlines
  <2>7. d + 1 \in {d + 1, d + 2} /\ d + 2 \in {d + 1, d + 2}
    OBVIOUS
  <2>8. CountNewlines(buf, EndsIn(t, d, "CR")) =
          [lf |-> Cardinality(Feeds(t, d + 2, e)), crlf |-> Cardinality(Pairs(t, d + 2, e)) + 1,
           cr |-> Cardinality(Alone(t, d + 2, e))]
    BY <1>3, <2>6, <2>7, BumpedPairs DEF Between
  <2>9. Between(t, 1, e) = Plus(Between(t, 1, d), CountNewlines(buf, EndsIn(t, d, "CR")))
    BY <1>3, <1>4, <2>5, <2>7, <2>8 DEF Between, Plus
  <2> QED BY <2>9 DEF buf
<1>7. CASE EndsIn(t, d, "CR") /\ t[d + 1] # "LF"
  <2>1. /\ Alone(t, 1, e) = (Alone(t, 1, d) \cup Alone(t, d + 1, e)) \cup {d}
        /\ Alone(t, 1, d) \cap Alone(t, d + 1, e) = {}
        /\ d \notin Alone(t, 1, d) \cup Alone(t, d + 1, e)
    BY <1>7 DEF Alone, EndsIn
  <2>2. /\ Pairs(t, 1, e) = Pairs(t, 1, d) \cup Pairs(t, d + 1, e)
        /\ Pairs(t, 1, d) \cap Pairs(t, d + 1, e) = {}
    BY <1>7 DEF Pairs, EndsIn
  <2>3. /\ Feeds(t, 1, e) = Feeds(t, 1, d) \cup Feeds(t, d + 1, e)
        /\ Feeds(t, 1, d) \cap Feeds(t, d + 1, e) = {}
    BY <1>7 DEF Feeds, EndsIn
  <2>4. IsFiniteSet(Alone(t, 1, d) \cup Alone(t, d + 1, e))
    BY <2>1, <1>3, <1>4, Together
  <2>5. /\ Cardinality(Alone(t, 1, e)) = (Cardinality(Alone(t, 1, d)) + Cardinality(Alone(t, d + 1, e))) + 1
        /\ Cardinality(Pairs(t, 1, e)) = Cardinality(Pairs(t, 1, d)) + Cardinality(Pairs(t, d + 1, e))
        /\ Cardinality(Feeds(t, 1, e)) = Cardinality(Feeds(t, 1, d)) + Cardinality(Feeds(t, d + 1, e))
    <3>1. Cardinality(Alone(t, 1, e)) = Cardinality(Alone(t, 1, d) \cup Alone(t, d + 1, e)) + 1
      BY <2>1, <2>4, OneMore
    <3>2. Cardinality(Alone(t, 1, d) \cup Alone(t, d + 1, e))
            = Cardinality(Alone(t, 1, d)) + Cardinality(Alone(t, d + 1, e))
      BY <2>1, <1>3, <1>4, Together
    <3> QED BY <2>2, <2>3, <3>1, <3>2, <1>3, <1>4, Together
  <2>6. CountNewlines(buf, EndsIn(t, d, "CR")) = Bump(Between(t, d + 1, e), "cr")
    BY <1>1, <1>2, <1>3, <1>7 DEF CountNewlines
  <2>7. d + 1 \in {d + 1, d + 2} /\ d + 2 \in {d + 1, d + 2}
    OBVIOUS
  <2>8. CountNewlines(buf, EndsIn(t, d, "CR")) =
          [lf |-> Cardinality(Feeds(t, d + 1, e)), crlf |-> Cardinality(Pairs(t, d + 1, e)),
           cr |-> Cardinality(Alone(t, d + 1, e)) + 1]
    BY <1>3, <2>6, <2>7, BumpedAlone DEF Between
  <2>9. Between(t, 1, e) = Plus(Between(t, 1, d), CountNewlines(buf, EndsIn(t, d, "CR")))
    <3>1. /\ Cardinality(Alone(t, 1, d)) \in Nat /\ Cardinality(Alone(t, d + 1, e)) \in Nat
          /\ Cardinality(Alone(t, 1, e)) = Cardinality(Alone(t, 1, d))
                + (Cardinality(Alone(t, d + 1, e)) + 1)
      BY <1>3, <1>4, <2>5, <2>7
    <3> QED BY <2>5, <2>8, <3>1 DEF Between, Plus
  <2> QED BY <2>9 DEF buf
<1> QED BY <1>5, <1>6, <1>7

\* The reference counts the line ends of what was read, with a CR at its end.
LEMMA WholeIsCounted ==
  ASSUME NEW t \in Seq(Symbols), NEW d \in Nat, d <= Len(t)
  PROVE  LineEndCounts(SubSeq(t, 1, d)) =
           IF EndsIn(t, d, "CR") THEN Bump(Between(t, 1, d), "cr") ELSE Between(t, 1, d)
<1> DEFINE s == SubSeq(t, 1, d)
           At(i, c) == i \in DOMAIN s /\ s[i] = c
<1>1. DOMAIN s = 1 .. d /\ \A i \in 1 .. d : s[i] = t[i]
  OBVIOUS
<1> HIDE DEF s
<1>2. {i \in DOMAIN s : At(i, "CR") /\ At(i + 1, "LF")} = Pairs(t, 1, d)
  BY <1>1 DEF Pairs
<1>3. {i \in DOMAIN s : At(i, "LF") /\ ~At(i - 1, "CR")} = Feeds(t, 1, d)
  BY <1>1 DEF Feeds
<1>4. {i \in DOMAIN s : At(i, "CR") /\ ~At(i + 1, "LF")}
        = IF EndsIn(t, d, "CR") THEN Alone(t, 1, d) \cup {d} ELSE Alone(t, 1, d)
  BY <1>1 DEF Alone, EndsIn
<1>5. IsFiniteSet(Alone(t, 1, d)) /\ d \notin Alone(t, 1, d)
  BY AreFinite DEF Alone
<1>6. Cardinality(Alone(t, 1, d) \cup {d}) = Cardinality(Alone(t, 1, d)) + 1
  BY <1>5, OneMore
<1>7. LineEndCounts(s) =
        [crlf |-> Cardinality(Pairs(t, 1, d)),
         cr |-> Cardinality(IF EndsIn(t, d, "CR") THEN Alone(t, 1, d) \cup {d} ELSE Alone(t, 1, d)),
         lf |-> Cardinality(Feeds(t, 1, d))]
  BY <1>2, <1>3, <1>4 DEF LineEndCounts
<1>8. LineEndCounts(s) = IF EndsIn(t, d, "CR") THEN Bump(Between(t, 1, d), "cr") ELSE Between(t, 1, d)
  <2>1. CASE EndsIn(t, d, "CR")
    <3>1. Bump(Between(t, 1, d), "cr") =
            [lf |-> Cardinality(Feeds(t, 1, d)), crlf |-> Cardinality(Pairs(t, 1, d)),
             cr |-> Cardinality(Alone(t, 1, d)) + 1]
      BY BumpedAlone, AreFinite DEF Between
    <3> QED BY <1>6, <1>7, <2>1, <3>1
  <2>2. CASE ~EndsIn(t, d, "CR")
    BY <1>7, <2>2 DEF Between
  <2> QED BY <2>1, <2>2
<1> QED BY <1>8 DEF s


\* A byte of a text is a continuation where one is due.
Fits(t, p) == t[p] = "cont" <=> (p > 1 /\ t[p - 1] = "lead")

(* What the decoder asks of a chunk: it remembers a lead byte at the end of the last one. *)
LEMMA DecodesAPart ==
  ASSUME NEW t \in Seq(Symbols), NEW d \in Nat, NEW e \in Nat, d <= e, e <= Len(t)
  PROVE  Decodes(SubSeq(t, d + 1, e), EndsIn(t, d, "lead")) <=> \A i \in 1 .. e - d : Fits(t, d + i)
<1> DEFINE s == SubSeq(t, d + 1, e)
           Due(i) == IF i = 1 THEN EndsIn(t, d, "lead") ELSE s[i - 1] = "lead"
<1>1. DOMAIN s = 1 .. e - d /\ \A i \in 1 .. e - d : s[i] = t[d + i]
  OBVIOUS
<1> HIDE DEF s
<1>2. ASSUME NEW i \in 1 .. e - d
      PROVE  Due(i) <=> (d + i > 1 /\ t[d + i - 1] = "lead")
  <2>1. CASE i = 1
    BY <2>1 DEF EndsIn
  <2>2. CASE i # 1
    <3>1. i - 1 \in 1 .. e - d /\ d + (i - 1) = d + i - 1 /\ d + i > 1
      BY <2>2
    <3> QED BY <1>1, <2>2, <3>1
  <2> QED BY <2>1, <2>2
<1>3. Decodes(s, EndsIn(t, d, "lead")) <=> \A i \in 1 .. e - d : s[i] = "cont" <=> Due(i)
  BY <1>1, Zenon DEF Decodes
<1> HIDE DEF Due
<1>4. ASSUME NEW i \in 1 .. e - d
      PROVE  (s[i] = "cont" <=> Due(i)) <=> Fits(t, d + i)
  BY <1>1, <1>2 DEF Fits
<1>5. Decodes(s, EndsIn(t, d, "lead")) <=> \A i \in 1 .. e - d : Fits(t, d + i)
  BY <1>3, <1>4, Zenon
<1> QED BY <1>5 DEF s

LEMMA DecodesAStart ==
  ASSUME NEW t \in Seq(Symbols), NEW e \in Nat, e <= Len(t)
  PROVE  Decodes(SubSeq(t, 1, e), FALSE) <=> \A p \in 1 .. e : Fits(t, p)
<1>1. Decodes(SubSeq(t, 0 + 1, e), EndsIn(t, 0, "lead")) <=> \A i \in 1 .. e - 0 : Fits(t, 0 + i)
  <2>1. 0 \in Nat /\ 0 <= e
    OBVIOUS
  <2> QED BY <2>1, DecodesAPart, Zenon
<1>2. (EndsIn(t, 0, "lead") = FALSE) /\ 0 + 1 = 1 /\ e - 0 = e /\ \A i \in 1 .. e : 0 + i = i
  BY DEF EndsIn
<1>3. Decodes(SubSeq(t, 1, e), FALSE) <=> \A i \in 1 .. e : Fits(t, 0 + i)
  BY <1>1, <1>2, Zenon
<1> QED BY <1>2, <1>3, Zenon

LEMMA ChunkIsDecoded ==
  ASSUME NEW t \in Seq(Symbols), NEW d \in Nat, NEW e \in Nat, d <= e, e <= Len(t),
         Decodes(SubSeq(t, 1, d), FALSE)
  PROVE  Decodes(SubSeq(t, d + 1, e), EndsIn(t, d, "lead")) <=> Decodes(SubSeq(t, 1, e), FALSE)
<1>1. \A p \in 1 .. d : Fits(t, p)
  <2>1. d <= Len(t)
    OBVIOUS
  <2> QED BY <2>1, DecodesAStart, Zenon
<1>2. (\A i \in 1 .. e - d : Fits(t, d + i)) <=> \A p \in 1 .. e : Fits(t, p)
  <2>1. ASSUME \A i \in 1 .. e - d : Fits(t, d + i), NEW p \in 1 .. e, p > d
        PROVE  Fits(t, p)
    <3>1. p - d \in 1 .. e - d /\ d + (p - d) = p
      BY <2>1
    <3> QED BY <2>1, <3>1
  <2>2. ASSUME NEW i \in 1 .. e - d
        PROVE  d + i \in 1 .. e
    OBVIOUS
  <2> QED BY <1>1, <2>1, <2>2
<1> QED BY <1>2, DecodesAPart, DecodesAStart, Zenon

\* What the beginning of a text cannot be read as, the text cannot.
LEMMA NothingMendsAPrefix ==
  ASSUME NEW t \in Seq(Symbols), NEW d \in Nat, NEW e \in Nat, d <= e, e <= Len(t),
         ~Decodes(SubSeq(t, 1, d), FALSE)
  PROVE  ~Decodes(SubSeq(t, 1, e), FALSE)
<1>1. d <= Len(t) /\ \A p \in 1 .. d : p \in 1 .. e
  OBVIOUS
<1> QED BY <1>1, DecodesAStart, Zenon

-----------------------------------------------------------------------------
(* The loop.  What was read before the chunk at hand is a part of the      *)
(* sample; the counts and the memory of the loop are those of that part.   *)

Done == taken - Len(chunk)
Reach == IF Limit < Len(file) THEN Limit ELSE Len(file)

ChunkInv ==
  /\ file \in Files
  /\ taken \in 0 .. Reach /\ Done \in 0 .. taken
  /\ chunk = SubSeq(file, Done + 1, taken)
  /\ taken = Reach \/ \E k \in 1 .. MaxChunks : taken = k * ChunkSize
  /\ chunk = <<>> => taken = Reach
  /\ Done = 0 => taken = IF ChunkSize <= Len(file) THEN ChunkSize ELSE Len(file)

CountInv ==
  /\ counts = Between(file, 1, Done)
  /\ carry = EndsIn(file, Done, "CR") /\ half = EndsIn(file, Done, "lead")

DecodeInv == Decodes(SubSeq(file, 1, Done), FALSE)

\* What the first chunk could have been refused for.
Opens == /\ "NUL" \notin {file[i] : i \in DOMAIN file \cap 1 .. ChunkSize}
         /\ ~(ShebangAfterBom(file) /\ shebangs)
LookInv == Done > 0 => Opens

SniffInv == ChunkInv /\ CountInv /\ DecodeInv /\ LookInv /\ SampleIsJudgedAsAWhole

LEMMA Bounds ==
  /\ ChunkSize \in Nat /\ ChunkSize >= 2 /\ MaxChunks \in Nat /\ MaxChunks >= 1
  /\ Limit \in Nat /\ Limit >= ChunkSize
<1>1. ChunkSize \in Nat /\ ChunkSize >= 2 /\ MaxChunks \in Nat /\ MaxChunks >= 1
  BY ChunksAssumption
<1>2. \A c, m \in Nat : m >= 1 => c * m \in Nat /\ c * m >= c
  OBVIOUS
<1> QED BY <1>1, <1>2 DEF Limit

\* One more chunk stays within the limit, which is a number of chunks.
LEMMA OneMoreChunk ==
  ASSUME NEW k \in Nat, k * ChunkSize < Limit
  PROVE  (k + 1) * ChunkSize <= Limit /\ k + 1 <= MaxChunks
<1>1. \A c, m \in Nat : k * c < c * m => k < m
  OBVIOUS
<1>2. \A c, m \in Nat : k + 1 <= m => (k + 1) * c <= c * m
  OBVIOUS
<1> QED BY <1>1, <1>2, Bounds DEF Limit

LEMMA FileAtHand ==
  ASSUME ChunkInv
  PROVE  /\ file \in Seq(Symbols) /\ Len(file) \in Nat /\ Len(file) >= 1
         /\ Reach \in Nat /\ Reach >= 1 /\ Reach <= Len(file) /\ Reach <= Limit
         /\ taken \in Nat /\ Done \in Nat /\ Done <= taken /\ taken <= Reach
         /\ Len(chunk) = taken - Done /\ \A i \in 1 .. taken - Done : chunk[i] = file[Done + i]
<1>1. file \in Seq(Symbols) /\ Len(file) \in Nat /\ Len(file) >= 1
  BY FilesAssumption DEF ChunkInv
<1>2. Reach \in Nat /\ Reach >= 1 /\ Reach <= Len(file) /\ Reach <= Limit
  BY <1>1, Bounds DEF Reach
<1>3. taken \in Nat /\ Done \in Nat /\ Done <= taken /\ taken <= Reach
  BY <1>2 DEF ChunkInv
<1>4. chunk = SubSeq(file, Done + 1, taken)
  BY DEF ChunkInv
<1> HIDE DEF Done
<1>5. Len(chunk) = taken - Done /\ \A i \in 1 .. taken - Done : chunk[i] = file[Done + i]
  BY <1>1, <1>2, <1>3, <1>4
<1> QED BY <1>1, <1>2, <1>3, <1>5

\* The sample.
LEMMA SampleAtHand ==
  ASSUME ChunkInv
  PROVE  /\ Sample = SubSeq(file, 1, Reach) /\ DOMAIN Sample = 1 .. Reach /\ Len(Sample) = Reach
         /\ \A i \in 1 .. Reach : Sample[i] = file[i]
<1>1. Sample = SubSeq(file, 1, Reach)
  BY DEF Sample, Reach
<1> QED BY <1>1, FileAtHand

\* What the first chunk decides it decides for the sample.
LEMMA FirstLookSeesTheStart ==
  ASSUME ChunkInv
  PROVE  /\ Opens <=> /\ "NUL" \notin {Sample[i] : i \in DOMAIN Sample \cap 1 .. ChunkSize}
                      /\ ~(ShebangAfterBom(Sample) /\ shebangs)
         /\ taken = Len(chunk) /\ FirstLook = None => Opens
         /\ taken = Len(chunk) /\ FirstLook # None => FirstLook = Classify(Sample)
<1> USE FileAtHand, SampleAtHand, Bounds
<1> DEFINE end == IF ChunkSize <= Len(file) THEN ChunkSize ELSE Len(file)
<1>1. /\ DOMAIN file \cap 1 .. ChunkSize = 1 .. end /\ DOMAIN Sample \cap 1 .. ChunkSize = 1 .. end
      /\ end \in 1 .. Reach /\ (Len(file) > 1 => end > 1) /\ DOMAIN file = 1 .. Len(file)
  BY DEF Reach
<1>2. ShebangAfterBom(Sample) <=> ShebangAfterBom(file)
  BY <1>1 DEF ShebangAfterBom, HasBom, Reach
<1>3. "NUL" \in {Sample[i] : i \in 1 .. end} <=> "NUL" \in {file[i] : i \in 1 .. end}
  BY <1>1
<1>4. Opens <=> /\ "NUL" \notin {Sample[i] : i \in DOMAIN Sample \cap 1 .. ChunkSize}
                /\ ~(ShebangAfterBom(Sample) /\ shebangs)
  BY <1>1, <1>2, <1>3 DEF Opens
<1>5. ASSUME taken = Len(chunk)
      PROVE  /\ "NUL" \in {chunk[i] : i \in DOMAIN chunk} <=> "NUL" \in {file[i] : i \in 1 .. end}
             /\ ShebangAfterBom(chunk) <=> ShebangAfterBom(file)
  <2>1. Done = 0 /\ taken = end
    <3>1. Done = 0
      BY <1>5 DEF Done
    <3> QED BY <3>1 DEF ChunkInv
  <2>2. DOMAIN chunk = 1 .. end /\ Len(chunk) = end /\ \A i \in 1 .. end : chunk[i] = file[i]
    <3>1. chunk = SubSeq(file, 1, end)
      BY <2>1 DEF ChunkInv
    <3> QED BY <3>1, <1>1
  <2>3. "NUL" \in {chunk[i] : i \in DOMAIN chunk} <=> "NUL" \in {file[i] : i \in 1 .. end}
    BY <2>2
  <2>4. chunk[1] = file[1] /\ (end > 1 => chunk[2] = file[2]) /\ (end > 1 <=> Len(file) > 1)
    BY <1>1, <2>2
  <2> QED BY <2>2, <2>3, <2>4 DEF ShebangAfterBom, HasBom
<1>6. taken = Len(chunk) /\ FirstLook = None => Opens
  BY <1>1, <1>5, NoneAssumption DEF FirstLook, Opens
<1>7. taken = Len(chunk) /\ FirstLook # None => FirstLook = Classify(Sample)
  BY <1>1, <1>2, <1>3, <1>5 DEF FirstLook, Classify
<1> QED BY <1>4, <1>6, <1>7

LEMMA OpenedSample ==
  ASSUME ChunkInv, Opens
  PROVE  Classify(Sample) =
           IF ~ValidUtf8(Sample) THEN "UNICODE_DECODE_ERROR"
           ELSE IF MixedCounts(LineEndCounts(Sample)) THEN "MIXED_LINE_ENDINGS"
           ELSE "OK"
BY FirstLookSeesTheStart DEF Classify

-----------------------------------------------------------------------------
LEMMA SniffStarts == Init => SniffInv
<1> SUFFICES ASSUME Init PROVE SniffInv
  OBVIOUS
<1> USE Bounds DEF Init
<1>1. file \in Seq(Symbols) /\ Len(file) \in Nat /\ Len(file) >= 1
  BY FilesAssumption
<1> DEFINE end == IF ChunkSize <= Len(file) THEN ChunkSize ELSE Len(file)
<1>2. /\ chunk = SubSeq(file, 1, end) /\ end \in Nat /\ end >= 1 /\ end <= Len(file)
      /\ Len(chunk) = end /\ taken = end
  <2>1. chunk = SubSeq(file, 1, end)
    BY <1>1 DEF ReadAt
  <2>2. end \in Nat /\ end >= 1 /\ end <= Len(file)
    BY <1>1
  <2> QED BY <1>1, <2>1, <2>2
<1>3. Done = 0
  BY <1>2 DEF Done
<1>4. Reach \in Nat /\ Reach <= Len(file) /\ end <= Reach
  BY <1>1, <1>2 DEF Reach
<1>5. taken = Reach \/ \E k \in 1 .. MaxChunks : taken = k * ChunkSize
  <2>1. CASE ChunkSize <= Len(file)
    BY <1>2, <2>1
  <2>2. CASE ~(ChunkSize <= Len(file))
    BY <1>1, <1>2, <1>4, <2>2
  <2> QED BY <2>1, <2>2
<1>6. ChunkInv
  BY <1>2, <1>3, <1>4, <1>5 DEF ChunkInv
<1>7. CountInv
  <2>1. Between(file, 1, 0) = NoCounts
    BY NoneBetween
  <2>2. EndsIn(file, 0, "CR") = FALSE /\ EndsIn(file, 0, "lead") = FALSE
    BY DEF EndsIn
  <2> QED BY <1>3, <2>1, <2>2 DEF CountInv
<1>8. DecodeInv
  <2>1. \A p \in 1 .. 0 : Fits(file, p)
    OBVIOUS
  <2>2. 0 \in Nat /\ 0 <= Len(file)
    BY <1>1
  <2>3. Decodes(SubSeq(file, 1, 0), FALSE)
    BY <1>1, <2>1, <2>2, DecodesAStart, Zenon
  <2> QED BY <1>3, <2>3 DEF DecodeInv
<1>9. LookInv /\ SampleIsJudgedAsAWhole
  BY <1>3 DEF LookInv, SampleIsJudgedAsAWhole, VerdictIsThatOfTheSample, StyleDominates
<1> QED BY <1>6, <1>7, <1>8, <1>9 DEF SniffInv

\* What does not touch the reading keeps what is known of it.
LEMMA ReadingKept ==
  ASSUME SniffInv, UNCHANGED <<file, shebangs, chunk, taken, counts, carry, half>>
  PROVE  ChunkInv' /\ CountInv' /\ DecodeInv' /\ LookInv'
BY DEF SniffInv, ChunkInv, CountInv, DecodeInv, LookInv, Opens, Done, Reach, Limit, ShebangAfterBom, HasBom

\* A verdict on the sample, without a word on its line ends.
LEMMA VerdictKeeps ==
  ASSUME SniffInv, UNCHANGED <<file, shebangs, chunk, taken, counts, carry, half, style>>,
         verdict' = Classify(Sample)
  PROVE  SniffInv'
<1>1. ChunkInv' /\ CountInv' /\ DecodeInv' /\ LookInv'
  BY ReadingKept
<1>2. Sample' = Sample /\ Classify(Sample)' = Classify(Sample)
  BY DEF Sample, Classify, ShebangAfterBom, HasBom
<1>3. SampleIsJudgedAsAWhole'
  BY <1>2 DEF SniffInv, SampleIsJudgedAsAWhole, VerdictIsThatOfTheSample, StyleDominates
<1> QED BY <1>1, <1>3 DEF SniffInv

LEMMA RejectPrefixKeeps == SniffInv /\ RejectPrefix => SniffInv'
BY VerdictKeeps, FirstLookSeesTheStart DEF SniffInv, RejectPrefix

\* Once the loop goes on, the first chunk was let through.
LEMMA GoesOnOpened ==
  ASSUME SniffInv, taken = Len(chunk) => FirstLook = None
  PROVE  Opens
<1>1. CASE taken = Len(chunk)
  BY <1>1, FirstLookSeesTheStart DEF SniffInv
<1>2. CASE taken # Len(chunk)
  <2>1. Done > 0
    BY <1>2, FileAtHand DEF SniffInv, Done
  <2> QED BY <2>1 DEF SniffInv, LookInv
<1> QED BY <1>1, <1>2

LEMMA UndecodableKeeps == SniffInv /\ Undecodable => SniffInv'
<1> SUFFICES ASSUME SniffInv, Undecodable PROVE SniffInv'
  OBVIOUS
<1>1. ChunkInv /\ Opens
  BY GoesOnOpened DEF SniffInv, Undecodable
<1>2. ~Decodes(SubSeq(file, Done + 1, taken), EndsIn(file, Done, "lead"))
  BY DEF Undecodable, CanDecode, SniffInv, ChunkInv, CountInv
<1>3. /\ file \in Seq(Symbols) /\ Done \in Nat /\ taken \in Nat /\ Reach \in Nat
      /\ Done <= taken /\ taken <= Reach /\ Reach <= Len(file) /\ taken <= Len(file)
      /\ Sample = SubSeq(file, 1, Reach)
  BY <1>1, FileAtHand, SampleAtHand
<1>4. ~Decodes(SubSeq(file, 1, taken), FALSE)
  BY <1>2, <1>3, ChunkIsDecoded, Zenon DEF SniffInv, DecodeInv
<1>5. ~Decodes(Sample, FALSE)
  BY <1>3, <1>4, NothingMendsAPrefix, Zenon
<1>6. Classify(Sample) = "UNICODE_DECODE_ERROR"
  BY <1>1, <1>5, OpenedSample, Zenon DEF ValidUtf8
<1> QED BY <1>6, VerdictKeeps DEF Undecodable

LEMMA TakeChunkKeeps == SniffInv /\ TakeChunk => SniffInv'
<1> SUFFICES ASSUME SniffInv, TakeChunk PROVE SniffInv'
  OBVIOUS
<1>1. ChunkInv /\ Opens
  BY GoesOnOpened DEF SniffInv, TakeChunk
<1>2. /\ file \in Seq(Symbols) /\ Len(file) \in Nat /\ Done \in Nat /\ taken \in Nat /\ Reach \in Nat
      /\ Done <= taken /\ taken <= Reach /\ Reach <= Len(file) /\ Reach <= Limit
      /\ Len(chunk) = taken - Done /\ \A i \in 1 .. taken - Done : chunk[i] = file[Done + i]
  BY <1>1, FileAtHand
<1>3. chunk # <<>> /\ chunk = SubSeq(file, Done + 1, taken)
  BY <1>1 DEF TakeChunk, ChunkInv
<1>4. Done < taken
  <2>1. chunk \in Seq(Symbols)
    BY <1>2, <1>3
  <2>2. Len(chunk) # 0
    BY <1>3, <2>1
  <2> QED BY <1>2, <2>2
<1> DEFINE end == IF taken + ChunkSize <= Len(file) THEN taken + ChunkSize ELSE Len(file)
           stop == IF AtLimit THEN taken ELSE end
<1>5. /\ chunk' = SubSeq(file, taken + 1, stop) /\ stop \in taken .. Reach
      /\ (stop = Reach \/ \E k \in 1 .. MaxChunks : stop = k * ChunkSize)
      /\ (stop = taken => stop = Reach)
  <2>1. CASE AtLimit
    <3>1. taken = Reach /\ stop = taken
      BY <1>2, <2>1, Bounds DEF AtLimit
    <3>2. SubSeq(file, taken + 1, taken) = <<>>
      BY <1>2
    <3>3. chunk' = <<>>
      BY <2>1 DEF TakeChunk
    <3> HIDE DEF stop
    <3> QED BY <1>2, <3>1, <3>2, <3>3
  <2>2. CASE ~AtLimit
    <3>1. chunk' = SubSeq(file, taken + 1, end) /\ stop = end
      BY <2>2 DEF TakeChunk, ReadAt
    <3>2. taken < Limit
      BY <1>2, <2>2, Bounds DEF AtLimit
    <3>3. CASE taken = Reach
      <4>1. end = Reach /\ stop = Reach
        BY <1>2, <3>1, <3>2, <3>3, Bounds DEF Reach
      <4> HIDE DEF stop, end
      <4> QED BY <1>2, <3>1, <3>3, <4>1
    <3>4. CASE taken # Reach
      <4>1. PICK k \in 1 .. MaxChunks : taken = k * ChunkSize
        BY <1>1, <3>4 DEF ChunkInv
      <4>2. k \in Nat /\ (k + 1) * ChunkSize = taken + ChunkSize
        BY <4>1, Bounds
      <4>3. taken + ChunkSize <= Limit /\ k + 1 \in 1 .. MaxChunks
        BY <3>2, <4>1, <4>2, OneMoreChunk, Bounds
      <4>4. CASE taken + ChunkSize <= Len(file)
        <5>1. stop = taken + ChunkSize /\ stop <= Reach
          BY <3>1, <4>3, <4>4 DEF Reach
        <5>2. chunk' = SubSeq(file, taken + 1, stop)
          BY <3>1
        <5> HIDE DEF stop, end
        <5>3. stop = (k + 1) * ChunkSize
          BY <4>2, <5>1
        <5>4. stop \in taken .. Reach /\ stop # taken
          BY <1>2, <5>1, Bounds
        <5> QED BY <4>3, <5>2, <5>3, <5>4
      <4>5. CASE ~(taken + ChunkSize <= Len(file))
        <5>1. stop = Len(file) /\ Reach = Len(file)
          BY <1>2, <3>1, <4>3, <4>5, Bounds DEF Reach
        <5> QED BY <1>2, <3>1, <5>1
      <4> QED BY <4>4, <4>5
    <3> QED BY <3>3, <3>4
  <2> QED BY <2>1, <2>2
<1> HIDE DEF stop
<1>6. Len(chunk') = stop - taken /\ taken' = stop /\ file' = file /\ shebangs' = shebangs
  BY <1>2, <1>5 DEF TakeChunk
<1>7. Done' = taken /\ Reach' = Reach
  BY <1>2, <1>5, <1>6 DEF Done, Reach, Limit
<1>8. ChunkInv'
  <2>1. file' \in Files /\ taken' \in 0 .. Reach' /\ Done' \in 0 .. taken'
    BY <1>1, <1>2, <1>5, <1>6, <1>7 DEF ChunkInv
  <2>2. chunk' = SubSeq(file', Done' + 1, taken')
    BY <1>5, <1>6, <1>7
  <2>3. taken' = Reach' \/ \E k \in 1 .. MaxChunks : taken' = k * ChunkSize
    BY <1>5, <1>6, <1>7
  <2>4. chunk' = <<>> => taken' = Reach'
    BY <1>2, <1>5, <1>6, <1>7
  <2>5. Done' # 0
    BY <1>2, <1>4, <1>7
  <2> QED BY <2>1, <2>2, <2>3, <2>4, <2>5 DEF ChunkInv
<1>9. chunk[Len(chunk)] = file[taken]
  BY <1>2, <1>4
<1>10. CountInv'
  <2>1. counts' = Plus(counts, CountNewlines(chunk, carry)) /\ counts = Between(file, 1, Done)
        /\ carry = EndsIn(file, Done, "CR")
    BY DEF TakeChunk, SniffInv, CountInv
  <2>2. taken <= Len(file)
    BY <1>2
  <2>3. counts' = Between(file, 1, taken)
    BY <1>2, <1>3, <1>4, <2>1, <2>2, ChunkIsAdded, Zenon
  <2>4. carry' = EndsIn(file, taken, "CR") /\ half' = EndsIn(file, taken, "lead")
    BY <1>2, <1>4, <1>9 DEF TakeChunk, EndsIn
  <2> QED BY <1>6, <1>7, <2>3, <2>4, Zenon DEF CountInv
<1>11. DecodeInv'
  <2>1. Decodes(SubSeq(file, Done + 1, taken), EndsIn(file, Done, "lead"))
    BY <1>3 DEF TakeChunk, CanDecode, SniffInv, CountInv
  <2>2. taken <= Len(file)
    BY <1>2
  <2>3. Decodes(SubSeq(file, 1, taken), FALSE)
    BY <1>2, <2>1, <2>2, ChunkIsDecoded, Zenon DEF SniffInv, DecodeInv
  <2> QED BY <1>6, <1>7, <2>3, Zenon DEF DecodeInv
<1>12. LookInv'
  BY <1>1, <1>6 DEF LookInv, Opens, ShebangAfterBom, HasBom
<1>13. SampleIsJudgedAsAWhole'
  <2>1. verdict' = verdict /\ style' = style /\ Sample' = Sample
    BY DEF TakeChunk, Sample, Limit
  <2>2. Classify(Sample)' = Classify(Sample)
    BY <1>6, <2>1 DEF Classify, ShebangAfterBom, HasBom
  <2> QED BY <2>1, <2>2 DEF SniffInv, SampleIsJudgedAsAWhole, VerdictIsThatOfTheSample, StyleDominates
<1> QED BY <1>8, <1>10, <1>11, <1>12, <1>13 DEF SniffInv

LEMMA LineEndsAreNumbers ==
  ASSUME NEW t, NEW n \in Nat, DOMAIN t = 1 .. n
  PROVE  LineEndCounts(t).lf \in Nat /\ LineEndCounts(t).crlf \in Nat /\ LineEndCounts(t).cr \in Nat
<1>1. \A S \in SUBSET (1 .. n) : Cardinality(S) \in Nat
  <2>1. IsFiniteSet(1 .. n)
    BY FS_Interval
  <2> QED BY <2>1, FS_Subset, FS_CardinalityType
<1> QED BY <1>1 DEF LineEndCounts

LEMMA FinishKeeps == SniffInv /\ Finish => SniffInv'
<1> SUFFICES ASSUME SniffInv, Finish PROVE SniffInv'
  OBVIOUS
<1>1. ChunkInv /\ chunk = <<>> /\ verdict = None
  BY DEF SniffInv, Finish
<1>2. /\ file \in Seq(Symbols) /\ Reach \in Nat /\ Reach >= 1 /\ Reach <= Len(file)
      /\ taken = Reach /\ Done = Reach
  BY <1>1, FileAtHand DEF ChunkInv
<1>3. Opens
  BY <1>2 DEF SniffInv, LookInv
<1>4. /\ Sample = SubSeq(file, 1, Reach) /\ Len(Sample) = Reach /\ Sample[Reach] = file[Reach]
  BY <1>1, <1>2, SampleAtHand
<1>5. ValidUtf8(Sample) <=> ~half
  <2>1. Decodes(Sample, FALSE)
    BY <1>2, <1>4 DEF SniffInv, DecodeInv
  <2>2. half <=> file[Reach] = "lead"
    <3>1. half = EndsIn(file, Reach, "lead")
      BY <1>2 DEF SniffInv, CountInv
    <3>2. EndsIn(file, Reach, "lead") <=> file[Reach] = "lead"
      BY <1>2 DEF EndsIn
    <3> QED BY <3>1, <3>2, Zenon
  <2> QED BY <1>4, <2>1, <2>2, Zenon DEF ValidUtf8
<1>6. CASE half
  <2>1. Classify(Sample) = "UNICODE_DECODE_ERROR"
    BY <1>1, <1>3, <1>5, <1>6, OpenedSample, Zenon
  <2> QED BY <1>6, <2>1, VerdictKeeps DEF Finish
<1>7. CASE ~half
  <2>1. FinalCounts = LineEndCounts(Sample)
    <3>1. carry = EndsIn(file, Reach, "CR") /\ counts = Between(file, 1, Reach)
      BY <1>2 DEF SniffInv, CountInv
    <3> QED BY <1>2, <1>4, <3>1, WholeIsCounted, Zenon DEF FinalCounts
  <2>2. verdict' = Classify(Sample)
    BY <1>1, <1>3, <1>5, <1>7, <2>1, OpenedSample, Zenon DEF Finish
  <2>3. style' = DominantStyle(LineEndCounts(Sample))
    BY <1>7, <2>1 DEF Finish
  <2>4. ChunkInv' /\ CountInv' /\ DecodeInv' /\ LookInv'
    BY ReadingKept DEF Finish
  <2>5. Sample' = Sample /\ Classify(Sample)' = Classify(Sample)
    BY DEF Finish, Sample, Classify, ShebangAfterBom, HasBom
  <2>6. /\ LineEndCounts(Sample).lf \in Nat /\ LineEndCounts(Sample).crlf \in Nat /\ LineEndCounts(Sample).cr \in Nat
    BY LineEndsAreNumbers, SampleAtHand, <1>1, <1>2, <1>4
  <2>7. StyleDominates'
    <3> DEFINE n == LineEndCounts(Sample)
    <3>1. \A other \in {"LF", "CRLF", "CR"} :
            [LF |-> n.lf, CRLF |-> n.crlf, CR |-> n.cr][DominantStyle(n)]
              >= [LF |-> n.lf, CRLF |-> n.crlf, CR |-> n.cr][other]
      <4> HIDE DEF n
      <4> QED BY <2>6 DEF DominantStyle, n
    <3> QED BY <2>3, <2>5, <3>1 DEF StyleDominates
  <2>8. SampleIsJudgedAsAWhole'
    BY <2>2, <2>5, <2>7 DEF SampleIsJudgedAsAWhole, VerdictIsThatOfTheSample
  <2> QED BY <2>4, <2>8 DEF SniffInv
<1> QED BY <1>6, <1>7

(* However a file is cut into chunks, and wherever the limit cuts it, _sniff_stream judges its
   encoding and its line ends as somebody would who saw the whole sample at once. *)
THEOREM ChunksAreNotSeen == Spec => []SampleIsJudgedAsAWhole
<1>1. SniffInv /\ [Next]_vars => SniffInv'
  <2> SUFFICES ASSUME SniffInv, [Next]_vars PROVE SniffInv'
    OBVIOUS
  <2>1. CASE RejectPrefix
    BY <2>1, RejectPrefixKeeps
  <2>2. CASE Undecodable
    BY <2>2, UndecodableKeeps
  <2>3. CASE TakeChunk
    BY <2>3, TakeChunkKeeps
  <2>4. CASE Finish
    BY <2>4, FinishKeeps
  <2>5. CASE UNCHANGED vars
    <3>1. ChunkInv' /\ CountInv' /\ DecodeInv' /\ LookInv'
      BY <2>5, ReadingKept DEF vars
    <3>2. Sample' = Sample /\ Classify(Sample)' = Classify(Sample)
      BY <2>5 DEF vars, Sample, Classify, ShebangAfterBom, HasBom
    <3>3. SampleIsJudgedAsAWhole'
      BY <2>5, <3>2 DEF vars, SniffInv, SampleIsJudgedAsAWhole, VerdictIsThatOfTheSample, StyleDominates
    <3> QED BY <3>1, <3>3 DEF SniffInv
  <2> QED BY <2>1, <2>2, <2>3, <2>4, <2>5 DEF Next
<1>2. SniffInv => SampleIsJudgedAsAWhole
  BY DEF SniffInv
<1> QED BY SniffStarts, <1>1, <1>2, PTL DEF Spec

-----------------------------------------------------------------------------
(* The lines of a text *)

(* Ascending counts through a set of numbers upwards and leaves none out. *)
LEMMA AscendingInOrder ==
    ASSUME NEW n \in Nat, NEW E \in SUBSET (1 .. n)
    PROVE  /\ Cardinality(E) \in Nat
           /\ Ascending(E) \in [1 .. Cardinality(E) -> E]
           /\ \A k, l \in 1 .. Cardinality(E) : k < l => Ascending(E)[k] < Ascending(E)[l]
           /\ \A e \in E : \E k \in 1 .. Cardinality(E) : Ascending(E)[k] = e
<1> DEFINE c == Cardinality(E)
<1>0. \A e \in E : e \in Nat
  OBVIOUS
<1>1. /\ IsFiniteSet(E) /\ c \in Nat
      /\ \A i \in E : Position(E, i) \in 0 .. (c - 1)
      /\ \A i, j \in E : i < j => Position(E, i) < Position(E, j)
  BY PositionsGrow
<1>2. \A x \in E : Cardinality({y \in E : y <= x}) = Position(E, x) + 1
  <2> TAKE x \in E
  <2>1. {y \in E : y <= x} = {y \in E : y < x} \cup {x} /\ x \notin {y \in E : y < x}
    <3>1. \A y \in E : (y <= x <=> y < x \/ y = x)
      BY <1>0
    <3>2. ~(x < x)
      BY <1>0
    <3> QED BY <3>1, <3>2
  <2>2. IsFiniteSet({y \in E : y < x})
    BY <1>1, FS_Subset
  <2> QED BY <2>1, <2>2, FS_AddElement DEF Position
<1>3. \A k \in 1 .. c : \E x \in E : Position(E, x) = k - 1
  BY PositionsFill
<1>4. \A k \in 1 .. c : Ascending(E)[k] \in E /\ Position(E, Ascending(E)[k]) = k - 1
  <2> TAKE k \in 1 .. c
  <2>1. PICK x \in E : Position(E, x) = k - 1
    BY <1>3
  <2>2. Cardinality({y \in E : y <= x}) = k
    BY <1>2, <2>1
  <2> DEFINE z == CHOOSE x_1 \in E : Cardinality({y \in E : y <= x_1}) = k
  <2>3. z \in E /\ Cardinality({y \in E : y <= z}) = k
    BY <2>2
  <2>4. Ascending(E)[k] = z
    BY DEF Ascending
  <2> HIDE DEF z
  <2>5. Position(E, z) + 1 = k /\ Position(E, z) \in Nat
    BY <1>1, <1>2, <2>3
  <2>6. Position(E, z) = k - 1
    BY <2>5
  <2> QED BY <2>3, <2>4, <2>6
<1>5. Ascending(E) \in [1 .. c -> E]
  BY <1>4 DEF Ascending
<1> DEFINE at == Ascending(E)
<1> HIDE DEF at, c
<1>6. ASSUME NEW k \in 1 .. c, NEW l \in 1 .. c, k < l
      PROVE  at[k] < at[l]
  <2>1. at[k] \in Nat /\ at[l] \in Nat /\ at[k] \in E /\ at[l] \in E
    BY <1>0, <1>4 DEF at
  <2>2. Position(E, at[k]) = k - 1 /\ Position(E, at[l]) = l - 1
    BY <1>4 DEF at
  <2>3. CASE at[k] = at[l]
    BY <2>2, <2>3, <1>6, <1>1
  <2>4. CASE at[l] < at[k]
    <3>1. Position(E, at[l]) < Position(E, at[k])
      BY <1>1, <2>1, <2>4
    <3> QED BY <3>1, <2>2, <1>6, <1>1
  <2> QED BY <2>1, <2>3, <2>4
<1>7. ASSUME NEW e \in E
      PROVE  \E k \in 1 .. c : at[k] = e
  <2> DEFINE k == Position(E, e) + 1
  <2>1. k \in 1 .. c /\ Position(E, e) = k - 1 /\ Position(E, e) \in Nat
    BY <1>1
  <2>2. Position(E, at[k]) = k - 1 /\ at[k] \in E
    BY <1>4, <2>1 DEF at
  <2> HIDE DEF k
  <2>3. Position(E, at[k]) = Position(E, e)
    BY <2>1, <2>2
  <2>4. at[k] \in Nat /\ e \in Nat
    BY <1>0, <2>2
  <2>5. ~(at[k] < e)
    <3> SUFFICES ASSUME at[k] < e PROVE FALSE
      OBVIOUS
    <3>1. Position(E, at[k]) < Position(E, e)
      BY <1>1, <2>2
    <3> QED BY <3>1, <2>3, <2>1
  <2>6. ~(e < at[k])
    <3> SUFFICES ASSUME e < at[k] PROVE FALSE
      OBVIOUS
    <3>1. Position(E, e) < Position(E, at[k])
      BY <1>1, <2>2
    <3> QED BY <3>1, <2>3, <2>1
  <2>7. at[k] = e
    BY <2>4, <2>5, <2>6
  <2> QED BY <2>1, <2>7
<1> QED BY <1>1, <1>5, <1>6, <1>7 DEF at, c

(* There is one way to count through a set of numbers upwards. *)
LEMMA AscendingOnly ==
    ASSUME NEW n \in Nat, NEW E \in SUBSET (1 .. n), NEW c \in Nat, NEW at \in [1 .. c -> E],
           \A k, l \in 1 .. c : k < l => at[k] < at[l],
           \A e \in E : \E k \in 1 .. c : at[k] = e
    PROVE  Cardinality(E) = c /\ \A k \in 1 .. c : Ascending(E)[k] = at[k]
<1> DEFINE d == Cardinality(E)
           bt == Ascending(E)
<1>0. \A e \in E : e \in Nat
  OBVIOUS
<1>1. /\ d \in Nat /\ bt \in [1 .. d -> E]
      /\ \A k, l \in 1 .. d : k < l => bt[k] < bt[l]
      /\ \A e \in E : \E k \in 1 .. d : bt[k] = e
  BY AscendingInOrder
<1>2. d = c
  <2>1. at \in Bijection(1 .. c, E)
    <3>1. at \in Injection(1 .. c, E)
      <4>1. ASSUME NEW k \in 1 .. c, NEW l \in 1 .. c, k # l
            PROVE  at[k] # at[l]
        <5>1. at[k] \in Nat /\ at[l] \in Nat /\ k \in Nat /\ l \in Nat
          <6>1. at[k] \in E /\ at[l] \in E
            OBVIOUS
          <6>2. at[k] \in Nat /\ at[l] \in Nat
            BY <1>0, <6>1, Zenon
          <6>3. k \in Nat /\ l \in Nat
            OBVIOUS
          <6> QED BY <6>2, <6>3
        <5>2. CASE k < l
          <6>1. at[k] < at[l]
            BY <5>2
          <6> QED BY <5>1, <6>1
        <5>3. CASE l < k
          <6>1. at[l] < at[k]
            BY <5>3
          <6> QED BY <5>1, <6>1
        <5> QED BY <4>1, <5>1, <5>2, <5>3
      <4> QED BY <4>1 DEF Injection, IsInjective
    <3>2. at \in Surjection(1 .. c, E)
      BY DEF Surjection
    <3> QED BY <3>1, <3>2 DEF Bijection
  <2>2. IsFiniteSet(1 .. c) /\ Cardinality(1 .. c) = c
    BY FS_Interval
  <2>3. Cardinality(1 .. c) = Cardinality(E)
    BY <2>1, <2>2, FS_Bijection DEF ExistsBijection
  <2> QED BY <2>2, <2>3
<1> HIDE DEF d, bt
<1> DEFINE G == {k \in Nat : \A l \in 1 .. c : l <= k => bt[l] = at[l]}
<1>3. 0 \in G
  OBVIOUS
<1>4. ASSUME NEW k \in Nat, k \in G
      PROVE  k + 1 \in G
  <2> SUFFICES ASSUME k + 1 \in 1 .. c
               PROVE  bt[k + 1] = at[k + 1]
    BY <1>4
  <2>0. at[k + 1] \in E /\ bt[k + 1] \in E /\ at[k + 1] \in Nat /\ bt[k + 1] \in Nat
    BY <1>0, <1>1, <1>2
  <2>1. PICK j \in 1 .. c : at[j] = bt[k + 1]
    BY <2>0
  <2>2. PICK i \in 1 .. d : bt[i] = at[k + 1]
    BY <2>0, <1>1
  <2>3. j >= k + 1
    <3> SUFFICES ASSUME j <= k PROVE FALSE
      OBVIOUS
    <3>1. bt[j] = bt[k + 1]
      BY <1>4, <2>1
    <3>2. bt[j] < bt[k + 1]
      BY <1>1, <1>2
    <3> QED BY <3>1, <3>2, <2>0
  <2>4. i >= k + 1
    <3> SUFFICES ASSUME i <= k PROVE FALSE
      BY <1>1
    <3>1. at[i] = at[k + 1]
      BY <1>4, <2>2, <1>2
    <3>2. at[i] < at[k + 1]
      BY <1>2
    <3> QED BY <3>1, <3>2, <2>0
  <2>5. at[k + 1] <= bt[k + 1]
    <3>1. CASE j = k + 1
      BY <3>1, <2>1, <2>0
    <3>2. CASE j > k + 1
      <4>1. at[k + 1] < at[j]
        BY <3>2
      <4> QED BY <4>1, <2>1, <2>0
    <3> QED BY <3>1, <3>2, <2>3
  <2>6. bt[k + 1] <= at[k + 1]
    <3>1. CASE i = k + 1
      BY <3>1, <2>2, <2>0
    <3>2. CASE i > k + 1
      <4>1. bt[k + 1] < bt[i]
        BY <3>2, <1>1, <1>2
      <4> QED BY <4>1, <2>2, <2>0
    <3> QED BY <3>1, <3>2, <2>4, <1>1
  <2> QED BY <2>0, <2>5, <2>6
<1>5. \A k \in Nat : k \in G
  BY <1>3, <1>4, Induction
<1>6. ASSUME NEW k \in 1 .. c
      PROVE  bt[k] = at[k]
  <2>1. k \in G /\ k <= k
    BY <1>5
  <2> QED BY <2>1
<1> QED BY <1>2, <1>6 DEF d, bt

\* Where the lines of a text end.
LastOfLines(t) == {i \in DOMAIN t : t[i] \in LineEnds \/ i = Len(t)}

\* Lines as readlines() returns them: none is empty, and only the last may lack a line end.
WellCut(ls) ==
    \A k \in DOMAIN ls : /\ ls[k] # <<>>
                         /\ \A i \in 1 .. Len(ls[k]) - 1 : ls[k][i] \notin LineEnds
                         /\ k < Len(ls) => ls[k][Len(ls[k])] \in LineEnds

\* a[k] is where line k of t ends.
CutsLines(t, c, a) ==
    /\ a[0] = 0 /\ a[c] = Len(t)
    /\ \A k \in 1 .. c :
          /\ a[k - 1] < a[k]
          /\ LinesOf(t)[k] = SubSeq(t, a[k - 1] + 1, a[k])
          /\ \A i \in a[k - 1] + 1 .. a[k] - 1 : t[i] \notin LineEnds
          /\ k < c => t[a[k]] \in LineEnds

(* The lines of a text are what is between its cuts. *)
LEMMA LinesByCuts ==
    ASSUME NEW S, NEW t \in Seq(S)
    PROVE  /\ LinesOf(t) \in Seq(Seq(S))
           /\ \E a \in [0 .. Len(LinesOf(t)) -> 0 .. Len(t)] : CutsLines(t, Len(LinesOf(t)), a)
<1> DEFINE E == LastOfLines(t)
           c == Cardinality(E)
           at == Ascending(E)
           n == Len(t)
           a == [k \in 0 .. c |-> IF k = 0 THEN 0 ELSE at[k]]
           lines == [k \in 1 .. c |-> SubSeq(t, IF k = 1 THEN 1 ELSE at[k - 1] + 1, at[k])]
<1>0. n \in Nat /\ DOMAIN t = 1 .. n
  OBVIOUS
<1>1. E \in SUBSET (1 .. n) /\ (n # 0 => n \in E)
  BY <1>0 DEF LastOfLines
<1>2. /\ c \in Nat /\ at \in [1 .. c -> E]
      /\ \A k, l \in 1 .. c : k < l => at[k] < at[l]
      /\ \A e \in E : \E k \in 1 .. c : at[k] = e
  BY <1>0, <1>1, AscendingInOrder
<1>3. \A i \in E : i \in 1 .. n /\ (i = n \/ t[i] \in LineEnds)
  BY <1>0 DEF LastOfLines
<1>4. \A i \in 1 .. n : i \notin E => t[i] \notin LineEnds
  BY <1>0 DEF LastOfLines
<1>5. LinesOf(t) = lines
  <2>1. DOMAIN at = 1 .. c
    BY <1>2
  <2>2. LinesOf(t) = [k \in DOMAIN at |-> SubSeq(t, IF k = 1 THEN 1 ELSE at[k - 1] + 1, at[k])]
    BY DEF LinesOf, LastOfLines
  <2> QED BY <2>1, <2>2
<1> HIDE DEF E, c, at, n
<1>6. \A k \in 1 .. c : at[k] \in E /\ at[k] \in 1 .. n
  BY <1>2, <1>3
<1>7. a \in [0 .. c -> 0 .. n]
  BY <1>0, <1>2, <1>6
<1>8. a[0] = 0 /\ \A k \in 1 .. c : a[k] = at[k]
  BY <1>2
<1>9. a[c] = n
  <2>1. CASE n = 0
    <3>1. c = 0
      <4> SUFFICES ASSUME c # 0 PROVE FALSE
        OBVIOUS
      <4>1. 1 \in 1 .. c
        BY <1>2
      <4> QED BY <4>1, <1>6, <2>1
    <3> QED BY <3>1, <1>8, <2>1
  <2>2. CASE n # 0
    <3>1. PICK k \in 1 .. c : at[k] = n
      BY <1>1, <1>2, <2>2
    <3>2. k = c
      <4> SUFFICES ASSUME k # c PROVE FALSE
        OBVIOUS
      <4>1. c \in 1 .. c /\ k < c
        BY <1>2
      <4>2. at[k] < at[c] /\ at[c] \in 1 .. n
        BY <1>2, <1>6, <4>1
      <4> QED BY <4>2, <3>1, <1>0
    <3> QED BY <3>1, <3>2, <1>8
  <2> QED BY <2>1, <2>2
<1>10. ASSUME NEW k \in 1 .. c
       PROVE  /\ a[k - 1] \in 0 .. n /\ a[k] \in 1 .. n
              /\ a[k - 1] < a[k]
              /\ lines[k] = SubSeq(t, a[k - 1] + 1, a[k])
              /\ \A i \in a[k - 1] + 1 .. a[k] - 1 : t[i] \notin LineEnds
              /\ k < c => t[a[k]] \in LineEnds
  <2>0. k \in Nat /\ k - 1 \in 0 .. c /\ k \in 0 .. c /\ a[k] = at[k] /\ at[k] \in 1 .. n /\ at[k] \in E
    BY <1>2, <1>6, <1>8
  <2>1. a[k - 1] \in 0 .. n
    BY <2>0, <1>7
  <2>2. k # 1 => k - 1 \in 1 .. c /\ a[k - 1] = at[k - 1]
    BY <2>0, <1>8, <1>2
  <2>3. a[k - 1] < a[k]
    <3>1. CASE k = 1
      BY <3>1, <2>0, <1>8
    <3>2. CASE k # 1
      <4>1. k - 1 < k
        BY <2>0
      <4>2. at[k - 1] < at[k]
        BY <1>2, <2>2, <3>2, <4>1
      <4> QED BY <4>2, <2>2, <2>0, <3>2
    <3> QED BY <3>1, <3>2
  <2>4. (IF k = 1 THEN 1 ELSE at[k - 1] + 1) = a[k - 1] + 1
    <3>1. CASE k = 1
      BY <3>1, <1>8
    <3>2. CASE k # 1
      BY <3>2, <2>2
    <3> QED BY <3>1, <3>2
  <2>5. lines[k] = SubSeq(t, IF k = 1 THEN 1 ELSE at[k - 1] + 1, at[k])
    OBVIOUS
  <2>6. lines[k] = SubSeq(t, a[k - 1] + 1, a[k])
    BY <2>0, <2>4, <2>5
  <2>7. ASSUME NEW i \in a[k - 1] + 1 .. a[k] - 1, t[i] \in LineEnds
        PROVE  FALSE
    <3>1. i \in 1 .. n /\ i \in Nat /\ a[k - 1] < i /\ i < a[k]
      BY <2>0, <2>1, <1>0
    <3>2. i \in E
      BY <1>4, <2>7, <3>1
    <3>3. PICK j \in 1 .. c : at[j] = i
      BY <1>2, <3>2
    <3>4. j < k
      <4> SUFFICES ASSUME k <= j PROVE FALSE
        BY <2>0
      <4>1. CASE j = k
        BY <4>1, <3>1, <3>3, <2>0
      <4>2. CASE k < j
        <5>1. at[k] < at[j]
          BY <4>2, <1>2
        <5> QED BY <5>1, <3>1, <3>3, <2>0
      <4> QED BY <4>1, <4>2, <2>0
    <3>5. k # 1 /\ j <= k - 1
      BY <3>4, <2>0
    <3>6. CASE j = k - 1
      BY <3>6, <3>5, <2>2, <3>1, <3>3, <2>1
    <3>7. CASE j < k - 1
      <4>1. at[j] < at[k - 1]
        BY <3>7, <3>5, <2>2, <1>2
      <4> QED BY <4>1, <3>5, <2>2, <3>1, <3>3, <2>1
    <3> QED BY <3>5, <3>6, <3>7, <2>0
  <2>8. k < c => t[a[k]] \in LineEnds
    <3> SUFFICES ASSUME k < c PROVE t[a[k]] \in LineEnds
      OBVIOUS
    <3>1. k + 1 \in 1 .. c /\ k < k + 1
      BY <2>0, <1>2
    <3>2. at[k] < at[k + 1] /\ at[k + 1] \in 1 .. n
      BY <3>1, <1>2, <1>6
    <3>3. at[k] # n
      BY <3>2, <2>0, <1>0
    <3> QED BY <3>3, <2>0, <1>3
  <2> HIDE DEF a, lines
  <2> QED BY <2>0, <2>1, <2>3, <2>6, <2>7, <2>8
<1>11. lines \in Seq(Seq(S)) /\ Len(lines) = c
  <2>1. ASSUME NEW k \in 1 .. c
        PROVE  lines[k] \in Seq(S)
    <3> HIDE DEF a, lines
    <3>1. a[k - 1] + 1 \in 1 .. n /\ a[k] \in 1 .. n /\ lines[k] = SubSeq(t, a[k - 1] + 1, a[k])
      BY <1>10, <1>0
    <3> DEFINE p == a[k - 1] + 1
               q == a[k]
    <3>2. p \in 1 .. n /\ q \in 1 .. n
      BY <3>1
    <3> HIDE DEF p, q
    <3>3. SubSeq(t, p, q) \in Seq(S)
      BY <3>2, <1>0 DEF n
    <3> QED BY <3>1, <3>3 DEF p, q
  <2>2. \A k \in 1 .. c : SubSeq(t, IF k = 1 THEN 1 ELSE at[k - 1] + 1, at[k]) \in Seq(S)
    BY <2>1
  <2>3. lines \in [1 .. c -> Seq(S)]
    BY <2>2
  <2> HIDE DEF lines
  <2> QED BY <2>3, <1>2
<1> HIDE DEF a, lines
<1>12. CutsLines(t, c, a)
  <2>1. a[0] = 0 /\ a[c] = Len(t)
    BY <1>8, <1>9 DEF n
  <2>2. ASSUME NEW k \in 1 .. c
        PROVE  /\ a[k - 1] < a[k]
               /\ LinesOf(t)[k] = SubSeq(t, a[k - 1] + 1, a[k])
               /\ \A i \in a[k - 1] + 1 .. a[k] - 1 : t[i] \notin LineEnds
               /\ k < c => t[a[k]] \in LineEnds
    BY <1>5, <1>10
  <2> QED BY <2>1, <2>2 DEF CutsLines
<1> QED BY <1>5, <1>7, <1>11, <1>12 DEF n

(* The lines of a text make the text. *)
LEMMA LinesJoined ==
    ASSUME NEW S, NEW t \in Seq(S)
    PROVE  FlattenSeq(LinesOf(t)) = t
<1> DEFINE ls == LinesOf(t)
           c == Len(ls)
<1>1. ls \in Seq(Seq(S)) /\ c \in Nat
  BY LinesByCuts
<1>2. PICK a \in [0 .. c -> 0 .. Len(t)] : CutsLines(t, c, a)
  BY LinesByCuts
<1>3. /\ a[0] = 0 /\ a[c] = Len(t)
      /\ \A k \in 1 .. c : a[k - 1] < a[k] /\ ls[k] = SubSeq(t, a[k - 1] + 1, a[k])
  BY <1>2 DEF CutsLines
<1> HIDE DEF ls, c
<1> DEFINE H == {k \in Nat : k <= c => FlattenSeq(SubSeq(ls, 1, k)) = SubSeq(t, 1, a[k])}
<1>4. 0 \in H
  <2>1. SubSeq(ls, 1, 0) = <<>> /\ SubSeq(t, 1, a[0]) = <<>>
    BY <1>1, <1>3
  <2>2. Len(SubSeq(ls, 1, 0)) = 0
    BY <2>1
  <2>3. FlattenSeq(SubSeq(ls, 1, 0)) = <<>>
    BY <2>1, <2>2, FlattenNothing
  <2> QED BY <2>1, <2>3
<1>5. ASSUME NEW k \in Nat, k \in H
      PROVE  k + 1 \in H
  <2> SUFFICES ASSUME k + 1 <= c
               PROVE  FlattenSeq(SubSeq(ls, 1, k + 1)) = SubSeq(t, 1, a[k + 1])
    OBVIOUS
  <2>1. k + 1 \in 1 .. c /\ (k + 1) - 1 = k /\ k \in 0 .. c /\ k + 1 \in 0 .. c /\ k <= c
    BY <1>1
  <2>2. a[k] < a[k + 1] /\ ls[k + 1] = SubSeq(t, a[k] + 1, a[k + 1])
    BY <1>3, <2>1
  <2>3. a[k] \in 0 .. Len(t) /\ a[k + 1] \in 0 .. Len(t)
    BY <2>1
  <2>4. FlattenSeq(SubSeq(ls, 1, k)) = SubSeq(t, 1, a[k])
    BY <1>5, <2>1
  <2> DEFINE less == SubSeq(ls, 1, k)
             p == a[k]
             q == a[k + 1]
  <2>5. less \in Seq(Seq(S)) /\ ls[k + 1] \in Seq(S) /\ SubSeq(ls, 1, k + 1) = Append(less, ls[k + 1])
    <3>1. c = Len(ls)
      BY DEF c
    <3> QED BY <1>1, <2>1, <3>1
  <2>6. FlattenSeq(SubSeq(ls, 1, k + 1)) = FlattenSeq(less) \o ls[k + 1]
    BY <2>5, FlattenAppended
  <2>7. FlattenSeq(SubSeq(ls, 1, k + 1)) = SubSeq(t, 1, p) \o SubSeq(t, p + 1, q)
    BY <2>2, <2>4, <2>6
  <2>8. p \in 0 .. Len(t) /\ q \in 0 .. Len(t) /\ p < q
    BY <2>2, <2>3
  <2> HIDE DEF p, q, less
  <2>9. 1 \in 1 .. Len(t) + 1 /\ p \in 1 - 1 .. Len(t) /\ q \in p .. Len(t)
    BY <2>8
  <2>10. SubSeq(t, 1, p) \o SubSeq(t, p + 1, q) = SubSeq(t, 1, q)
    BY <2>9, ConcatAdjacentSubSeq
  <2> QED BY <2>7, <2>10 DEF q
<1>6. \A k \in Nat : k \in H
  BY <1>4, <1>5, Induction
<1>7. FlattenSeq(SubSeq(ls, 1, c)) = SubSeq(t, 1, a[c])
  <2>1. c \in H /\ c <= c
    BY <1>1, <1>6
  <2> QED BY <2>1
<1>8. SubSeq(t, 1, Len(t)) = t
  BY SubSeqFull
<1>9. SubSeq(ls, 1, c) = ls
  BY <1>1, SubSeqFull DEF c
<1> QED BY <1>3, <1>7, <1>8, <1>9 DEF ls

(* The lines of a text are well cut. *)
LEMMA LinesWellCut ==
    ASSUME NEW S, NEW t \in Seq(S)
    PROVE  WellCut(LinesOf(t))
<1> DEFINE ls == LinesOf(t)
           c == Len(ls)
<1>1. ls \in Seq(Seq(S)) /\ c \in Nat /\ DOMAIN ls = 1 .. c
  BY LinesByCuts
<1>2. PICK a \in [0 .. c -> 0 .. Len(t)] : CutsLines(t, c, a)
  BY LinesByCuts
<1> HIDE DEF ls, c
<1>3. ASSUME NEW k \in 1 .. c
      PROVE  /\ ls[k] # <<>>
             /\ \A i \in 1 .. Len(ls[k]) - 1 : ls[k][i] \notin LineEnds
             /\ k < c => ls[k][Len(ls[k])] \in LineEnds
  <2> DEFINE p == a[k - 1]
             q == a[k]
  <2>1. p \in 0 .. Len(t) /\ q \in 0 .. Len(t)
    <3>1. k - 1 \in 0 .. c /\ k \in 0 .. c
      BY <1>1
    <3> QED BY <3>1
  <2>2. /\ p < q /\ ls[k] = SubSeq(t, p + 1, q)
        /\ \A i \in p + 1 .. q - 1 : t[i] \notin LineEnds
        /\ k < c => t[q] \in LineEnds
    BY <1>2 DEF CutsLines, ls
  <2> HIDE DEF p, q
  <2>3. /\ Len(ls[k]) = q - p
        /\ \A i \in 1 .. q - p : ls[k][i] = t[p + i]
    <3>1. Len(t) \in Nat /\ p + 1 \in 1 .. Len(t) /\ q \in p + 1 .. Len(t)
      BY <2>1, <2>2
    <3> QED BY <3>1, <2>1, <2>2
  <2>4. ls[k] # <<>>
    <3> SUFFICES ASSUME ls[k] = <<>> PROVE FALSE
      OBVIOUS
    <3>1. Len(ls[k]) = 0
      OBVIOUS
    <3> QED BY <3>1, <2>1, <2>2, <2>3
  <2>5. ASSUME NEW i \in 1 .. Len(ls[k]) - 1
        PROVE  ls[k][i] \notin LineEnds
    <3>1. i \in 1 .. q - p /\ p + i \in p + 1 .. q - 1
      BY <2>1, <2>3
    <3> QED BY <3>1, <2>2, <2>3
  <2>6. k < c => ls[k][Len(ls[k])] \in LineEnds
    <3>1. q - p \in 1 .. q - p /\ p + (q - p) = q
      BY <2>1, <2>2
    <3>2. ls[k][q - p] = t[q]
      BY <3>1, <2>3
    <3> QED BY <3>2, <2>2, <2>3
  <2> QED BY <2>4, <2>5, <2>6
<1> QED BY <1>1, <1>3 DEF WellCut, ls, c

(* Lines that are well cut are those of the text they make. *)
LEMMA LinesOnly ==
    ASSUME NEW S, NEW ls \in Seq(Seq(S)), WellCut(ls)
    PROVE  LinesOf(FlattenSeq(ls)) = ls
<1> DEFINE t == FlattenSeq(ls)
           c == Len(ls)
           n == Len(t)
           E == LastOfLines(t)
           r == [k \in 0 .. c |-> UpTo(ls, k)]
           at == [k \in 1 .. c |-> r[k]]
<1>1. t \in Seq(S) /\ n \in Nat /\ c \in Nat /\ DOMAIN t = 1 .. n /\ DOMAIN ls = 1 .. c
  <2>1. t \in Seq(S)
    BY FlattenTyped
  <2> HIDE DEF t
  <2> QED BY <2>1
<1>2. ASSUME NEW k \in 1 .. c
      PROVE  /\ ls[k] \in Seq(S) /\ Len(ls[k]) \in Nat \ {0}
             /\ \A i \in 1 .. Len(ls[k]) - 1 : ls[k][i] \notin LineEnds
             /\ k < c => ls[k][Len(ls[k])] \in LineEnds
  <2>1. ls[k] \in Seq(S) /\ ls[k] # <<>>
    <3>1. k \in DOMAIN ls
      BY <1>1
    <3>2. ls[k] \in Seq(S)
      BY <3>1
    <3> QED BY <3>1, <3>2 DEF WellCut
  <2>2. Len(ls[k]) \in Nat \ {0}
    BY <2>1
  <2> QED BY <1>1, <2>1, <2>2 DEF WellCut
<1>3. /\ r[0] = 0 /\ r[c] = n
  BY <1>1, ReachesStart
<1>4. ASSUME NEW k \in 1 .. c
      PROVE  /\ r[k - 1] \in Nat /\ r[k] = r[k - 1] + Len(ls[k]) /\ r[k] <= n
             /\ \A i \in 1 .. Len(ls[k]) : t[r[k - 1] + i] = ls[k][i]
  <2>1. k \in 1 .. Len(ls) /\ k - 1 \in 0 .. c /\ k \in 0 .. c
    BY <1>1
  <2>2. r[k - 1] = UpTo(ls, k - 1) /\ r[k] = UpTo(ls, k)
    BY <2>1
  <2> HIDE DEF r
  <2> QED BY <2>1, <2>2, PartAt
<1>5. ASSUME NEW i \in 1 .. n
      PROVE  \E k \in 1 .. c : \E j \in 1 .. Len(ls[k]) : i = r[k - 1] + j /\ t[i] = ls[k][j]
  <2>1. PICK k \in 1 .. c : \E j \in 1 .. Len(ls[k]) : i = UpTo(ls, k - 1) + j /\ t[i] = ls[k][j]
    BY PartOf
  <2>2. r[k - 1] = UpTo(ls, k - 1)
    BY <1>1
  <2> HIDE DEF r
  <2> QED BY <2>1, <2>2
<1>6. at \in [1 .. c -> E] /\ \A k \in 1 .. c : at[k] = r[k] /\ r[k] \in 1 .. n /\ r[k - 1] < r[k]
  <2>1. ASSUME NEW k \in 1 .. c
        PROVE  at[k] = r[k] /\ r[k] \in E /\ r[k] \in 1 .. n /\ r[k - 1] < r[k]
    <3>0. at[k] = r[k]
      OBVIOUS
    <3> HIDE DEF r, n, c, t
    <3>1. r[k] \in 1 .. n /\ r[k - 1] < r[k] /\ Len(ls[k]) \in 1 .. Len(ls[k])
      BY <1>1, <1>2, <1>4
    <3>2. t[r[k]] = ls[k][Len(ls[k])]
      BY <1>4, <3>1
    <3>3. k = c \/ k < c
      BY <1>1
    <3>4. r[k] = Len(t) \/ t[r[k]] \in LineEnds
      BY <3>2, <3>3, <1>2, <1>3 DEF n
    <3> QED BY <3>0, <3>1, <3>4, <1>1 DEF LastOfLines, E
  <2> QED BY <2>1
<1> HIDE DEF r
<1>7. ASSUME NEW k \in 1 .. c, NEW l \in 1 .. c, k < l
      PROVE  at[k] < at[l]
  <2> DEFINE G == {j \in Nat : k + j + 1 <= c => r[k] < r[k + j + 1]}
  <2> HIDE DEF at, t, n, E, c
  <2>1. 0 \in G
    <3>1. k + 0 + 1 <= c => k + 1 \in 1 .. c /\ (k + 1) - 1 = k /\ k + 0 + 1 = k + 1
      BY <1>1
    <3> QED BY <3>1, <1>6
  <2>2. ASSUME NEW j \in Nat, j \in G
        PROVE  j + 1 \in G
    <3> SUFFICES ASSUME k + (j + 1) + 1 <= c
                 PROVE  r[k] < r[k + (j + 1) + 1]
      OBVIOUS
    <3> DEFINE m == k + (j + 1) + 1
    <3>1. m \in 1 .. c /\ m - 1 = k + j + 1 /\ k + j + 1 <= c /\ m - 1 \in 1 .. c
      BY <1>1
    <3>2. r[k] < r[m - 1]
      BY <2>2, <3>1
    <3> HIDE DEF m
    <3>3. r[m - 1] < r[m] /\ r[m] \in 1 .. n /\ r[m - 1] \in 1 .. n /\ r[k] \in 1 .. n
      BY <1>6, <3>1
    <3>4. r[k] < r[m]
      BY <3>2, <3>3, <1>1
    <3> QED BY <3>4 DEF m
  <2>3. \A j \in Nat : j \in G
    BY <2>1, <2>2, Induction
  <2>4. l - k - 1 \in Nat /\ k + (l - k - 1) + 1 = l /\ l <= c
    BY <1>1, <1>7
  <2>5. r[k] < r[l]
    BY <2>3, <2>4
  <2> QED BY <2>5, <1>6
<1>8. ASSUME NEW e \in E
      PROVE  \E k \in 1 .. c : at[k] = e
  <2>1. e \in 1 .. n /\ (e = n \/ t[e] \in LineEnds)
    BY <1>1 DEF LastOfLines
  <2>2. PICK k \in 1 .. c : \E j \in 1 .. Len(ls[k]) : e = r[k - 1] + j /\ t[e] = ls[k][j]
    BY <1>5, <2>1
  <2>3. PICK j \in 1 .. Len(ls[k]) : e = r[k - 1] + j /\ t[e] = ls[k][j]
    BY <2>2
  <2> HIDE DEF at, t, n, E, c
  <2>4. CASE j = Len(ls[k])
    <3>1. e = r[k]
      BY <2>3, <2>4, <1>4
    <3> QED BY <3>1, <1>6
  <2>5. CASE j # Len(ls[k])
    <3>1. j \in 1 .. Len(ls[k]) - 1
      BY <2>5, <1>2
    <3>2. t[e] \notin LineEnds
      BY <2>3, <3>1, <1>2
    <3>3. r[k] <= n /\ r[k] = r[k - 1] + Len(ls[k]) /\ r[k - 1] \in Nat
      BY <1>4
    <3>4. e < n
      BY <3>1, <3>3, <2>3, <1>1, <1>2
    <3> QED BY <2>1, <3>2, <3>4, <1>1
  <2> QED BY <2>4, <2>5
<1> HIDE DEF at
<1>9. E \in SUBSET (1 .. n)
  BY <1>1 DEF LastOfLines
<1>10. Cardinality(E) = c /\ \A k \in 1 .. c : Ascending(E)[k] = at[k]
  <2> HIDE DEF E, c, n
  <2> QED BY <1>1, <1>6, <1>7, <1>8, <1>9, AscendingOnly
<1>11. DOMAIN Ascending(E) = 1 .. c
  BY <1>10 DEF Ascending
<1>12. LinesOf(t) = [k \in 1 .. c |-> SubSeq(t, IF k = 1 THEN 1 ELSE Ascending(E)[k - 1] + 1, Ascending(E)[k])]
  BY <1>11 DEF LinesOf, LastOfLines
<1> HIDE DEF t, n, E, c
<1>13. ASSUME NEW k \in 1 .. c
       PROVE  SubSeq(t, IF k = 1 THEN 1 ELSE Ascending(E)[k - 1] + 1, Ascending(E)[k]) = ls[k]
  <2>1. Ascending(E)[k] = r[k] /\ (k # 1 => Ascending(E)[k - 1] = r[k - 1])
    <3>1. k # 1 => k - 1 \in 1 .. c
      BY <1>1
    <3> QED BY <3>1, <1>6, <1>10
  <2>2. (IF k = 1 THEN 1 ELSE Ascending(E)[k - 1] + 1) = r[k - 1] + 1
    <3>1. CASE k = 1
      BY <3>1, <1>3
    <3>2. CASE k # 1
      BY <3>2, <2>1
    <3> QED BY <3>1, <3>2
  <2> DEFINE p == r[k - 1]
             q == r[k]
             l == ls[k]
  <2>3. /\ p \in Nat /\ q = p + Len(l) /\ q <= n /\ l \in Seq(S) /\ Len(l) \in Nat \ {0}
        /\ \A i \in 1 .. Len(l) : t[p + i] = l[i]
    BY <1>2, <1>4
  <2> HIDE DEF p, q, l
  <2>4. SubSeq(t, p + 1, q) \in Seq(S) /\ Len(SubSeq(t, p + 1, q)) = Len(l)
    <3>1. p + 1 \in 1 .. Len(t) /\ q \in p + 1 .. Len(t)
      BY <2>3, <1>1 DEF n
    <3> QED BY <3>1, <1>1, <2>3
  <2>5. \A i \in 1 .. Len(l) : SubSeq(t, p + 1, q)[i] = l[i]
    <3>1. \A i \in 1 .. Len(l) : SubSeq(t, p + 1, q)[i] = t[p + i]
      BY <1>1, <2>3 DEF n
    <3> QED BY <3>1, <2>3
  <2>6. SubSeq(t, p + 1, q) = l
    BY <2>3, <2>4, <2>5, SeqEqual
  <2> QED BY <2>1, <2>2, <2>6 DEF p, q, l
<1>14. LinesOf(t) = [k \in 1 .. c |-> ls[k]]
  BY <1>12, <1>13
<1>15. ls = [k \in 1 .. c |-> ls[k]]
  BY <1>1 DEF c
<1> QED BY <1>14, <1>15 DEF t

-----------------------------------------------------------------------------
(* What is within a sequence of a set of members *)

\* What each member of s contributes to what is within K.
Parts(s, K) == [i \in DOMAIN s |-> IF s[i] \in K THEN <<s[i]>> ELSE <<>>]

(* What is within a sequence of K is what its parts come to. *)
LEMMA PartsTyped ==
    ASSUME NEW S, NEW s \in Seq(S), NEW K
    PROVE  /\ Parts(s, K) \in Seq(Seq(S)) /\ Len(Parts(s, K)) = Len(s)
           /\ \A i \in 1 .. Len(s) : Parts(s, K)[i] = IF s[i] \in K THEN <<s[i]>> ELSE <<>>
           /\ Within(s, K) = FlattenSeq(Parts(s, K))
<1>1. \A i \in 1 .. Len(s) : (IF s[i] \in K THEN <<s[i]>> ELSE <<>>) \in Seq(S)
  OBVIOUS
<1>2. DOMAIN s = 1 .. Len(s) /\ Len(s) \in Nat
  OBVIOUS
<1>3. Parts(s, K) \in [1 .. Len(s) -> Seq(S)]
  BY <1>1, <1>2 DEF Parts
<1>4. Parts(s, K) \in Seq(Seq(S)) /\ Len(Parts(s, K)) = Len(s)
  BY <1>2, <1>3
<1> QED BY <1>2, <1>4 DEF Parts, Within

(* What is within a sequence is a sequence. *)
LEMMA WithinTyped ==
    ASSUME NEW S, NEW s \in Seq(S), NEW K
    PROVE  Within(s, K) \in Seq(S)
BY PartsTyped, FlattenTyped

(* What is within two sequences one behind the other. *)
LEMMA WithinJoined ==
    ASSUME NEW S, NEW a \in Seq(S), NEW b \in Seq(S), NEW K
    PROVE  Within(a \o b, K) = Within(a, K) \o Within(b, K)
<1> DEFINE x == Parts(a, K)
           y == Parts(b, K)
           z == Parts(a \o b, K)
           m == Len(a)
           n == Len(b)
<1>1. /\ a \o b \in Seq(S) /\ Len(a \o b) = m + n /\ m \in Nat /\ n \in Nat
      /\ \A i \in 1 .. m + n : (a \o b)[i] = IF i <= m THEN a[i] ELSE b[i - m]
  OBVIOUS
<1>2. /\ x \in Seq(Seq(S)) /\ Len(x) = m
      /\ \A i \in 1 .. m : x[i] = IF a[i] \in K THEN <<a[i]>> ELSE <<>>
  BY PartsTyped
<1>3. /\ y \in Seq(Seq(S)) /\ Len(y) = n
      /\ \A i \in 1 .. n : y[i] = IF b[i] \in K THEN <<b[i]>> ELSE <<>>
  BY PartsTyped
<1>4. /\ z \in Seq(Seq(S)) /\ Len(z) = m + n
      /\ \A i \in 1 .. m + n : z[i] = IF (a \o b)[i] \in K THEN <<(a \o b)[i]>> ELSE <<>>
  <2>1. a \o b \in Seq(S) /\ Len(a \o b) = m + n
    BY <1>1
  <2>2. \A c \in Seq(S) : /\ Parts(c, K) \in Seq(Seq(S)) /\ Len(Parts(c, K)) = Len(c)
                          /\ \A i \in 1 .. Len(c) : Parts(c, K)[i] = IF c[i] \in K THEN <<c[i]>> ELSE <<>>
    BY PartsTyped
  <2> HIDE DEF m, n
  <2> QED BY <2>1, <2>2
<1> HIDE DEF x, y, z, m, n
<1>5. /\ x \o y \in Seq(Seq(S)) /\ Len(x \o y) = m + n
      /\ \A i \in 1 .. m + n : (x \o y)[i] = IF i <= m THEN x[i] ELSE y[i - m]
  BY <1>2, <1>3, ConcatProperties
<1>6. ASSUME NEW i \in 1 .. m + n
      PROVE  z[i] = (x \o y)[i]
  <2>1. CASE i <= m
    <3>1. i \in 1 .. m
      BY <1>1, <2>1
    <3> QED BY <3>1, <2>1, <1>1, <1>2, <1>4, <1>5
  <2>2. CASE ~(i <= m)
    <3>1. i - m \in 1 .. n
      BY <1>1, <2>2
    <3> QED BY <3>1, <2>2, <1>1, <1>3, <1>4, <1>5
  <2> QED BY <2>1, <2>2
<1>7. z = x \o y
  BY <1>4, <1>5, <1>6, SeqEqual
<1>8. FlattenSeq(z) = FlattenSeq(x) \o FlattenSeq(y)
  BY <1>2, <1>3, <1>7, FlattenJoined
<1>9. Within(a, K) = FlattenSeq(x) /\ Within(b, K) = FlattenSeq(y) /\ Within(a \o b, K) = FlattenSeq(z)
  BY <1>1, PartsTyped DEF x, y, z
<1> QED BY <1>8, <1>9

(* All of a sequence over K is within K. *)
LEMMA WithinAll ==
    ASSUME NEW S, NEW s \in Seq(S), NEW K, \A i \in 1 .. Len(s) : s[i] \in K
    PROVE  Within(s, K) = s
<1>1. Parts(s, K) = [i \in DOMAIN s |-> <<s[i]>>]
  BY DEF Parts
<1> QED BY <1>1, PartsTyped, FlattenSingles

(* Nothing of a sequence without members of K is. *)
LEMMA WithinNone ==
    ASSUME NEW S, NEW s \in Seq(S), NEW K, \A i \in 1 .. Len(s) : s[i] \notin K
    PROVE  Within(s, K) = <<>>
<1>1. Parts(s, K) = [i \in 1 .. Len(s) |-> <<>>]
  BY DEF Parts
<1>2. Len(s) \in Nat
  OBVIOUS
<1> QED BY <1>1, <1>2, PartsTyped, FlattenEmpties

-----------------------------------------------------------------------------
(* Lines that are well cut *)

\* Lines that all have a line end.
AllEnded(ls) == \A k \in DOMAIN ls : ls[k][Len(ls[k])] \in LineEnds

(* A stretch of lines that are well cut is so too, and all have ends but for the last of all. *)
LEMMA CutPart ==
    ASSUME NEW S, NEW ls \in Seq(Seq(S)), WellCut(ls),
           NEW m \in 1 .. Len(ls) + 1, NEW n \in m - 1 .. Len(ls)
    PROVE  /\ WellCut(SubSeq(ls, m, n))
           /\ n < Len(ls) \/ AllEnded(ls) => AllEnded(SubSeq(ls, m, n))
<1> DEFINE p == SubSeq(ls, m, n)
<1>1. /\ DOMAIN p = 1 .. n - m + 1 /\ Len(p) = n - m + 1
      /\ \A k \in 1 .. n - m + 1 : p[k] = ls[m + k - 1]
  OBVIOUS
<1>2. DOMAIN ls = 1 .. Len(ls) /\ Len(ls) \in Nat
  OBVIOUS
<1> HIDE DEF p
<1>3. ASSUME NEW k \in 1 .. n - m + 1
      PROVE  /\ m + k - 1 \in 1 .. Len(ls) /\ m + k - 1 <= n
             /\ k < n - m + 1 => m + k - 1 < Len(ls)
             /\ p[k] = ls[m + k - 1]
  BY <1>1, <1>2
<1>4. WellCut(p)
  BY <1>1, <1>2, <1>3 DEF WellCut
<1>5. ASSUME n < Len(ls) \/ AllEnded(ls)
      PROVE  AllEnded(p)
  <2> SUFFICES ASSUME NEW k \in 1 .. n - m + 1
               PROVE  p[k][Len(p[k])] \in LineEnds
    BY <1>1 DEF AllEnded
  <2> DEFINE j == m + k - 1
  <2>1. j \in 1 .. Len(ls) /\ j <= n /\ p[k] = ls[j]
    BY <1>3
  <2> HIDE DEF j
  <2>2. CASE n < Len(ls)
    <3>1. j < Len(ls)
      BY <1>2, <2>1, <2>2
    <3> QED BY <1>2, <2>1, <3>1 DEF WellCut
  <2>3. CASE AllEnded(ls)
    BY <1>2, <2>1, <2>3 DEF AllEnded
  <2> QED BY <1>5, <2>2, <2>3
<1> QED BY <1>4, <1>5 DEF p

(* Lines behind lines that all have an end are well cut together. *)
LEMMA CutJoined ==
    ASSUME NEW S, NEW a \in Seq(Seq(S)), NEW b \in Seq(Seq(S)), WellCut(a), WellCut(b),
           b # <<>> => AllEnded(a)
    PROVE  /\ WellCut(a \o b)
           /\ AllEnded(a) /\ AllEnded(b) => AllEnded(a \o b)
<1> DEFINE c == a \o b
           m == Len(a)
           n == Len(b)
<1>1. /\ m \in Nat /\ n \in Nat /\ DOMAIN a = 1 .. m /\ DOMAIN b = 1 .. n
      /\ c \in Seq(Seq(S)) /\ Len(c) = m + n /\ DOMAIN c = 1 .. m + n
      /\ \A k \in 1 .. m : c[k] = a[k]
      /\ \A k \in 1 .. n : c[m + k] = b[k]
  OBVIOUS
<1>2. n # 0 => b # <<>>
  OBVIOUS
<1> HIDE DEF c, m, n
<1>3. ASSUME NEW k \in 1 .. m + n
      PROVE  k \in 1 .. m \/ (k - m \in 1 .. n /\ m + (k - m) = k /\ n # 0)
  BY <1>1
<1>4. ASSUME NEW k \in 1 .. m + n
      PROVE  /\ c[k] # <<>>
             /\ \A i \in 1 .. Len(c[k]) - 1 : c[k][i] \notin LineEnds
             /\ k < m + n => c[k][Len(c[k])] \in LineEnds
  <2>1. CASE k \in 1 .. m
    <3>1. c[k] = a[k] /\ k \in DOMAIN a
      BY <1>1, <2>1
    <3>2. a[k] # <<>> /\ (\A i \in 1 .. Len(a[k]) - 1 : a[k][i] \notin LineEnds)
      BY <3>1 DEF WellCut
    <3>3. k < m + n => k < m \/ n # 0
      BY <1>1, <2>1
    <3>4. k < m => a[k][Len(a[k])] \in LineEnds
      BY <3>1 DEF WellCut, m
    <3>5. n # 0 => a[k][Len(a[k])] \in LineEnds
      BY <1>2, <3>1 DEF AllEnded
    <3> QED BY <3>1, <3>2, <3>3, <3>4, <3>5
  <2>2. CASE k - m \in 1 .. n /\ m + (k - m) = k
    <3> DEFINE j == k - m
    <3>1. j \in DOMAIN b /\ c[k] = b[j] /\ (k < m + n => j < n)
      BY <1>1, <2>2
    <3> HIDE DEF j
    <3> QED BY <3>1 DEF WellCut, n
  <2> QED BY <1>3, <2>1, <2>2
<1>5. WellCut(c)
  BY <1>1, <1>4 DEF WellCut
<1>6. ASSUME AllEnded(a), AllEnded(b)
      PROVE  AllEnded(c)
  <2> SUFFICES ASSUME NEW k \in 1 .. m + n
               PROVE  c[k][Len(c[k])] \in LineEnds
    BY <1>1 DEF AllEnded
  <2>1. CASE k \in 1 .. m
    BY <2>1, <1>1, <1>6 DEF AllEnded
  <2>2. CASE k - m \in 1 .. n /\ m + (k - m) = k
    <3> DEFINE j == k - m
    <3>1. j \in DOMAIN b /\ c[k] = b[j]
      BY <1>1, <2>2
    <3> HIDE DEF j
    <3> QED BY <3>1, <1>6 DEF AllEnded
  <2> QED BY <1>3, <2>1, <2>2
<1> QED BY <1>5, <1>6 DEF c

(* A text that ends in a line end is made of lines that do. *)
LEMMA EndedLines ==
    ASSUME NEW S, NEW t \in Seq(S), EndsWithNewline(t) \/ t = <<>>
    PROVE  AllEnded(LinesOf(t))
<1> DEFINE ls == LinesOf(t)
           c == Len(ls)
<1>1. ls \in Seq(Seq(S)) /\ FlattenSeq(ls) = t /\ WellCut(ls)
  BY LinesByCuts, LinesJoined, LinesWellCut
<1>2. c \in Nat /\ DOMAIN ls = 1 .. c
  BY <1>1
<1> HIDE DEF ls
<1> SUFFICES ASSUME NEW k \in 1 .. c
             PROVE  ls[k][Len(ls[k])] \in LineEnds
  BY <1>2 DEF AllEnded, ls
<1>3. CASE k < c
  BY <1>1, <1>2, <1>3 DEF WellCut
<1>4. CASE k = c
  <2>1. ls[k] \in Seq(S) /\ ls[k] # <<>> /\ k \in 1 .. Len(ls)
    <3>1. k \in DOMAIN ls /\ k \in 1 .. Len(ls)
      BY <1>2
    <3>2. ls[k] \in Seq(S)
      BY <1>1, <3>1
    <3> QED BY <1>1, <3>1, <3>2 DEF WellCut
  <2>2. Len(ls[k]) \in 1 .. Len(ls[k]) /\ Len(ls[k]) \in Nat
    BY <2>1
  <2>3. /\ UpTo(ls, k - 1) \in Nat /\ UpTo(ls, k) = UpTo(ls, k - 1) + Len(ls[k])
        /\ t[UpTo(ls, k - 1) + Len(ls[k])] = ls[k][Len(ls[k])]
    BY <1>1, <2>1, <2>2, PartAt
  <2>4. UpTo(ls, k) = Len(t)
    BY <1>1, <1>4, ReachesStart
  <2>5. Len(t) # 0 /\ t[Len(t)] = ls[k][Len(ls[k])]
    BY <2>2, <2>3, <2>4
  <2>6. t # <<>>
    BY <2>5
  <2>7. t[Len(t)] \in LineEnds
    BY <2>6 DEF EndsWithNewline, Last
  <2> QED BY <2>5, <2>7
<1>5. k < c \/ k = c
  <2> HIDE DEF c
  <2> QED BY <1>2
<1> QED BY <1>3, <1>4, <1>5

-----------------------------------------------------------------------------

-----------------------------------------------------------------------------
(* The lines of a diff *)

\* Lines behind the tag that a line of a diff begins with.
Behind(tag, ls) == [i \in DOMAIN ls |-> <<tag>> \o ls[i]]

(* What a tag in front of them makes of lines. *)
LEMMA BehindTag ==
    ASSUME NEW S, NEW tag \in S, NEW ls \in Seq(Seq(S))
    PROVE  /\ Behind(tag, ls) \in Seq(Seq(S)) /\ Len(Behind(tag, ls)) = Len(ls)
           /\ \A i \in 1 .. Len(ls) :
                 /\ Behind(tag, ls)[i] \in Seq(S) /\ Behind(tag, ls)[i] # <<>>
                 /\ Behind(tag, ls)[i][1] = tag /\ Tail(Behind(tag, ls)[i]) = ls[i]
                 /\ Len(Behind(tag, ls)[i]) = Len(ls[i]) + 1
                 /\ \A j \in 1 .. Len(ls[i]) : Behind(tag, ls)[i][j + 1] = ls[i][j]
<1> DEFINE b == Behind(tag, ls)
<1>1. DOMAIN ls = 1 .. Len(ls) /\ Len(ls) \in Nat
  OBVIOUS
<1>2. ASSUME NEW l \in Seq(S)
      PROVE  /\ <<tag>> \o l \in Seq(S) /\ <<tag>> \o l # <<>>
             /\ (<<tag>> \o l)[1] = tag /\ Tail(<<tag>> \o l) = l
             /\ Len(<<tag>> \o l) = Len(l) + 1
             /\ \A j \in 1 .. Len(l) : (<<tag>> \o l)[j + 1] = l[j]
  <2> DEFINE one == <<tag>>
  <2>1. one \in Seq(S) /\ Len(one) = 1 /\ one[1] = tag
    OBVIOUS
  <2> HIDE DEF one
  <2> DEFINE w == one \o l
  <2>2. /\ w \in Seq(S) /\ Len(w) = Len(l) + 1 /\ Len(l) \in Nat
        /\ \A j \in 1 .. Len(l) + 1 : w[j] = IF j <= 1 THEN one[j] ELSE l[j - 1]
    <3>1. /\ w \in Seq(S) /\ Len(w) = Len(one) + Len(l)
          /\ \A j \in 1 .. Len(one) + Len(l) : w[j] = IF j <= Len(one) THEN one[j] ELSE l[j - Len(one)]
      BY <2>1, ConcatProperties
    <3>2. Len(l) \in Nat /\ Len(one) + Len(l) = Len(l) + 1
      BY <2>1
    <3> HIDE DEF w
    <3> QED BY <3>1, <3>2, <2>1
  <2> HIDE DEF w
  <2>3. w # <<>> /\ w[1] = tag
    BY <2>1, <2>2
  <2>4. \A j \in 1 .. Len(l) : w[j + 1] = l[j]
    <3> TAKE j \in 1 .. Len(l)
    <3>1. j + 1 \in 1 .. Len(l) + 1 /\ ~(j + 1 <= 1) /\ (j + 1) - 1 = j
      BY <2>2
    <3> QED BY <3>1, <2>2
  <2>5. /\ Tail(w) \in Seq(S) /\ Len(Tail(w)) = Len(l)
        /\ \A j \in 1 .. Len(l) : Tail(w)[j] = w[j + 1]
    <3>1. /\ Tail(w) \in Seq(S) /\ Len(Tail(w)) = Len(w) - 1
          /\ \A j \in 1 .. Len(Tail(w)) : Tail(w)[j] = w[j + 1]
      BY <2>2, <2>3, HeadTailProperties
    <3>2. Len(w) - 1 = Len(l)
      BY <2>2
    <3> QED BY <3>1, <3>2
  <2>6. Tail(w) = l
    BY <2>4, <2>5, SeqEqual
  <2> QED BY <2>2, <2>3, <2>4, <2>6 DEF w, one
<1>3. ASSUME NEW i \in 1 .. Len(ls)
      PROVE  b[i] = <<tag>> \o ls[i] /\ ls[i] \in Seq(S)
  BY <1>1 DEF Behind
<1>4. b \in [1 .. Len(ls) -> Seq(S)]
  BY <1>1, <1>2, <1>3 DEF Behind
<1>5. b \in Seq(Seq(S)) /\ Len(b) = Len(ls)
  BY <1>1, <1>4
<1> HIDE DEF b
<1>6. ASSUME NEW i \in 1 .. Len(ls)
      PROVE  /\ b[i] \in Seq(S) /\ b[i] # <<>> /\ b[i][1] = tag /\ Tail(b[i]) = ls[i]
             /\ Len(b[i]) = Len(ls[i]) + 1
             /\ \A j \in 1 .. Len(ls[i]) : b[i][j + 1] = ls[i][j]
  <2> DEFINE l == ls[i]
  <2>1. l \in Seq(S) /\ b[i] = <<tag>> \o l
    BY <1>3
  <2> HIDE DEF l
  <2>2. /\ <<tag>> \o l \in Seq(S) /\ <<tag>> \o l # <<>>
        /\ (<<tag>> \o l)[1] = tag /\ Tail(<<tag>> \o l) = l
        /\ Len(<<tag>> \o l) = Len(l) + 1
        /\ \A j \in 1 .. Len(l) : (<<tag>> \o l)[j + 1] = l[j]
    BY <1>2, <2>1
  <2> DEFINE w == <<tag>> \o l
  <2> HIDE DEF w
  <2>3. b[i] = w
    BY <2>1 DEF w
  <2>4. /\ w \in Seq(S) /\ w # <<>> /\ w[1] = tag /\ Tail(w) = l /\ Len(w) = Len(l) + 1
        /\ \A j \in 1 .. Len(l) : w[j + 1] = l[j]
    BY <2>2 DEF w
  <2> QED BY <2>3, <2>4 DEF l
<1> QED BY <1>5, <1>6 DEF b

(* Lines behind a tag are as well cut as they were. *)
LEMMA CutBehind ==
    ASSUME NEW S, NEW tag \in S, tag \notin LineEnds, NEW ls \in Seq(Seq(S)), WellCut(ls)
    PROVE  /\ WellCut(Behind(tag, ls))
           /\ AllEnded(ls) => AllEnded(Behind(tag, ls))
<1> DEFINE b == Behind(tag, ls)
           n == Len(ls)
<1>1. /\ n \in Nat /\ DOMAIN ls = 1 .. n /\ DOMAIN b = 1 .. n /\ Len(b) = n
      /\ \A i \in 1 .. n :
            /\ b[i] # <<>> /\ b[i][1] = tag /\ Len(b[i]) = Len(ls[i]) + 1
            /\ \A j \in 1 .. Len(ls[i]) : b[i][j + 1] = ls[i][j]
  <2>1. b \in Seq(Seq(S)) /\ Len(b) = n /\ n \in Nat
    BY BehindTag
  <2>2. DOMAIN b = 1 .. n
    BY <2>1
  <2> QED BY <2>1, <2>2, BehindTag
<1> HIDE DEF b, n
<1>2. ASSUME NEW k \in 1 .. n
      PROVE  /\ Len(ls[k]) \in Nat \ {0} /\ b[k][Len(b[k])] = ls[k][Len(ls[k])]
             /\ \A i \in 1 .. Len(b[k]) - 1 : b[k][i] \notin LineEnds
  <2>1. k \in DOMAIN ls /\ ls[k] \in Seq(S)
    BY <1>1
  <2>2. ls[k] # <<>> /\ \A i \in 1 .. Len(ls[k]) - 1 : ls[k][i] \notin LineEnds
    BY <2>1 DEF WellCut
  <2>3. Len(ls[k]) \in Nat \ {0}
    BY <2>1, <2>2
  <2> DEFINE m == Len(ls[k])
  <2>4. /\ m \in Nat \ {0} /\ b[k][1] = tag /\ Len(b[k]) = m + 1
        /\ \A j \in 1 .. m : b[k][j + 1] = ls[k][j]
        /\ \A i \in 1 .. m - 1 : ls[k][i] \notin LineEnds
    BY <1>1, <2>2, <2>3
  <2> HIDE DEF m
  <2>5. b[k][m + 1] = ls[k][m]
    BY <2>4
  <2>6. ASSUME NEW i \in 1 .. m
        PROVE  b[k][i] \notin LineEnds
    <3>1. CASE i = 1
      BY <3>1, <2>4
    <3>2. CASE i # 1
      <4>1. i - 1 \in 1 .. m - 1 /\ i - 1 \in 1 .. m /\ (i - 1) + 1 = i
        BY <2>4, <3>2
      <4>2. b[k][i] = ls[k][i - 1]
        BY <2>4, <4>1
      <4> QED BY <2>4, <4>1, <4>2
    <3> QED BY <3>1, <3>2
  <2>7. Len(b[k]) - 1 = m
    BY <2>4
  <2> QED BY <2>3, <2>4, <2>5, <2>6, <2>7 DEF m
<1>3. WellCut(b)
  <2> SUFFICES ASSUME NEW k \in 1 .. n
               PROVE  k < n => b[k][Len(b[k])] \in LineEnds
    BY <1>1, <1>2 DEF WellCut
  <2>1. k < n => ls[k][Len(ls[k])] \in LineEnds
    BY <1>1 DEF WellCut, n
  <2> QED BY <1>2, <2>1
<1>4. AllEnded(ls) => AllEnded(b)
  BY <1>1, <1>2 DEF AllEnded
<1> QED BY <1>3, <1>4 DEF b

-----------------------------------------------------------------------------
(* Planned edits *)

\* An edit of what is between common lines at both ends, which do not overlap.
IsBetween(old, new, edit) ==
    \E top \in 0 .. Len(old), bottom \in Nat :
       /\ top + bottom <= Len(old) /\ top + bottom <= Len(new)
       /\ \A i \in 1 .. top : old[i] = new[i]
       /\ \A i \in 1 .. bottom : old[Len(old) + 1 - i] = new[Len(new) + 1 - i]
       /\ edit = [start |-> top, end |-> Len(old) - bottom,
                  lines |-> SubSeq(new, top + 1, Len(new) - bottom)]

(* infer_single_planned_edit finds such an edit for any two sequences of lines: the common lines
   at the end are counted without those at the top. *)
LEMMA EditFound ==
    ASSUME NEW L, NEW old \in Seq(L), NEW new \in Seq(L)
    PROVE  IsBetween(old, new, InferSingleEdit(old, new))
<1> DEFINE m == Len(old)
           n == Len(new)
           least == Min({m, n})
           tops == {k \in 0 .. least : \A i \in 1 .. k : old[i] = new[i]}
           top == CommonTop(old, new)
           bottoms == {k \in 0 .. least - top : \A i \in 1 .. k : old[m + 1 - i] = new[n + 1 - i]}
           bottom == CommonBottom(old, new, top)
<1>1. m \in Nat /\ n \in Nat
  OBVIOUS
<1>2. least \in Nat /\ least <= m /\ least <= n
  <2> HIDE DEF m, n
  <2> QED BY <1>1, LesserOfTwo
<1>3. top = Max(tops) /\ bottom = Max(bottoms)
  BY DEF CommonTop, CommonBottom
<1> HIDE DEF least, top
<1>4. 0 \in tops /\ tops \in SUBSET (0 .. least)
  BY <1>2
<1>5. top \in tops /\ top \in 0 .. least
  <2> HIDE DEF tops
  <2> QED BY <1>2, <1>3, <1>4, MaxOfCounts
<1>6. least - top \in Nat
  BY <1>2, <1>5
<1>7. 0 \in bottoms /\ bottoms \in SUBSET (0 .. least - top)
  BY <1>6
<1> HIDE DEF bottom
<1>8. bottom \in bottoms /\ bottom \in 0 .. least - top
  <2> HIDE DEF bottoms
  <2> QED BY <1>3, <1>6, <1>7, MaxOfCounts
<1>9. /\ top \in 0 .. m /\ bottom \in Nat /\ top + bottom <= m /\ top + bottom <= n
  <2> HIDE DEF tops, bottoms, m, n
  <2> QED BY <1>1, <1>2, <1>5, <1>6, <1>8
<1>10. \A i \in 1 .. top : old[i] = new[i]
  BY <1>5
<1>11. \A i \in 1 .. bottom : old[m + 1 - i] = new[n + 1 - i]
  BY <1>8
<1>12. InferSingleEdit(old, new) = [start |-> top, end |-> m - bottom, lines |-> SubSeq(new, top + 1, n - bottom)]
  BY DEF InferSingleEdit, top, bottom
<1> HIDE DEF tops, bottoms
<1> QED BY <1>9, <1>10, <1>11, <1>12 DEF IsBetween

\* What infer_single_planned_edit and the window of the diff guarantee.
IsEdit(old, new, from, start, end, to, fresh) ==
    LET bottom == Len(old) - end
    IN  /\ 0 <= from /\ from <= start /\ start <= end /\ end <= to /\ to <= Len(old)
        /\ start <= Len(new) - bottom
        /\ fresh = SubSeq(new, start + 1, Len(new) - bottom)
        /\ SubSeq(old, 1, start) = SubSeq(new, 1, start)
        /\ SubSeq(old, end + 1, Len(old)) = SubSeq(new, Len(new) - bottom + 1, Len(new))

\* Replacing the window by its lines, with the edit made, gives the new lines.
Patches(L, old, new, from, start, end, to, fresh) ==
    /\ fresh \in Seq(L) /\ Len(fresh) = Len(new) - (Len(old) - end) - start
    /\ SubSeq(old, 1, from) \o (SubSeq(old, from + 1, start) \o fresh \o SubSeq(old, end + 1, to))
          \o SubSeq(old, to + 1, Len(old)) = new

(* An edit within a window patches the old lines into the new ones. *)
LEMMA EditPatches ==
    ASSUME NEW L, NEW old \in Seq(L), NEW new \in Seq(L), NEW from \in Nat, NEW start \in Nat,
           NEW end \in Nat, NEW to \in Nat, NEW fresh, IsEdit(old, new, from, start, end, to, fresh)
    PROVE  Patches(L, old, new, from, start, end, to, fresh)
<1> DEFINE m == Len(old)
           n == Len(new)
           e == n - (m - end)
           a == SubSeq(old, 1, from)
           b == SubSeq(old, from + 1, start)
           d == SubSeq(old, end + 1, to)
           z == SubSeq(old, to + 1, m)
<1>1. m \in Nat /\ n \in Nat
  OBVIOUS
<1>2. /\ from <= start /\ start <= end /\ end <= to /\ to <= m /\ start <= e /\ e <= n /\ e \in Nat
      /\ fresh = SubSeq(new, start + 1, e)
      /\ SubSeq(old, 1, start) = SubSeq(new, 1, start)
      /\ SubSeq(old, end + 1, m) = SubSeq(new, e + 1, n)
  BY <1>1 DEF IsEdit
<1>3. a \in Seq(L) /\ b \in Seq(L) /\ d \in Seq(L) /\ z \in Seq(L) /\ fresh \in Seq(L)
  BY <1>1, <1>2
<1>4. a \o b = SubSeq(old, 1, start)
  <2>1. 1 \in 1 .. m + 1 /\ from \in 1 - 1 .. m /\ start \in from .. m
    BY <1>1, <1>2
  <2> QED BY <2>1, ConcatAdjacentSubSeq
<1>5. d \o z = SubSeq(old, end + 1, m)
  <2>1. end + 1 \in 1 .. m + 1 /\ to \in (end + 1) - 1 .. m /\ m \in to .. m
    BY <1>1, <1>2
  <2> QED BY <2>1, ConcatAdjacentSubSeq
<1>6. SubSeq(new, 1, start) \o fresh = SubSeq(new, 1, e)
  <2>1. 1 \in 1 .. n + 1 /\ start \in 1 - 1 .. n /\ e \in start .. n
    BY <1>1, <1>2
  <2> QED BY <1>2, <2>1, ConcatAdjacentSubSeq
<1>7. SubSeq(new, 1, e) \o SubSeq(new, e + 1, n) = new
  <2>1. e \in 0 .. n
    BY <1>1, <1>2
  <2> QED BY <2>1, SplitAt
<1>8. Len(fresh) = e - start
  <2> HIDE DEF m, n, e
  <2>1. n = Len(new)
    BY DEF n
  <2>2. start + 1 \in 1 .. n + 1 /\ e \in start .. n
    BY <1>1, <1>2
  <2>3. Len(SubSeq(new, start + 1, e)) = IF start + 1 <= e THEN e - (start + 1) + 1 ELSE 0
    BY <1>1, <1>2, <2>1, <2>2
  <2> QED BY <1>1, <1>2, <2>2, <2>3
<1> HIDE DEF a, b, d, z, m, n, e
<1>9. a \o (b \o fresh \o d) \o z = (a \o b) \o fresh \o (d \o z)
  <2>1. a \in Seq(L)
    BY <1>3
  <2>2. b \in Seq(L)
    BY <1>3
  <2>3. d \in Seq(L)
    BY <1>3
  <2>4. z \in Seq(L)
    BY <1>3
  <2>5. fresh \in Seq(L)
    BY <1>3
  <2>6. RegroupsFive(a, b, fresh, d, z)
    BY <2>1, <2>2, <2>3, <2>4, <2>5, Regrouped
  <2> QED BY <2>6 DEF RegroupsFive
<1> QED BY <1>2, <1>3, <1>4, <1>5, <1>6, <1>7, <1>8, <1>9 DEF a, b, d, z, m, n, e, Patches

\* The lines of a diff: context, what is deleted, what is added, context.
Body(old, from, start, end, to, fresh) ==
    Behind("keep", SubSeq(old, from + 1, start)) \o Behind("del", SubSeq(old, start + 1, end))
      \o Behind("add", fresh) \o Behind("keep", SubSeq(old, end + 1, to))

(* The lines of a diff are well cut, unless lines are added behind one without a line end. *)
LEMMA BodyWellCut ==
    ASSUME NEW S, {"keep", "del", "add"} \subseteq S,
           NEW old \in Seq(Seq(S)), NEW new \in Seq(Seq(S)), WellCut(old), WellCut(new),
           NEW from \in Nat, NEW start \in Nat, NEW end \in Nat, NEW to \in Nat, NEW fresh,
           IsEdit(old, new, from, start, end, to, fresh),
           end < Len(old) \/ fresh = <<>> \/ AllEnded(old)
    PROVE  /\ Body(old, from, start, end, to, fresh) \in Seq(Seq(S))
           /\ WellCut(Body(old, from, start, end, to, fresh))
<1> DEFINE m == Len(old)
           n == Len(new)
           e == n - (m - end)
           b == SubSeq(old, from + 1, start)
           c == SubSeq(old, start + 1, end)
           d == SubSeq(old, end + 1, to)
           kb == Behind("keep", b)
           kc == Behind("del", c)
           kf == Behind("add", fresh)
           kd == Behind("keep", d)
<1>0. "keep" \in S \ LineEnds /\ "del" \in S \ LineEnds /\ "add" \in S \ LineEnds
  BY DEF LineEnds
<1>1. m \in Nat /\ n \in Nat
  OBVIOUS
<1>2. /\ from <= start /\ start <= end /\ end <= to /\ to <= m /\ start <= e /\ e <= n /\ e \in Nat
      /\ fresh = SubSeq(new, start + 1, e)
  BY <1>1 DEF IsEdit
<1>3. b \in Seq(Seq(S)) /\ c \in Seq(Seq(S)) /\ d \in Seq(Seq(S)) /\ fresh \in Seq(Seq(S))
  <2>1. b \in Seq(Seq(S)) /\ c \in Seq(Seq(S)) /\ d \in Seq(Seq(S))
    <3> HIDE DEF m, n, e
    <3>1. from <= start /\ start <= end /\ end <= to /\ start <= m /\ end <= m /\ to <= m
      BY <1>1, <1>2
    <3> QED BY <3>1, Stretch DEF m
  <2> DEFINE f == SubSeq(new, start + 1, e)
  <2> HIDE DEF e
  <2>2. f \in Seq(Seq(S))
    BY <1>1, <1>2
  <2>3. fresh = f
    BY <1>2
  <2> HIDE DEF f, b, c, d
  <2> QED BY <2>1, <2>2, <2>3
<1>4. /\ WellCut(b) /\ WellCut(c) /\ WellCut(d)
      /\ start < m \/ AllEnded(old) => AllEnded(b)
      /\ end < m \/ AllEnded(old) => AllEnded(c)
  <2>1. /\ from + 1 \in 1 .. m + 1 /\ start \in (from + 1) - 1 .. m
        /\ start + 1 \in 1 .. m + 1 /\ end \in (start + 1) - 1 .. m
        /\ end + 1 \in 1 .. m + 1 /\ to \in (end + 1) - 1 .. m
    BY <1>1, <1>2
  <2>2. WellCut(b) /\ (start < m \/ AllEnded(old) => AllEnded(b))
    BY <2>1, CutPart
  <2>3. WellCut(c) /\ (end < m \/ AllEnded(old) => AllEnded(c))
    BY <2>1, CutPart
  <2>4. WellCut(d)
    BY <2>1, CutPart
  <2> QED BY <2>2, <2>3, <2>4
<1>5. WellCut(fresh) /\ (e < n => AllEnded(fresh))
  <2>1. start + 1 \in 1 .. n + 1 /\ e \in (start + 1) - 1 .. n
    BY <1>1, <1>2
  <2> DEFINE f == SubSeq(new, start + 1, e)
  <2>2. WellCut(f) /\ (e < n => AllEnded(f))
    <3> HIDE DEF e
    <3> QED BY <2>1, CutPart
  <2>3. fresh = f
    BY <1>2
  <2> HIDE DEF f, e, n
  <2> QED BY <2>2, <2>3
<1>6. /\ c # <<>> => start < m
      /\ d # <<>> => end < m /\ e < n
      /\ fresh # <<>> => end < m \/ AllEnded(old)
  <2>1. c # <<>> => start < end
    BY <1>1, <1>2
  <2>2. d # <<>> => end < to
    BY <1>1, <1>2
  <2> HIDE DEF b, c, d
  <2> QED BY <1>1, <1>2, <2>1, <2>2
<1>7. end < m => start < m
  BY <1>1, <1>2
<1> HIDE DEF b, c, d, m, n, e
<1>8. /\ kb \in Seq(Seq(S)) /\ kc \in Seq(Seq(S)) /\ kf \in Seq(Seq(S)) /\ kd \in Seq(Seq(S))
  BY <1>0, <1>3, BehindTag
<1>9. /\ c = <<>> => kc = <<>>
      /\ fresh = <<>> => kf = <<>>
      /\ d = <<>> => kd = <<>>
  BY DEF Behind
<1>10. /\ WellCut(kb) /\ (AllEnded(b) => AllEnded(kb))
       /\ WellCut(kc) /\ (AllEnded(c) => AllEnded(kc))
       /\ WellCut(kf) /\ (AllEnded(fresh) => AllEnded(kf))
       /\ WellCut(kd)
  <2>1. \A tag \in S \ LineEnds, ls \in Seq(Seq(S)) :
           WellCut(ls) => WellCut(Behind(tag, ls)) /\ (AllEnded(ls) => AllEnded(Behind(tag, ls)))
    BY CutBehind
  <2> QED BY <1>0, <1>3, <1>4, <1>5, <2>1
<1> HIDE DEF kb, kc, kf, kd
<1>11. ASSUME NEW x \in Seq(Seq(S)), NEW y \in Seq(Seq(S)), WellCut(x), WellCut(y), y # <<>> => AllEnded(x)
       PROVE  x \o y \in Seq(Seq(S)) /\ WellCut(x \o y) /\ (AllEnded(x) /\ AllEnded(y) => AllEnded(x \o y))
  BY <1>11, CutJoined
<1> DEFINE x == kb \o kc
           y == x \o kf
           z == y \o kd
<1>12. x \in Seq(Seq(S)) /\ WellCut(x) /\ (end < m \/ AllEnded(old) => AllEnded(x))
  <2>1. kc # <<>> => AllEnded(kb)
    BY <1>4, <1>6, <1>9, <1>10
  <2>2. x \in Seq(Seq(S)) /\ WellCut(x) /\ (AllEnded(kb) /\ AllEnded(kc) => AllEnded(x))
    BY <1>8, <1>10, <1>11, <2>1
  <2> HIDE DEF x
  <2> QED BY <2>2, <1>4, <1>7, <1>10
<1> HIDE DEF x
<1>13. y \in Seq(Seq(S)) /\ WellCut(y) /\ (end < m /\ e < n => AllEnded(y))
  <2>1. kf # <<>> => AllEnded(x)
    BY <1>6, <1>9, <1>12
  <2>2. y \in Seq(Seq(S)) /\ WellCut(y) /\ (AllEnded(x) /\ AllEnded(kf) => AllEnded(y))
    BY <1>8, <1>10, <1>11, <1>12, <2>1
  <2> HIDE DEF y
  <2> QED BY <2>2, <1>5, <1>10, <1>12
<1> HIDE DEF y
<1>14. z \in Seq(Seq(S)) /\ WellCut(z)
  <2>1. kd # <<>> => AllEnded(y)
    BY <1>6, <1>9, <1>13
  <2> QED BY <1>8, <1>10, <1>11, <1>13, <2>1
<1>15. Body(old, from, start, end, to, fresh) = z
  BY DEF Body, b, c, d, kb, kc, kf, kd, x, y
<1> QED BY <1>14, <1>15

\* The lines of a diff with some of the tags.
Tagged(S, tags) == {l \in Seq(S) : l # <<>> /\ l[1] \in tags}

(* What WithTag takes is what is within those. *)
LEMMA WithTagPicks ==
    ASSUME NEW S, NEW body \in Seq(Seq(S)), \A i \in 1 .. Len(body) : body[i] # <<>>, NEW tags
    PROVE  WithTag(body, tags) = Within(body, Tagged(S, tags))
<1>1. DOMAIN body = 1 .. Len(body) /\ \A i \in DOMAIN body : body[i] \in Seq(S)
  OBVIOUS
<1>2. \A i \in DOMAIN body : body[i][1] \in tags <=> body[i] \in Tagged(S, tags)
  BY <1>1 DEF Tagged
<1>3. [i \in DOMAIN body |-> IF body[i][1] \in tags THEN <<body[i]>> ELSE <<>>]
        = [i \in DOMAIN body |-> IF body[i] \in Tagged(S, tags) THEN <<body[i]>> ELSE <<>>]
  BY <1>2
<1> QED BY <1>3 DEF WithTag, Within

(* Lines behind one tag are taken all or not at all. *)
LEMMA BehindWithin ==
    ASSUME NEW S, NEW tag \in S, NEW ls \in Seq(Seq(S)), NEW tags
    PROVE  Within(Behind(tag, ls), Tagged(S, tags)) = IF tag \in tags THEN Behind(tag, ls) ELSE <<>>
<1> DEFINE b == Behind(tag, ls)
<1>1. /\ b \in Seq(Seq(S)) /\ Len(b) = Len(ls)
      /\ \A i \in 1 .. Len(b) : b[i] \in Seq(S) /\ b[i] # <<>> /\ b[i][1] = tag
  BY BehindTag
<1> HIDE DEF b
<1>2. CASE tag \in tags
  <2>1. \A i \in 1 .. Len(b) : b[i] \in Tagged(S, tags)
    BY <1>1, <1>2 DEF Tagged
  <2>2. Within(b, Tagged(S, tags)) = b
    BY <1>1, <2>1, WithinAll
  <2> QED BY <1>2, <2>2 DEF b
<1>3. CASE tag \notin tags
  <2>1. \A i \in 1 .. Len(b) : b[i] \notin Tagged(S, tags)
    BY <1>1, <1>3 DEF Tagged
  <2>2. Within(b, Tagged(S, tags)) = <<>>
    BY <1>1, <2>1, WithinNone
  <2> QED BY <1>3, <2>2 DEF b
<1> QED BY <1>2, <1>3

\* Lines of a diff without their tags.
Tails(ls) == [i \in DOMAIN ls |-> Tail(ls[i])]

(* Without its tag a line is what it was. *)
LEMMA TailsBehind ==
    ASSUME NEW S, NEW tag \in S, NEW ls \in Seq(Seq(S))
    PROVE  Tails(Behind(tag, ls)) = ls
<1> DEFINE b == Behind(tag, ls)
<1>1. /\ b \in Seq(Seq(S)) /\ Len(b) = Len(ls)
      /\ \A i \in 1 .. Len(ls) : Tail(b[i]) = ls[i]
  BY BehindTag
<1>2. DOMAIN b = 1 .. Len(ls) /\ ls = [i \in 1 .. Len(ls) |-> ls[i]]
  <2> HIDE DEF b
  <2> QED BY <1>1
<1> HIDE DEF b
<1> QED BY <1>1, <1>2 DEF Tails, b

(* Tags are taken from two sequences of lines as from each. *)
LEMMA TailsJoined ==
    ASSUME NEW L, NEW a \in Seq(L), NEW b \in Seq(L)
    PROVE  Tails(a \o b) = Tails(a) \o Tails(b)
<1> DEFINE c == a \o b
           m == Len(a)
           n == Len(b)
           x == Tails(a)
           y == Tails(b)
           z == Tails(c)
           T == {Tail(l) : l \in L}
<1>1. /\ m \in Nat /\ n \in Nat /\ DOMAIN a = 1 .. m /\ DOMAIN b = 1 .. n /\ DOMAIN c = 1 .. m + n
      /\ \A i \in 1 .. m + n : c[i] = IF i <= m THEN a[i] ELSE b[i - m]
      /\ \A i \in 1 .. m : a[i] \in L
      /\ \A i \in 1 .. n : b[i] \in L
      /\ \A i \in 1 .. m + n : c[i] \in L
  OBVIOUS
<1> HIDE DEF c, m, n
<1>2. x \in Seq(T) /\ Len(x) = m /\ \A i \in 1 .. m : x[i] = Tail(a[i])
  <2>1. x \in [1 .. m -> T] /\ \A i \in 1 .. m : x[i] = Tail(a[i])
    BY <1>1 DEF Tails
  <2> HIDE DEF x, T
  <2> QED BY <1>1, <2>1
<1>3. y \in Seq(T) /\ Len(y) = n /\ \A i \in 1 .. n : y[i] = Tail(b[i])
  <2>1. y \in [1 .. n -> T] /\ \A i \in 1 .. n : y[i] = Tail(b[i])
    BY <1>1 DEF Tails
  <2> HIDE DEF y, T
  <2> QED BY <1>1, <2>1
<1>4. z \in Seq(T) /\ Len(z) = m + n /\ \A i \in 1 .. m + n : z[i] = Tail(c[i])
  <2>1. z \in [1 .. m + n -> T] /\ \A i \in 1 .. m + n : z[i] = Tail(c[i])
    BY <1>1 DEF Tails
  <2> HIDE DEF z, T
  <2> QED BY <1>1, <2>1
<1> HIDE DEF x, y, z, T
<1>5. /\ x \o y \in Seq(T) /\ Len(x \o y) = m + n
      /\ \A i \in 1 .. m + n : (x \o y)[i] = IF i <= m THEN x[i] ELSE y[i - m]
  BY <1>2, <1>3, ConcatProperties
<1>6. ASSUME NEW i \in 1 .. m + n
      PROVE  z[i] = (x \o y)[i]
  <2>1. CASE i <= m
    <3>1. i \in 1 .. m
      BY <1>1, <2>1
    <3> QED BY <3>1, <2>1, <1>1, <1>2, <1>4, <1>5
  <2>2. CASE ~(i <= m)
    <3>1. i - m \in 1 .. n
      BY <1>1, <2>2
    <3> QED BY <3>1, <2>2, <1>1, <1>3, <1>4, <1>5
  <2> QED BY <2>1, <2>2
<1>7. z = x \o y
  BY <1>4, <1>5, <1>6, SeqEqual
<1> QED BY <1>7 DEF c, x, y, z

\* What a reader of the diff keeps or drops, and what it keeps or adds.
IsTaken(old, from, start, end, to, fresh, body) ==
    /\ Len(WithTag(body, {"keep", "del"})) = to - from
    /\ Tails(WithTag(body, {"keep", "del"})) = SubSeq(old, from + 1, to)
    /\ Len(WithTag(body, {"keep", "add"})) = start - from + Len(fresh) + to - end
    /\ Tails(WithTag(body, {"keep", "add"}))
          = SubSeq(old, from + 1, start) \o fresh \o SubSeq(old, end + 1, to)

(* A diff is read as it was meant: the lines it keeps or drops are those of the window, and the
   ones it keeps or adds are those that take their place. *)
LEMMA DiffTaken ==
    ASSUME NEW S, {"keep", "del", "add"} \subseteq S,
           NEW old \in Seq(Seq(S)), NEW new \in Seq(Seq(S)),
           NEW from \in Nat, NEW start \in Nat, NEW end \in Nat, NEW to \in Nat, NEW fresh,
           IsEdit(old, new, from, start, end, to, fresh),
           NEW body, body = Body(old, from, start, end, to, fresh)
    PROVE  IsTaken(old, from, start, end, to, fresh, body)
<1> DEFINE m == Len(old)
           n == Len(new)
           e == n - (m - end)
           b == SubSeq(old, from + 1, start)
           c == SubSeq(old, start + 1, end)
           d == SubSeq(old, end + 1, to)
           kb == Behind("keep", b)
           kc == Behind("del", c)
           kf == Behind("add", fresh)
           kd == Behind("keep", d)
           LL == Seq(S)
           kept == Tagged(S, {"keep", "del"})
           made == Tagged(S, {"keep", "add"})
<1>0. "keep" \in S /\ "del" \in S /\ "add" \in S
  OBVIOUS
<1>1. m \in Nat /\ n \in Nat
  OBVIOUS
<1>2. /\ from <= start /\ start <= end /\ end <= to /\ to <= m /\ start <= e /\ e <= n /\ e \in Nat
      /\ fresh = SubSeq(new, start + 1, e)
  BY <1>1 DEF IsEdit
<1>3. /\ b \in Seq(LL) /\ c \in Seq(LL) /\ d \in Seq(LL)
      /\ Len(b) = start - from /\ Len(c) = end - start /\ Len(d) = to - end
  <2> HIDE DEF m, n, e
  <2>1. from <= start /\ start <= end /\ end <= to /\ start <= m /\ end <= m /\ to <= m
    BY <1>1, <1>2
  <2> HIDE DEF LL
  <2>2. old \in Seq(LL)
    BY DEF LL
  <2> QED BY <2>1, <2>2, Stretch DEF m
<1>4. fresh \in Seq(LL) /\ Len(fresh) \in Nat
  <2> HIDE DEF m, n, e, b, c, d
  <2>1. fresh \in Seq(LL)
    BY EditPatches DEF Patches
  <2> HIDE DEF LL
  <2> QED BY <2>1
<1>5. (b \o c) \o d = SubSeq(old, from + 1, to)
  <2>1. from + 1 \in 1 .. m + 1 /\ start \in (from + 1) - 1 .. m /\ end \in start .. m /\ end \in (from + 1) - 1 .. m /\ to \in end .. m
    BY <1>1, <1>2
  <2>2. b \o c = SubSeq(old, from + 1, end)
    BY <2>1, ConcatAdjacentSubSeq
  <2>3. SubSeq(old, from + 1, end) \o d = SubSeq(old, from + 1, to)
    BY <2>1, ConcatAdjacentSubSeq
  <2> QED BY <2>2, <2>3
<1> HIDE DEF b, c, d, m, n, e
<1>6. ASSUME NEW tag \in {"keep", "del", "add"}, NEW ls \in Seq(LL)
      PROVE  /\ Behind(tag, ls) \in Seq(LL) /\ Len(Behind(tag, ls)) = Len(ls)
             /\ \A i \in 1 .. Len(ls) : Behind(tag, ls)[i] # <<>>
             /\ Tails(Behind(tag, ls)) = ls
             /\ \A tags : Within(Behind(tag, ls), Tagged(S, tags)) = IF tag \in tags THEN Behind(tag, ls) ELSE <<>>
  <2>0. tag \in S
    BY <1>0, <1>6
  <2>1. Behind(tag, ls) \in Seq(LL) /\ Len(Behind(tag, ls)) = Len(ls)
    BY <2>0, BehindTag
  <2>2. \A i \in 1 .. Len(ls) : Behind(tag, ls)[i] # <<>>
    BY <2>0, BehindTag
  <2>3. Tails(Behind(tag, ls)) = ls
    BY <2>0, TailsBehind
  <2>4. \A tags : Within(Behind(tag, ls), Tagged(S, tags)) = IF tag \in tags THEN Behind(tag, ls) ELSE <<>>
    BY <2>0, BehindWithin
  <2> QED BY <2>1, <2>2, <2>3, <2>4
<1>7. /\ kb \in Seq(LL) /\ kc \in Seq(LL) /\ kf \in Seq(LL) /\ kd \in Seq(LL)
      /\ Len(kb) = start - from /\ Len(kc) = end - start /\ Len(kf) = Len(fresh) /\ Len(kd) = to - end
      /\ Tails(kb) = b /\ Tails(kc) = c /\ Tails(kf) = fresh /\ Tails(kd) = d
  BY <1>3, <1>4, <1>6
<1>8. /\ Within(kb, kept) = kb /\ Within(kc, kept) = kc /\ Within(kf, kept) = <<>> /\ Within(kd, kept) = kd
      /\ Within(kb, made) = kb /\ Within(kc, made) = <<>> /\ Within(kf, made) = kf /\ Within(kd, made) = kd
  <2>1. \A ls \in Seq(LL) : \A tags :
           /\ Within(Behind("keep", ls), Tagged(S, tags)) = IF "keep" \in tags THEN Behind("keep", ls) ELSE <<>>
           /\ Within(Behind("del", ls), Tagged(S, tags)) = IF "del" \in tags THEN Behind("del", ls) ELSE <<>>
           /\ Within(Behind("add", ls), Tagged(S, tags)) = IF "add" \in tags THEN Behind("add", ls) ELSE <<>>
    BY <1>6
  <2>2. Within(kb, kept) = kb /\ Within(kd, kept) = kd /\ Within(kb, made) = kb /\ Within(kd, made) = kd
    BY <1>3, <2>1
  <2>3. Within(kc, kept) = kc /\ Within(kc, made) = <<>>
    BY <1>3, <2>1
  <2>4. Within(kf, kept) = <<>> /\ Within(kf, made) = kf
    BY <1>4, <2>1
  <2> QED BY <2>2, <2>3, <2>4
<1>9. /\ \A i \in 1 .. Len(kb) : kb[i] # <<>>
      /\ \A i \in 1 .. Len(kc) : kc[i] # <<>>
      /\ \A i \in 1 .. Len(kf) : kf[i] # <<>>
      /\ \A i \in 1 .. Len(kd) : kd[i] # <<>>
  BY <1>3, <1>4, <1>6
<1> HIDE DEF kb, kc, kf, kd, LL, kept, made
<1>10. \A x, y \in Seq(LL) : x \o y \in Seq(LL) /\ Len(x \o y) = Len(x) + Len(y)
  OBVIOUS
<1>11. ASSUME NEW x \in Seq(LL), NEW y \in Seq(LL), \A i \in 1 .. Len(x) : x[i] # <<>>, \A i \in 1 .. Len(y) : y[i] # <<>>
       PROVE  \A i \in 1 .. Len(x \o y) : (x \o y)[i] # <<>>
  <2> TAKE i \in 1 .. Len(x \o y)
  <2>1. CASE i <= Len(x)
    <3>1. (x \o y)[i] = x[i] /\ i \in 1 .. Len(x)
      BY <2>1
    <3> QED BY <3>1, <1>11
  <2>2. CASE ~(i <= Len(x))
    <3>1. (x \o y)[i] = y[i - Len(x)] /\ i - Len(x) \in 1 .. Len(y)
      BY <2>2
    <3> QED BY <3>1, <1>11
  <2> QED BY <2>1, <2>2
<1> DEFINE x == kb \o kc
           y == x \o kf
           z == y \o kd
<1>12. x \in Seq(LL) /\ y \in Seq(LL) /\ z \in Seq(LL)
  <2>1. x \in Seq(LL)
    BY <1>7, <1>10
  <2> HIDE DEF x
  <2>2. y \in Seq(LL)
    BY <2>1, <1>7, <1>10
  <2> HIDE DEF y
  <2>3. z \in Seq(LL)
    BY <2>2, <1>7, <1>10
  <2> QED BY <2>1, <2>2, <2>3
<1>13. \A i \in 1 .. Len(z) : z[i] # <<>>
  <2>1. \A i \in 1 .. Len(x) : x[i] # <<>>
    BY <1>7, <1>9, <1>11
  <2> HIDE DEF x
  <2>2. \A i \in 1 .. Len(y) : y[i] # <<>>
    BY <2>1, <1>7, <1>9, <1>11, <1>12
  <2> HIDE DEF y
  <2> QED BY <2>2, <1>7, <1>9, <1>11, <1>12
<1>14. body = z
  BY DEF Body, b, c, d, kb, kc, kf, kd
<1>15. ASSUME NEW K
       PROVE  Within(z, K) = ((Within(kb, K) \o Within(kc, K)) \o Within(kf, K)) \o Within(kd, K)
  <2>0. \A u, v \in Seq(LL) : Within(u \o v, K) = Within(u, K) \o Within(v, K)
    BY WithinJoined
  <2>1. Within(x, K) = Within(kb, K) \o Within(kc, K)
    BY <1>7, <2>0, Zenon
  <2> HIDE DEF x
  <2>2. Within(y, K) = Within(x, K) \o Within(kf, K)
    BY <1>7, <1>12, <2>0, Zenon
  <2> HIDE DEF y
  <2>3. Within(z, K) = Within(y, K) \o Within(kd, K)
    BY <1>7, <1>12, <2>0, Zenon
  <2> QED BY <2>1, <2>2, <2>3
<1>16. WithTag(body, {"keep", "del"}) = Within(z, kept) /\ WithTag(body, {"keep", "add"}) = Within(z, made)
  <2> HIDE DEF z
  <2> QED BY <1>12, <1>13, <1>14, WithTagPicks DEF LL, kept, made
<1> HIDE DEF x, y, z
<1>17. \A u \in Seq(LL) : u \o <<>> = u
  BY ConcatEmptySeq
<1>18. Within(z, kept) = (kb \o kc) \o kd
  <2>1. Within(z, kept) = ((kb \o kc) \o <<>>) \o kd
    BY <1>8, <1>15
  <2>2. (kb \o kc) \o <<>> = kb \o kc
    BY <1>7, <1>10, <1>17
  <2> QED BY <2>1, <2>2
<1>19. Within(z, made) = (kb \o kf) \o kd
  <2>1. Within(z, made) = ((kb \o <<>>) \o kf) \o kd
    BY <1>8, <1>15
  <2>2. kb \o <<>> = kb
    BY <1>7, <1>17
  <2> QED BY <2>1, <2>2
<1>20. ASSUME NEW u \in Seq(LL), NEW v \in Seq(LL), NEW w \in Seq(LL)
       PROVE  /\ Len((u \o v) \o w) = Len(u) + Len(v) + Len(w)
              /\ Tails((u \o v) \o w) = (Tails(u) \o Tails(v)) \o Tails(w)
  <2>1. u \o v \in Seq(LL)
    BY <1>10
  <2>2. Tails((u \o v) \o w) = Tails(u \o v) \o Tails(w)
    BY <2>1, TailsJoined
  <2>3. Tails(u \o v) = Tails(u) \o Tails(v)
    BY TailsJoined
  <2>4. Len((u \o v) \o w) = Len(u) + Len(v) + Len(w)
    BY <2>1, <1>10
  <2> QED BY <2>2, <2>3, <2>4
<1>21. /\ Len((kb \o kc) \o kd) = to - from
       /\ Tails((kb \o kc) \o kd) = SubSeq(old, from + 1, to)
  <2>1. Len((kb \o kc) \o kd) = Len(kb) + Len(kc) + Len(kd) /\ Tails((kb \o kc) \o kd) = (b \o c) \o d
    BY <1>7, <1>20
  <2> QED BY <2>1, <1>5, <1>7
<1>22. /\ Len((kb \o kf) \o kd) = start - from + Len(fresh) + to - end
       /\ Tails((kb \o kf) \o kd) = (b \o fresh) \o d
  <2>1. Len((kb \o kf) \o kd) = Len(kb) + Len(kf) + Len(kd) /\ Tails((kb \o kf) \o kd) = (b \o fresh) \o d
    BY <1>7, <1>20
  <2> QED BY <2>1, <1>4, <1>7
<1> QED BY <1>16, <1>18, <1>19, <1>21, <1>22 DEF b, d, IsTaken

(* An edit between common lines, with any window around it, is one the diff can show. *)
LEMMA WindowIsEdit ==
    ASSUME NEW L, NEW old \in Seq(L), NEW new \in Seq(L),
           NEW top \in 0 .. Len(old), NEW bottom \in Nat, NEW from \in Nat, NEW to \in Nat,
           top + bottom <= Len(old), top + bottom <= Len(new),
           \A i \in 1 .. top : old[i] = new[i],
           \A i \in 1 .. bottom : old[Len(old) + 1 - i] = new[Len(new) + 1 - i],
           from <= top, Len(old) - bottom <= to, to <= Len(old)
    PROVE  IsEdit(old, new, from, top, Len(old) - bottom, to, SubSeq(new, top + 1, Len(new) - bottom))
<1> DEFINE m == Len(old)
           n == Len(new)
<1>1. m \in Nat /\ n \in Nat /\ old \in [1 .. m -> L] /\ new \in [1 .. n -> L]
  OBVIOUS
<1>2. m - (m - bottom) = bottom /\ n - bottom \in Nat /\ m - bottom \in Nat
  BY <1>1
<1>3. SubSeq(old, 1, top) = SubSeq(new, 1, top)
  <2> DEFINE x == SubSeq(old, 0 + 1, top)
             y == SubSeq(new, 0 + 1, top)
  <2>1. /\ x \in Seq(L) /\ Len(x) = top /\ y \in Seq(L) /\ Len(y) = top
        /\ \A i \in 1 .. top : x[i] = old[i] /\ y[i] = new[i]
    OBVIOUS
  <2> HIDE DEF x, y
  <2>2. x = y
    BY <2>1, SeqEqual
  <2> QED BY <2>2 DEF x, y
<1>4. SubSeq(old, (m - bottom) + 1, m) = SubSeq(new, (n - bottom) + 1, n)
  <2> DEFINE x == SubSeq(old, (m - bottom) + 1, m)
             y == SubSeq(new, (n - bottom) + 1, n)
  <2>1. x \in Seq(L) /\ Len(x) = bottom /\ y \in Seq(L) /\ Len(y) = bottom
    <3>1. m - bottom \in Nat /\ n - bottom \in Nat /\ m - bottom <= m /\ n - bottom <= n
          /\ m <= Len(old) /\ n <= Len(new) /\ m - (m - bottom) = bottom /\ n - (n - bottom) = bottom
      BY <1>1
    <3> HIDE DEF m, n
    <3>2. x \in Seq(L) /\ Len(x) = m - (m - bottom)
      BY <1>1, <3>1, Stretch
    <3>3. y \in Seq(L) /\ Len(y) = n - (n - bottom)
      BY <1>1, <3>1, Stretch
    <3> HIDE DEF x, y
    <3> QED BY <3>1, <3>2, <3>3
  <2>2. ASSUME NEW i \in 1 .. bottom
        PROVE  x[i] = y[i]
    <3>1. x[i] = old[m - bottom + i] /\ y[i] = new[n - bottom + i]
      BY <1>1
    <3> DEFINE j == bottom + 1 - i
    <3>2. j \in 1 .. bottom /\ m + 1 - j = m - bottom + i /\ n + 1 - j = n - bottom + i
      BY <1>1
    <3>3. old[m + 1 - j] = new[n + 1 - j]
      BY <3>2
    <3> HIDE DEF x, y, j
    <3> QED BY <3>1, <3>2, <3>3
  <2> HIDE DEF x, y
  <2>3. x = y
    BY <2>1, <2>2, SeqEqual
  <2> QED BY <2>3 DEF x, y
<1> HIDE DEF m, n
<1>5. 0 <= from /\ top <= m - bottom /\ top <= n - bottom
  BY <1>1 DEF m, n
<1> QED BY <1>2, <1>3, <1>4, <1>5 DEF IsEdit, m, n

(* The diff of two texts makes the one out of the other, unless lines are added behind a last
   line without a line end. *)
LEMMA DiffMakes ==
    ASSUME NEW S, {"keep", "del", "add"} \subseteq S, NEW s \in Seq(S), NEW t \in Seq(S)
    PROVE  LET old == LinesOf(s)
               new == LinesOf(t)
               edit == InferSingleEdit(old, new)
               diff == UnifiedDiff(old, edit, 3)
               body == LinesOf(FlattenSeq(diff.body))
           IN  \/ ~EndsWithNewline(s) /\ s # <<>> /\ edit.end = Len(old) /\ edit.lines # <<>>
               \/ /\ DiffFits(old, diff, body)
                  /\ Patched(old, diff, body) = new
<1> DEFINE old == LinesOf(s)
           new == LinesOf(t)
           edit == InferSingleEdit(old, new)
           diff == UnifiedDiff(old, edit, 3)
           body == LinesOf(FlattenSeq(diff.body))
           m == Len(old)
           n == Len(new)
<1>1. old \in Seq(Seq(S)) /\ new \in Seq(Seq(S)) /\ WellCut(old) /\ WellCut(new)
  BY LinesByCuts, LinesWellCut
<1> SUFFICES ASSUME ~(~EndsWithNewline(s) /\ s # <<>> /\ edit.end = Len(old) /\ edit.lines # <<>>)
             PROVE  DiffFits(old, diff, body) /\ Patched(old, diff, body) = new
  OBVIOUS
<1>2. edit.end # m \/ edit.lines = <<>> \/ AllEnded(old)
  BY EndedLines
<1> HIDE DEF old, new
<1>3. PICK top \in 0 .. m, bottom \in Nat :
              /\ top + bottom <= m /\ top + bottom <= n
              /\ \A i \in 1 .. top : old[i] = new[i]
              /\ \A i \in 1 .. bottom : old[m + 1 - i] = new[n + 1 - i]
              /\ edit = [start |-> top, end |-> m - bottom, lines |-> SubSeq(new, top + 1, n - bottom)]
  <2> DEFINE LL == Seq(S)
  <2> HIDE DEF LL
  <2>1. old \in Seq(LL) /\ new \in Seq(LL)
    BY <1>1 DEF LL
  <2>2. IsBetween(old, new, InferSingleEdit(old, new))
    BY <2>1, EditFound
  <2> QED BY <2>2 DEF IsBetween
<1> DEFINE end == m - bottom
           fresh == SubSeq(new, top + 1, n - bottom)
           from == Max({0, top - 3})
           to == Min({m, end + 3})
           size == to - from
<1>4. m \in Nat /\ n \in Nat /\ end \in Nat /\ end <= m /\ top <= end
  <2>1. m \in Nat /\ n \in Nat
    BY <1>1
  <2> HIDE DEF m, n
  <2> QED BY <2>1, <1>3
<1>5. edit.start = top /\ edit.end = end /\ edit.lines = fresh
  BY <1>3
<1> HIDE DEF edit, m, n, end, fresh
<1>6. from \in Nat /\ from <= top
  <2>1. CASE top - 3 >= 0
    <3>1. {0, top - 3} \in SUBSET (0 .. top) /\ {0, top - 3} # {} /\ top \in Nat
      BY <2>1, <1>4
    <3>2. Max({0, top - 3}) \in 0 .. top
      BY <3>1, MaxOfCounts
    <3> QED BY <3>2, <1>4
  <2>2. CASE top - 3 < 0
    <3>1. \A y \in {0, top - 3} : 0 >= y
      BY <2>2
    <3>2. Max({0, top - 3}) \in {0, top - 3} /\ \A y \in {0, top - 3} : Max({0, top - 3}) >= y
      BY <3>1 DEF Max
    <3>3. Max({0, top - 3}) >= 0
      BY <3>2
    <3>4. Max({0, top - 3}) = 0
      BY <3>2, <3>3, <2>2
    <3> QED BY <3>4
  <2> QED BY <2>1, <2>2
<1>7. to \in Nat /\ to <= m /\ end <= to
  <2>1. end + 3 \in Nat
    BY <1>4
  <2>2. to \in {m, end + 3} /\ to <= m /\ to <= end + 3
    BY <1>4, <2>1, LesserOfTwo
  <2> HIDE DEF to
  <2> QED BY <1>4, <2>1, <2>2
<1> HIDE DEF from, to
<1>8. IsEdit(old, new, from, top, end, to, fresh)
  <2>1. IsEdit(old, new, from, top, m - bottom, to, SubSeq(new, top + 1, n - bottom))
    BY <1>1, <1>3, <1>4, <1>6, <1>7, WindowIsEdit DEF m, n, end
  <2> QED BY <2>1 DEF end, fresh
<1>9. /\ diff.old = FormatRange(from, to - from)
      /\ diff.new = FormatRange(from, top - from + Len(fresh) + to - end)
      /\ diff.body = Body(old, from, top, end, to, fresh)
  BY <1>5 DEF UnifiedDiff, Body, Behind, from, to, m
<1>10. top \in Nat
  BY <1>4
<1>11. /\ diff.body \in Seq(Seq(S)) /\ WellCut(diff.body)
  <2>1. end < Len(old) \/ fresh = <<>> \/ AllEnded(old)
    BY <1>2, <1>4, <1>5 DEF m
  <2>2. /\ Body(old, from, top, end, to, fresh) \in Seq(Seq(S))
        /\ WellCut(Body(old, from, top, end, to, fresh))
    BY <1>1, <1>4, <1>6, <1>7, <1>8, <1>10, <2>1, BodyWellCut
  <2> QED BY <1>9, <2>2
<1> HIDE DEF diff
<1>12. body = diff.body
  BY <1>11, LinesOnly
<1> HIDE DEF body
<1>13. body = Body(old, from, top, end, to, fresh)
  BY <1>9, <1>12
<1> DEFINE dropped == WithTag(body, {"keep", "del"})
           added == WithTag(body, {"keep", "add"})
<1>14. /\ Len(dropped) = to - from /\ Tails(dropped) = SubSeq(old, from + 1, to)
       /\ Len(added) = top - from + Len(fresh) + to - end
       /\ Tails(added) = SubSeq(old, from + 1, top) \o fresh \o SubSeq(old, end + 1, to)
  <2>1. IsTaken(old, from, top, end, to, fresh, body)
    BY <1>1, <1>4, <1>6, <1>7, <1>8, <1>10, <1>13, DiffTaken
  <2> QED BY <2>1 DEF IsTaken
<1> HIDE DEF dropped, added
<1>15. size \in Nat /\ from + size = to
  BY <1>4, <1>6, <1>7, <1>10
<1>16. /\ diff.old[2] = size /\ diff.new[2] = top - from + Len(fresh) + to - end
       /\ (IF diff.old[2] = 0 THEN diff.old[1] + 1 ELSE diff.old[1]) = from + 1
  <2>1. diff.old[2] = size /\ diff.old[1] = (IF size = 0 THEN from ELSE from + 1)
    BY <1>9 DEF FormatRange
  <2>2. diff.new[2] = top - from + Len(fresh) + to - end
    BY <1>9 DEF FormatRange
  <2> HIDE DEF size
  <2> QED BY <2>1, <2>2
<1>17. \A i \in DOMAIN dropped : Tail(dropped[i]) = old[from + 1 + i - 1]
  <2> SUFFICES ASSUME NEW i \in DOMAIN dropped
               PROVE  Tail(dropped[i]) = old[from + 1 + i - 1]
    OBVIOUS
  <2>1. Tails(dropped)[i] = Tail(dropped[i]) /\ DOMAIN Tails(dropped) = DOMAIN dropped
    BY DEF Tails
  <2>2. i \in DOMAIN SubSeq(old, from + 1, to) /\ Tail(dropped[i]) = SubSeq(old, from + 1, to)[i]
    BY <2>1, <1>14
  <2>3. DOMAIN SubSeq(old, from + 1, to) = 1 .. size
    <3>1. SubSeq(old, from + 1, to) \in Seq(Seq(S)) /\ Len(SubSeq(old, from + 1, to)) = to - from
      BY <1>1, <1>4, <1>6, <1>7, <1>10, Stretch DEF m
    <3> QED BY <3>1
  <2>4. i \in 1 .. size /\ from + 1 + i - 1 = from + i
    BY <2>2, <2>3, <1>15, <1>6
  <2>5. SubSeq(old, from + 1, to)[i] = old[from + i]
    BY <1>1, <1>4, <1>6, <1>7, <1>15, <2>4 DEF m
  <2> QED BY <2>2, <2>4, <2>5
<1>18. DiffFits(old, diff, body)
  <2>1. from + 1 + size - 1 <= Len(old)
    BY <1>6, <1>7, <1>15 DEF m
  <2> HIDE DEF size
  <2>2. Len(dropped) = diff.old[2] /\ Len(added) = diff.new[2]
    BY <1>14, <1>16 DEF size
  <2> QED BY <1>16, <1>17, <2>1, <2>2 DEF DiffFits, dropped, added
<1>19. Patched(old, diff, body) = new
  <2> HIDE DEF size
  <2>1. Patched(old, diff, body) = SubSeq(old, 1, from + 1 - 1) \o Tails(added) \o SubSeq(old, from + 1 + size, Len(old))
    <3> DEFINE place == IF diff.old[2] = 0 THEN diff.old[1] + 1 ELSE diff.old[1]
    <3>1. Patched(old, diff, body) = SubSeq(old, 1, place - 1) \o Tails(added) \o SubSeq(old, place + diff.old[2], Len(old))
      BY DEF Patched, Tails, added
    <3> HIDE DEF place
    <3>2. place = from + 1 /\ diff.old[2] = size
      BY <1>16 DEF place
    <3>3. SubSeq(old, 1, place - 1) = SubSeq(old, 1, from + 1 - 1)
      <4>1. place = from + 1
        BY <3>2
      <4> QED BY <4>1, <1>6, SameStart
    <3>4. SubSeq(old, place + diff.old[2], Len(old)) = SubSeq(old, from + 1 + size, Len(old))
      BY <3>2
    <3> HIDE DEF size
    <3> QED BY <3>1, <3>3, <3>4
  <2>2. from + 1 - 1 = from /\ from + 1 + size = to + 1
    BY <1>6, <1>15
  <2>3. SubSeq(old, 1, from) \o (SubSeq(old, from + 1, top) \o fresh \o SubSeq(old, end + 1, to))
                 \o SubSeq(old, to + 1, Len(old)) = new
    <3> DEFINE LL == Seq(S)
    <3> HIDE DEF LL
    <3>1. old \in Seq(LL) /\ new \in Seq(LL)
      BY <1>1 DEF LL
    <3>2. Patches(LL, old, new, from, top, end, to, fresh)
      BY <3>1, <1>4, <1>6, <1>7, <1>8, <1>10, EditPatches
    <3> QED BY <3>2 DEF Patches
  <2> QED BY <2>1, <2>2, <2>3, <1>14
<1> QED BY <1>18, <1>19

-----------------------------------------------------------------------------
(* Words and markup *)

(* What is within s of K is made of members of both. *)
LEMMA WithinOnly ==
    ASSUME NEW S, NEW s \in Seq(S), NEW K
    PROVE  Within(s, K) \in Seq(S \cap K)
<1> DEFINE p == Parts(s, K)
<1>1. /\ p \in Seq(Seq(S)) /\ Len(p) = Len(s) /\ Within(s, K) = FlattenSeq(p)
      /\ \A i \in 1 .. Len(s) : p[i] = IF s[i] \in K THEN <<s[i]>> ELSE <<>>
  BY PartsTyped
<1>2. \A i \in 1 .. Len(s) : s[i] \in S
  OBVIOUS
<1> HIDE DEF p
<1> DEFINE M == S \cap K
<1>3. ASSUME NEW i \in 1 .. Len(s)
      PROVE  p[i] \in Seq(M)
  <2>1. CASE s[i] \in K
    <3>1. s[i] \in M
      BY <1>2, <2>1
    <3> HIDE DEF M
    <3>2. p[i] = <<s[i]>>
      BY <1>1, <2>1
    <3> QED BY <3>1, <3>2, OneTyped
  <2>2. CASE s[i] \notin K
    <3>1. p[i] = <<>>
      BY <1>1, <2>2
    <3> QED BY <3>1, NoneTyped
  <2> QED BY <2>1, <2>2
<1> HIDE DEF M
<1>4. p \in Seq(Seq(M))
  <2>1. Len(s) \in Nat
    OBVIOUS
  <2> QED BY <1>1, <1>3, <2>1, PartsOnly
<1>5. FlattenSeq(p) \in Seq(M)
  BY <1>4, FlattenTyped
<1> QED BY <1>1, <1>5 DEF M

(* A member of K in s is within it. *)
LEMMA WithinHolds ==
    ASSUME NEW S, NEW s \in Seq(S), NEW K, NEW i \in 1 .. Len(s), s[i] \in K
    PROVE  \E k \in 1 .. Len(Within(s, K)) : Within(s, K)[k] = s[i]
<1> DEFINE p == Parts(s, K)
<1>1. /\ p \in Seq(Seq(S)) /\ Len(p) = Len(s) /\ Within(s, K) = FlattenSeq(p)
      /\ p[i] = <<s[i]>>
  BY PartsTyped
<1> HIDE DEF p
<1>2. i \in 1 .. Len(p) /\ Len(p[i]) = 1 /\ p[i][1] = s[i]
  BY <1>1
<1>3. /\ UpTo(p, i - 1) \in Nat /\ UpTo(p, i) = UpTo(p, i - 1) + 1
      /\ UpTo(p, i) <= Len(FlattenSeq(p))
      /\ FlattenSeq(p)[UpTo(p, i - 1) + 1] = s[i]
  <2>1. /\ UpTo(p, i - 1) \in Nat
           /\ UpTo(p, i) = UpTo(p, i - 1) + Len(p[i])
           /\ UpTo(p, i) <= Len(FlattenSeq(p))
           /\ \A j \in 1 .. Len(p[i]) : FlattenSeq(p)[UpTo(p, i - 1) + j] = p[i][j]
    BY <1>1, <1>2, PartAt
  <2> QED BY <1>2, <2>1
<1>4. FlattenSeq(p) \in Seq(S)
  BY <1>1, FlattenTyped
<1> QED BY <1>1, <1>3, <1>4

(* What is without K is within everything else. *)
LEMMA WithoutIsWithin ==
    ASSUME NEW S, NEW s \in Seq(S), NEW K
    PROVE  Without(s, K) = Within(s, S \ K)
<1>1. \A i \in DOMAIN s : s[i] \in S
  OBVIOUS
<1>2. [i \in DOMAIN s |-> IF s[i] \in K THEN <<>> ELSE <<s[i]>>]
      = [i \in DOMAIN s |-> IF s[i] \in S \ K THEN <<s[i]>> ELSE <<>>]
  BY <1>1
<1> QED BY <1>2 DEF Within, Without

(* What is without K has no member of it. *)
LEMMA WithoutOnly ==
    ASSUME NEW S, NEW s \in Seq(S), NEW K
    PROVE  Without(s, K) \in Seq(S) /\ Without(s, K) \in Seq(S \ K)
<1>0. Without(s, K) = Within(s, S \ K)
  BY WithoutIsWithin
<1>1. Without(s, K) \in Seq(S \cap (S \ K))
  BY <1>0, WithinOnly
<1>2. S \cap (S \ K) = S \ K
  OBVIOUS
<1>3. Without(s, K) \in Seq(S)
  BY <1>0, WithinTyped
<1> QED BY <1>1, <1>2, <1>3

(* What two sequences one behind the other are without K. *)
LEMMA WithoutJoined ==
    ASSUME NEW S, NEW a \in Seq(S), NEW b \in Seq(S), NEW K
    PROVE  Without(a \o b, K) = Without(a, K) \o Without(b, K)
<1> DEFINE c == a \o b
<1>1. c \in Seq(S)
  OBVIOUS
<1> HIDE DEF c
<1>2. Without(c, K) = Within(c, S \ K) /\ Without(a, K) = Within(a, S \ K) /\ Without(b, K) = Within(b, S \ K)
  BY <1>1, WithoutIsWithin
<1>3. Within(a \o b, S \ K) = Within(a, S \ K) \o Within(b, S \ K)
  BY WithinJoined
<1> QED BY <1>2, <1>3 DEF c

(* A member of s that is not in K stays. *)
LEMMA WithoutHolds ==
    ASSUME NEW S, NEW s \in Seq(S), NEW K, NEW i \in 1 .. Len(s), s[i] \notin K
    PROVE  \E k \in 1 .. Len(Without(s, K)) : Without(s, K)[k] = s[i]
<1>1. s[i] \in S
  OBVIOUS
<1>2. s[i] \in S \ K
  BY <1>1
<1>3. \E k \in 1 .. Len(Within(s, S \ K)) : Within(s, S \ K)[k] = s[i]
  BY <1>2, WithinHolds
<1> QED BY <1>3, WithoutIsWithin

(* A sequence over K without K is nothing. *)
LEMMA WithoutAll ==
    ASSUME NEW S, NEW s \in Seq(S), NEW K, s \in Seq(K)
    PROVE  Without(s, K) = <<>>
<1>1. \A i \in 1 .. Len(s) : s[i] \notin S \ K
  OBVIOUS
<1>2. Within(s, S \ K) = <<>>
  BY <1>1, WithinNone
<1> QED BY <1>2, WithoutIsWithin

(* The words of two texts one behind the other. *)
LEMMA WordsJoined ==
    ASSUME NEW S, NEW a \in Seq(S), NEW b \in Seq(S)
    PROVE  UserWords(a \o b) = UserWords(a) \o UserWords(b)
  BY WithoutJoined DEF UserWords

(* What is in a text of nothing but markup is no word. *)
LEMMA NoWords ==
    ASSUME NEW s \in Seq(Markup)
    PROVE  UserWords(s) = <<>>
  BY WithoutAll DEF UserWords

(* Markup in the midst of a text has no part in its words. *)
LEMMA WordsKept ==
    ASSUME NEW S, Markup \subseteq S, NEW a \in Seq(S), NEW b \in Seq(Markup), NEW c \in Seq(S)
    PROVE  UserWords(a \o b \o c) = UserWords(a) \o UserWords(c)
<1>1. b \in Seq(S)
  OBVIOUS
<1> DEFINE ab == a \o b
<1>2. ab \in Seq(S)
  BY <1>1
<1>3. UserWords(ab) = UserWords(a) \o UserWords(b)
  BY <1>1, WordsJoined
<1>4. UserWords(b) = <<>>
  BY NoWords
<1>5. UserWords(a) \in Seq(S)
  BY WithoutOnly DEF UserWords
<1>6. UserWords(ab) = UserWords(a)
  <2> DEFINE x == UserWords(a)
  <2> HIDE DEF x, ab
  <2>1. UserWords(ab) = x \o <<>>
    BY <1>3, <1>4 DEF x
  <2>2. x \in Seq(S)
    BY <1>5 DEF x
  <2>3. x \o <<>> = x
    BY <2>2
  <2> QED BY <2>1, <2>3 DEF x
<1> HIDE DEF ab
<1>7. UserWords(ab \o c) = UserWords(ab) \o UserWords(c)
  BY <1>2, WordsJoined
<1> QED BY <1>6, <1>7 DEF ab

-----------------------------------------------------------------------------
(* Blanks and directives *)

(* str.strip(): a line is blank if it is all space, else it begins where space ends, and nothing
   but space is lost. *)
LEMMA StrippedFound ==
    ASSUME NEW S, NEW l \in Seq(S)
    PROVE  /\ Stripped(l) \in Seq(S)
           /\ IsBlank(l) <=> \A i \in 1 .. Len(l) : l[i] \in Space
           /\ ~IsBlank(l) => \E a \in 1 .. Len(l) :
                /\ \A i \in 1 .. a - 1 : l[i] \in Space
                /\ l[a] \notin Space
                /\ Stripped(l) # <<>> /\ Stripped(l)[1] = l[a]
           /\ \A i \in 1 .. Len(l) : l[i] \notin Space =>
                \E k \in 1 .. Len(Stripped(l)) : Stripped(l)[k] = l[i]
           /\ \A k \in 1 .. Len(Stripped(l)) : \E i \in 1 .. Len(l) : l[i] = Stripped(l)[k]
<1> DEFINE E == {i \in DOMAIN l : l[i] \notin Space}
           n == Len(l)
<1>1. n \in Nat /\ E \in SUBSET (1 .. n) /\ E \in SUBSET Nat /\ DOMAIN l = 1 .. n
  OBVIOUS
<1>2. CASE E = {}
  <2>1. Stripped(l) = <<>>
    BY <1>2 DEF Stripped
  <2>2. IsBlank(l) /\ \A i \in 1 .. n : l[i] \in Space
    BY <1>1, <1>2, <2>1 DEF IsBlank
  <2>3. Stripped(l) \in Seq(S)
    BY <2>1, NoneTyped
  <2>4. ~ \E k \in 1 .. Len(Stripped(l)) : TRUE
    BY <2>1
  <2> QED BY <2>2, <2>3, <2>4
<1>3. CASE E # {}
  <2> DEFINE a == Min(E)
             b == Max(E)
  <2>1. a \in E /\ \A y \in E : a <= y
    BY <1>1, <1>3, LeastOfNumbers
  <2>2. b \in E /\ \A y \in E : y <= b
    BY <1>1, <1>3, MaxOfNumbers
  <2>3. Stripped(l) = SubSeq(l, a, b)
    BY <1>3 DEF Stripped
  <2>4. a \in 1 .. n /\ b \in 1 .. n /\ a <= b /\ l[a] \notin Space /\ \A i \in 1 .. a - 1 : l[i] \in Space
    <3> HIDE DEF a, b
    <3>1. a \in 1 .. n /\ b \in 1 .. n /\ a <= b /\ l[a] \notin Space
      BY <1>1, <2>1, <2>2
    <3>2. ASSUME NEW i \in 1 .. a - 1
          PROVE  l[i] \in Space
      <4>1. i \in 1 .. n /\ ~ (a <= i)
        BY <1>1, <3>1
      <4>2. i \notin E
        BY <4>1, <2>1
      <4> QED BY <1>1, <4>1, <4>2
    <3> QED BY <3>1, <3>2
  <2> HIDE DEF a, b
  <2>5. /\ SubSeq(l, a, b) \in Seq(S) /\ Len(SubSeq(l, a, b)) = b - a + 1
        /\ \A i \in 1 .. b - a + 1 : SubSeq(l, a, b)[i] = l[a + i - 1]
    BY <1>1, <2>4
  <2>6. SubSeq(l, a, b) # <<>> /\ SubSeq(l, a, b)[1] = l[a]
    <3>1. 1 \in 1 .. b - a + 1 /\ a + 1 - 1 = a
      BY <1>1, <2>4
    <3>2. SubSeq(l, a, b)[1] = l[a]
      BY <2>5, <3>1
    <3>3. SubSeq(l, a, b) # <<>>
      <4> SUFFICES ASSUME SubSeq(l, a, b) = <<>> PROVE FALSE
        OBVIOUS
      <4>1. Len(SubSeq(l, a, b)) = 0
        OBVIOUS
      <4> QED BY <4>1, <2>5, <2>4, <1>1
    <3> QED BY <3>2, <3>3
  <2>7. ASSUME NEW i \in 1 .. n, l[i] \notin Space
        PROVE  \E k \in 1 .. Len(Stripped(l)) : Stripped(l)[k] = l[i]
    <3>1. i \in E
      BY <1>1, <2>7
    <3>2. a <= i /\ i <= b
      BY <3>1, <2>1, <2>2
    <3>3. i - a + 1 \in 1 .. b - a + 1 /\ a + (i - a + 1) - 1 = i
      BY <1>1, <2>4, <3>2
    <3> QED BY <2>3, <2>5, <3>3
  <2>8. ~IsBlank(l) /\ ~ \A i \in 1 .. n : l[i] \in Space
    BY <2>3, <2>6, <2>4 DEF IsBlank
  <2>9. Stripped(l) \in Seq(S)
    BY <2>3, <2>5
  <2>10. \E c \in 1 .. Len(l) :
                /\ \A i \in 1 .. c - 1 : l[i] \in Space
                /\ l[c] \notin Space
                /\ Stripped(l) # <<>> /\ Stripped(l)[1] = l[c]
    BY <2>3, <2>4, <2>6
  <2>12. ASSUME NEW k \in 1 .. Len(Stripped(l))
         PROVE  \E i \in 1 .. n : l[i] = Stripped(l)[k]
    <3>1. k \in 1 .. b - a + 1
      BY <2>3, <2>5
    <3>2. a + k - 1 \in 1 .. n
      BY <1>1, <2>4, <3>1
    <3> QED BY <2>3, <2>5, <3>1, <3>2
  <2> HIDE DEF n, E
  <2>11. \A i \in 1 .. n : l[i] \notin Space => \E k \in 1 .. Len(Stripped(l)) : Stripped(l)[k] = l[i]
    BY <2>7
  <2> QED BY <2>8, <2>9, <2>10, <2>11, <2>12 DEF n
<1> QED BY <1>2, <1>3

(* A directive holds nothing but its marker, the prefix, and space. *)
LEMMA DirectiveHolds ==
    ASSUME NEW S, NEW l \in Seq(S), NEW f, NEW m \in {"start", "end"}, LineHasDirective(f, l, m)
    PROVE  l \in Seq(Space \cup {"prefix", m}) /\ ~IsBlank(l) /\ \E i \in 1 .. Len(l) : l[i] = m
<1> DEFINE s == Stripped(l)
           M == Space \cup {"prefix", m}
<1>1. /\ s \in Seq(S)
      /\ \A i \in 1 .. Len(l) : l[i] \notin Space => \E k \in 1 .. Len(s) : s[k] = l[i]
  BY StrippedFound
<1>2. ASSUME NEW x \in Seq(S), Stripped(x) = <<m>>
      PROVE  \A i \in 1 .. Len(x) : x[i] \in Space \cup {m}
  <2> SUFFICES ASSUME NEW i \in 1 .. Len(x), x[i] \notin Space
               PROVE  x[i] = m
    OBVIOUS
  <2>1. \E k \in 1 .. Len(Stripped(x)) : Stripped(x)[k] = x[i]
    BY StrippedFound
  <2> QED BY <1>2, <2>1
<1>3. CASE s = <<m>>
  <2>1. \A i \in 1 .. Len(l) : l[i] \in Space \cup {m}
    BY <1>2, <1>3
  <2>2. l \in Seq(M)
    BY <2>1
  <2>3. ~IsBlank(l)
    BY <1>3 DEF IsBlank
  <2>4. \E a \in 1 .. Len(l) : s[1] = l[a]
    BY <2>3, StrippedFound
  <2>5. s[1] = m
    BY <1>3
  <2> QED BY <2>2, <2>3, <2>4, <2>5
<1>4. CASE s # <<>> /\ s[1] = "prefix" /\ Stripped(Tail(s)) = <<m>>
  <2> HIDE DEF s
  <2> DEFINE r == Tail(s)
  <2>1. r \in Seq(S) /\ Len(s) \in Nat /\ Len(r) = Len(s) - 1 /\ \A i \in 1 .. Len(r) : r[i] = s[i + 1]
    BY <1>1, <1>4
  <2>2. Stripped(r) = <<m>>
    BY <1>4
  <2> HIDE DEF r
  <2>3. \A i \in 1 .. Len(r) : r[i] \in Space \cup {m}
    BY <1>2, <2>1, <2>2
  <2>4. \A k \in 1 .. Len(s) : s[k] \in M
    <3> SUFFICES ASSUME NEW k \in 1 .. Len(s)
                 PROVE  s[k] \in M
      OBVIOUS
    <3>1. CASE k = 1
      BY <1>4, <3>1
    <3>2. CASE k # 1
      <4>1. k - 1 \in 1 .. Len(r) /\ k - 1 + 1 = k
        BY <2>1, <3>2
      <4>2. r[k - 1] = s[k]
        BY <2>1, <4>1
      <4>3. r[k - 1] \in Space \cup {m}
        BY <2>3, <4>1
      <4> QED BY <4>2, <4>3
    <3> QED BY <3>1, <3>2
  <2>5. \A i \in 1 .. Len(l) : l[i] \in M
    <3> SUFFICES ASSUME NEW i \in 1 .. Len(l), l[i] \notin Space
                 PROVE  l[i] \in M
      OBVIOUS
    <3>1. PICK k \in 1 .. Len(s) : s[k] = l[i]
      BY <1>1
    <3>2. s[k] \in M
      BY <2>4
    <3> QED BY <3>1, <3>2
  <2>6. l \in Seq(M)
    <3> HIDE DEF M
    <3> QED BY <2>5
  <2>7. ~IsBlank(l)
    BY <1>4 DEF IsBlank, s
  <2>8. \E i \in 1 .. Len(l) : l[i] = m
    <3>1. ~IsBlank(r)
      BY <2>2 DEF IsBlank
    <3>2. PICK a \in 1 .. Len(r) : r[a] \notin Space /\ Stripped(r)[1] = r[a]
      BY <2>1, <3>1, StrippedFound
    <3>3. r[a] = m
      BY <2>2, <3>2
    <3>4. a + 1 \in 1 .. Len(s) /\ s[a + 1] = m /\ m \notin Space
      BY <2>1, <3>2, <3>3 DEF Space, LineEnds
    <3> QED BY <3>4, StrippedFound DEF s
  <2> QED BY <2>6, <2>7, <2>8
<1>5. s = <<m>> \/ (s # <<>> /\ s[1] = "prefix" /\ Stripped(Tail(s)) = <<m>>)
  BY DEF LineHasDirective, HasDirective
<1> QED BY <1>3, <1>4, <1>5

-----------------------------------------------------------------------------
(* Searched lines and Markdown fences *)

\* The lines that are Markdown fences.
Fences(ls) == {i \in DOMAIN ls : Stripped(ls[i]) # <<>> /\ Stripped(ls[i])[1] = "fence"}

(* Lines without a fence between them lie all between fences, or none does. *)
LEMMA FencedAlike ==
    ASSUME NEW S, NEW ls \in Seq(S), NEW p \in 1 .. Len(ls), NEW q \in 1 .. Len(ls), p <= q,
           \A k \in p .. q : k \notin Fences(ls)
    PROVE  p \in Fenced(ls) <=> q \in Fenced(ls)
<1>1. p \in DOMAIN ls /\ q \in DOMAIN ls /\ DOMAIN ls = 1 .. Len(ls) /\ Len(ls) \in Nat
  OBVIOUS
<1>2. p \notin Fences(ls) /\ q \notin Fences(ls)
  OBVIOUS
<1>3. {j \in Fences(ls) : j < p} = {j \in Fences(ls) : j < q}
  <2> SUFFICES ASSUME NEW j \in Fences(ls)
               PROVE  j < p <=> j < q
    OBVIOUS
  <2>1. j \in 1 .. Len(ls)
    BY <1>1 DEF Fences
  <2>2. j \notin p .. q
    OBVIOUS
  <2> QED BY <2>1, <2>2
<1>4. \A x \in DOMAIN ls : x \in Fenced(ls) <=> x \in Fences(ls) \/ Cardinality({j \in Fences(ls) : j < x}) % 2 = 1
  BY DEF Fenced, Fences
<1> QED BY <1>1, <1>2, <1>3, <1>4

(* What is searched are the lines, those between Markdown fences without their markers. *)
LEMMA SearchedLines ==
    ASSUME NEW S, NEW ls \in Seq(Seq(S)), NEW f
    PROVE  /\ Searched(f, ls) \in Seq(Seq(S)) /\ Len(Searched(f, ls)) = Len(ls)
           /\ \A i \in 1 .. Len(ls) :
                f.style # "markdown" \/ i \notin Fenced(ls) => Searched(f, ls)[i] = ls[i]
           /\ \A i \in 1 .. Len(ls) :
                f.style = "markdown" /\ i \in Fenced(ls)
                  => Searched(f, ls)[i] = Without(ls[i], {"start", "end"})
<1>1. CASE f.style # "markdown"
  BY <1>1 DEF Searched
<1>2. CASE f.style = "markdown"
  <2> DEFINE r == [i \in DOMAIN ls |-> IF i \in Fenced(ls) THEN Without(ls[i], {"start", "end"}) ELSE ls[i]]
  <2>1. Searched(f, ls) = r
    BY <1>2 DEF Searched
  <2>2. DOMAIN ls = 1 .. Len(ls) /\ Len(ls) \in Nat /\ \A i \in 1 .. Len(ls) : ls[i] \in Seq(S)
    OBVIOUS
  <2>3. \A i \in 1 .. Len(ls) : Without(ls[i], {"start", "end"}) \in Seq(S)
    BY <2>2, WithoutOnly
  <2>4. r \in [1 .. Len(ls) -> Seq(S)]
    BY <2>2, <2>3
  <2>5. r \in Seq(Seq(S)) /\ Len(r) = Len(ls)
    <3> HIDE DEF r
    <3> QED BY <2>2, <2>4
  <2>6. \A i \in 1 .. Len(ls) : r[i] = IF i \in Fenced(ls) THEN Without(ls[i], {"start", "end"}) ELSE ls[i]
    BY <2>2
  <2> HIDE DEF r
  <2> QED BY <1>2, <2>1, <2>5, <2>6
<1> QED BY <1>1, <1>2

\* A line that holds a token.
Has(l, x) == \E i \in 1 .. Len(l) : l[i] = x

(* Other tokens than markers are searched where they were. *)
LEMMA SearchedHas ==
    ASSUME NEW S, NEW ls \in Seq(Seq(S)), NEW f, NEW k \in 1 .. Len(ls), NEW x, x \notin {"start", "end"},
           Has(ls[k], x)
    PROVE  Has(Searched(f, ls)[k], x)
<1>0. \A a \in 1 .. Len(ls) : f.style = "markdown" /\ a \in Fenced(ls)
                  => Searched(f, ls)[a] = Without(ls[a], {"start", "end"})
  BY SearchedLines
<1>1. CASE f.style # "markdown" \/ k \notin Fenced(ls)
  BY <1>1, SearchedLines
<1>2. CASE f.style = "markdown" /\ k \in Fenced(ls)
  <2>1. PICK i \in 1 .. Len(ls[k]) : ls[k][i] = x
    BY DEF Has
  <2>2. ls[k] \in Seq(S)
    OBVIOUS
  <2> DEFINE l == ls[k]
  <2>5. l \in Seq(S) /\ i \in 1 .. Len(l) /\ l[i] = x
    BY <2>1, <2>2
  <2>6. l[i] \notin {"start", "end"}
    BY <2>5
  <2> HIDE DEF l
  <2>3. \E j \in 1 .. Len(Without(l, {"start", "end"})) : Without(l, {"start", "end"})[j] = l[i]
    BY <2>5, <2>6, WithoutHolds
  <2>4. Searched(f, ls)[k] = Without(l, {"start", "end"})
    BY <1>0, <1>2 DEF l
  <2> QED BY <2>3, <2>4, <2>5 DEF Has
<1> QED BY <1>1, <1>2

(* A fence holds the token for one. *)
LEMMA FenceHas ==
    ASSUME NEW S, NEW ls \in Seq(Seq(S)), NEW k \in 1 .. Len(ls), k \in Fences(ls)
    PROVE  Has(ls[k], "fence")
<1>1. ls[k] \in Seq(S)
  OBVIOUS
<1>2. Stripped(ls[k]) # <<>> /\ Stripped(ls[k])[1] = "fence"
  BY DEF Fences
<1>3. Stripped(ls[k]) \in Seq(S)
  BY <1>1, StrippedFound
<1>4. 1 \in 1 .. Len(Stripped(ls[k]))
  <2> DEFINE s == Stripped(ls[k])
  <2>1. s \in Seq(S) /\ s # <<>>
    BY <1>2, <1>3
  <2> HIDE DEF s
  <2>2. 1 \in 1 .. Len(s)
    BY <2>1
  <2> QED BY <2>2 DEF s
<1>5. \E i \in 1 .. Len(ls[k]) : ls[k][i] = Stripped(ls[k])[1]
  BY <1>1, <1>4, StrippedFound
<1> QED BY <1>2, <1>5 DEF Has

(* A marker that is found does not lie between fences. *)
LEMMA SearchedMarker ==
    ASSUME NEW S, NEW ls \in Seq(Seq(S)), NEW f, NEW k \in 1 .. Len(ls), NEW m \in {"start", "end"},
           Has(Searched(f, ls)[k], m)
    PROVE  f.style # "markdown" \/ k \notin Fenced(ls)
<1> SUFFICES ASSUME f.style = "markdown", k \in Fenced(ls)
             PROVE  FALSE
  OBVIOUS
<1>1. Searched(f, ls)[k] = Without(ls[k], {"start", "end"}) /\ ls[k] \in Seq(S)
  <2>1. ls[k] \in Seq(S)
    OBVIOUS
  <2>2. \A a \in 1 .. Len(ls) : f.style = "markdown" /\ a \in Fenced(ls)
                  => Searched(f, ls)[a] = Without(ls[a], {"start", "end"})
    BY SearchedLines
  <2> QED BY <2>1, <2>2
<1> DEFINE w == Without(ls[k], {"start", "end"})
<1>2. w \in Seq(S \ {"start", "end"})
  BY <1>1, WithoutOnly
<1>3. Has(w, m)
  BY <1>1
<1> HIDE DEF w
<1> QED BY <1>2, <1>3 DEF Has

\* Lines that are searched as they are.
Plain(f, ls, k) == f.style # "markdown" \/ k \notin Fenced(ls)

(* Lines are searched as they are from one to the other as long as there is no fence. *)
LEMMA PlainAlike ==
    ASSUME NEW S, NEW ls \in Seq(Seq(S)), NEW f, NEW p \in 1 .. Len(ls), NEW q \in 1 .. Len(ls), p <= q,
           \A k \in p .. q : ~Has(Searched(f, ls)[k], "fence")
    PROVE  Plain(f, ls, p) <=> Plain(f, ls, q)
<1>1. ASSUME NEW k \in p .. q
      PROVE  k \notin Fences(ls)
  <2> SUFFICES ASSUME k \in Fences(ls)
               PROVE  FALSE
    OBVIOUS
  <2>1. k \in 1 .. Len(ls)
    OBVIOUS
  <2>2. Has(ls[k], "fence")
    BY <2>1, FenceHas
  <2>3. "fence" \notin {"start", "end"}
    OBVIOUS
  <2>4. Has(Searched(f, ls)[k], "fence")
    BY <2>1, <2>2, <2>3, SearchedHas
  <2> QED BY <2>4
<1>2. ls \in Seq(Seq(S)) /\ \A k \in p .. q : k \notin Fences(ls)
  BY <1>1
<1> DEFINE LL == Seq(S)
<1> HIDE DEF LL
<1>3. ls \in Seq(LL)
  BY DEF LL
<1>4. p \in Fenced(ls) <=> q \in Fenced(ls)
  BY <1>2, <1>3, FencedAlike
<1> QED BY <1>4 DEF Plain

-----------------------------------------------------------------------------
(* Around the markers *)

\* What is_pure_spacer takes for blank.
Spacers == {"sp"} \cup LineEnds

\* A line with nothing on it but one token.
IsOnly(l, x) == Without(l, Spacers) = <<x>>

(* Such a line holds that token and spacers. *)
LEMMA OnlyHolds ==
    ASSUME NEW S, NEW l \in Seq(S), NEW x, IsOnly(l, x)
    PROVE  l \in Seq(Spacers \cup {x}) /\ (x \notin Spacers => Has(l, x))
<1>1. ASSUME NEW i \in 1 .. Len(l), l[i] \notin Spacers
      PROVE  l[i] = x
  <2>1. \E k \in 1 .. Len(Without(l, Spacers)) : Without(l, Spacers)[k] = l[i]
    BY <1>1, WithoutHolds
  <2> QED BY <2>1 DEF IsOnly
<1>2. l \in Seq(Spacers \cup {x})
  <2> DEFINE M == Spacers \cup {x}
  <2>1. \A i \in 1 .. Len(l) : l[i] \in M
    BY <1>1
  <2> HIDE DEF M
  <2>2. Len(l) \in Nat
    OBVIOUS
  <2>3. l \in Seq(M)
    BY <2>1, <2>2, PartsOnly
  <2> QED BY <2>3 DEF M
<1>3. Has(l, x)
  <2> SUFFICES ASSUME ~Has(l, x)
               PROVE  FALSE
    OBVIOUS
  <2>1. \A i \in 1 .. Len(l) : l[i] \in Spacers
    BY <1>1 DEF Has
  <2>2. l \in Seq(Spacers)
    BY <2>1
  <2>3. Without(l, Spacers) = <<>>
    BY <2>2, WithoutAll
  <2> QED BY <2>3 DEF IsOnly
<1> QED BY <1>2, <1>3

(* A pure spacer holds spacers. *)
LEMMA SpacerHolds ==
    ASSUME NEW S, NEW l \in Seq(S)
    PROVE  IsPureSpacer(l) <=> l \in Seq(Spacers)
<1>1. ToSet(l) = {l[i] : i \in 1 .. Len(l)}
  BY DEF ToSet
<1>2. IsPureSpacer(l) <=> \A i \in 1 .. Len(l) : l[i] \in Spacers
  BY <1>1 DEF IsPureSpacer, Spacers
<1> HIDE DEF Spacers
<1> QED BY <1>2

\* What may stand between a marker and the delimiter that is taken with it, and the delimiters.
IsAround(l) == IsPureSpacer(l) \/ IsOnly(l, "open") \/ IsOnly(l, "close")

\* A span, its start marker at i and the first end marker behind it at j.
Encloses(f, ls, span, i, j) ==
  /\ span[1] \in 1 .. i /\ i \in 1 .. j - 1 /\ j \in 1 .. span[2] /\ span[2] \in 1 .. Len(ls)
  /\ LineHasDirective(f, ls[i], "start") /\ LineHasDirective(f, ls[j], "end")
  /\ \A k \in i + 1 .. j - 1 : ~LineHasDirective(f, ls[k], "end")
  /\ \A k \in span[1] .. i - 1 : IsAround(ls[k])
  /\ \A k \in j + 1 .. span[2] : IsAround(ls[k])
  /\ span[1] = i \/ IsOnly(ls[span[1]], "open")

(* What WithDelimiters adds to a span is blank or a delimiter. *)
LEMMA DelimitersAround ==
    ASSUME NEW S, NEW ls \in Seq(S), NEW f, NEW i \in 1 .. Len(ls), NEW j \in i + 1 .. Len(ls),
           LineHasDirective(f, ls[i], "start"), LineHasDirective(f, ls[j], "end"),
           \A k \in i + 1 .. j - 1 : ~LineHasDirective(f, ls[k], "end")
    PROVE  Encloses(f, ls, WithDelimiters(f, ls, <<i, j>>), i, j)
<1> DEFINE n == Len(ls)
           A == {0} \cup {k \in 1 .. i - 1 : ~IsPureSpacer(ls[k])}
           B == {n + 1} \cup {k \in j + 1 .. n : ~IsPureSpacer(ls[k])}
           above == Max(A)
           below == Min(B)
           Is(k, token) == k \in DOMAIN ls /\ Without(ls[k], {"sp"} \cup LineEnds) = <<token>>
           span == WithDelimiters(f, ls, <<i, j>>)
<1>1. n \in Nat /\ DOMAIN ls = 1 .. n /\ i \in Nat /\ j \in Nat /\ i < j /\ j <= n /\ 1 <= i
  OBVIOUS
<1>2. above \in A /\ \A y \in A : y <= above
  <2>1. A \in SUBSET (0 .. i) /\ A # {}
    BY <1>1
  <2> HIDE DEF A
  <2> QED BY <1>1, <2>1, MaxOfCounts
<1>3. below \in B /\ \A y \in B : below <= y
  <2>1. B \in SUBSET Nat /\ B # {}
    BY <1>1
  <2> HIDE DEF B
  <2> QED BY <2>1, LeastOfNumbers
<1>4. <<i, j>>[1] = i /\ <<i, j>>[2] = j
  OBVIOUS
<1>5. span = IF f.style # "line" /\ Is(above, "open") /\ Is(below, "close") THEN <<above, below>> ELSE <<i, j>>
  BY <1>4 DEF WithDelimiters
<1> HIDE DEF above, below, span
<1>8. SUFFICES Encloses(f, ls, span, i, j)
  BY DEF span
<1>6. CASE span = <<i, j>>
  <2>1. span[1] = i /\ span[2] = j
    BY <1>6
  <2> QED BY <1>1, <2>1 DEF Encloses
<1>7. CASE Is(above, "open") /\ Is(below, "close") /\ span = <<above, below>>
  <2>1. span[1] = above /\ span[2] = below
    BY <1>7
  <2>2. above \in 1 .. i - 1 /\ below \in j + 1 .. n
    BY <1>1, <1>2, <1>3, <1>7
  <2>3. IsOnly(ls[above], "open") /\ IsOnly(ls[below], "close")
    BY <1>7 DEF IsOnly, Spacers
  <2>4. ASSUME NEW k \in above .. i - 1
        PROVE  IsAround(ls[k])
    <3>1. CASE k = above
      BY <2>3, <3>1 DEF IsAround
    <3>2. CASE k # above
      <4>1. k \in 1 .. i - 1 /\ ~(k <= above)
        BY <1>1, <2>2, <3>2
      <4>2. k \notin A
        BY <1>2, <4>1
      <4> QED BY <4>1, <4>2 DEF IsAround
    <3> QED BY <3>1, <3>2
  <2>5. ASSUME NEW k \in j + 1 .. below
        PROVE  IsAround(ls[k])
    <3>1. CASE k = below
      BY <2>3, <3>1 DEF IsAround
    <3>2. CASE k # below
      <4>1. k \in j + 1 .. n /\ ~(below <= k)
        BY <1>1, <2>2, <3>2
      <4>2. k \notin B
        BY <1>3, <4>1
      <4> QED BY <4>1, <4>2 DEF IsAround
    <3> QED BY <3>1, <3>2
  <2>6. above \in 1 .. i /\ i \in 1 .. j - 1 /\ j \in 1 .. below /\ below \in 1 .. Len(ls)
    BY <1>1, <2>2
  <2> HIDE DEF n, A, B, Is
  <2> QED BY <1>1, <2>1, <2>3, <2>4, <2>5, <2>6 DEF Encloses
<1> QED BY <1>5, <1>6, <1>7

(* Every candidate is a span with its markers. *)
LEMMA CandidateEncloses ==
    ASSUME NEW S, NEW ls \in Seq(S), NEW f, NEW span \in Candidates(f, ls)
    PROVE  \E i, j \in 1 .. Len(ls) : Encloses(f, ls, span, i, j)
<1> DEFINE Starts == {i \in DOMAIN ls : LineHasDirective(f, ls[i], "start")}
           Ends == {j \in DOMAIN ls : LineHasDirective(f, ls[j], "end")}
           Closers(i) == {j \in Ends : j > i}
<1>1. PICK i \in Starts : Closers(i) # {} /\ span = WithDelimiters(f, ls, <<i, Min(Closers(i))>>)
  BY DEF Candidates
<1> DEFINE j == Min(Closers(i))
<1>2. DOMAIN ls = 1 .. Len(ls) /\ Len(ls) \in Nat
  OBVIOUS
<1>3. Closers(i) \in SUBSET Nat
  BY <1>2
<1>4. j \in Closers(i) /\ \A y \in Closers(i) : j <= y
  <2> DEFINE C == Closers(i)
  <2>1. C \in SUBSET Nat /\ C # {}
    BY <1>1, <1>3
  <2> HIDE DEF C
  <2>2. Min(C) \in C /\ \A y \in C : Min(C) <= y
    BY <2>1, LeastOfNumbers
  <2> QED BY <2>2 DEF C
<1> HIDE DEF j
<1>5. /\ i \in 1 .. Len(ls) /\ j \in i + 1 .. Len(ls)
      /\ LineHasDirective(f, ls[i], "start") /\ LineHasDirective(f, ls[j], "end")
  BY <1>2, <1>4
<1>6. ASSUME NEW k \in i + 1 .. j - 1
      PROVE  ~LineHasDirective(f, ls[k], "end")
  <2>1. k \in DOMAIN ls /\ k > i /\ ~(j <= k)
    BY <1>2, <1>5
  <2> QED BY <1>4, <2>1
<1> HIDE DEF Starts, Ends, Closers
<1>7. Encloses(f, ls, WithDelimiters(f, ls, <<i, j>>), i, j)
  BY <1>5, <1>6, DelimitersAround
<1>8. i \in 1 .. Len(ls) /\ j \in 1 .. Len(ls)
  BY <1>2, <1>5
<1> QED BY <1>1, <1>7, <1>8 DEF j

(* A line over tokens that are no fences is none. *)
LEMMA NoFence ==
    ASSUME NEW K, "fence" \notin K, NEW l \in Seq(K)
    PROVE  ~Has(l, "fence")
  BY DEF Has

(* No header holds a fence; what stands beside its markers is markup. *)
LEMMA FenceIsNoMarkup ==
    /\ "fence" \notin Markup
    /\ \A m \in {"start", "end"} : Space \cup {"prefix", m} \subseteq Markup
    /\ Spacers \cup {"open"} \subseteq Markup /\ Spacers \cup {"close"} \subseteq Markup /\ Spacers \subseteq Markup
  BY FieldsAssumption DEF Markup, Space, LineEnds, Spacers

(* Blank lines and delimiters hold nothing but markup. *)
LEMMA AroundHolds ==
    ASSUME NEW S, NEW l \in Seq(S), IsAround(l)
    PROVE  l \in Seq(Markup) /\ l \in Seq(Spacers \cup {"open", "close"})
<1>1. l \in Seq(Spacers \cup {"open", "close"})
  <2> DEFINE M == Spacers \cup {"open", "close"}
  <2>1. Spacers \cup {"open"} \subseteq M /\ Spacers \cup {"close"} \subseteq M /\ Spacers \subseteq M
    OBVIOUS
  <2>2. l \in Seq(Spacers \cup {"open"}) \/ l \in Seq(Spacers \cup {"close"}) \/ l \in Seq(Spacers)
    BY OnlyHolds, SpacerHolds DEF IsAround
  <2> HIDE DEF M
  <2>3. l \in Seq(M)
    <3>1. CASE l \in Seq(Spacers \cup {"open"})
      BY <2>1, <3>1, SeqWider
    <3>2. CASE l \in Seq(Spacers \cup {"close"})
      BY <2>1, <3>2, SeqWider
    <3>3. CASE l \in Seq(Spacers)
      BY <2>1, <3>3, SeqWider
    <3> QED BY <2>2, <3>1, <3>2, <3>3
  <2> QED BY <2>3 DEF M
<1>2. Spacers \cup {"open", "close"} \subseteq Markup
  BY FenceIsNoMarkup
<1>3. l \in Seq(Markup)
  BY <1>1, <1>2, SeqWider
<1> QED BY <1>1, <1>3

(* Neither do directives. *)
LEMMA DirectiveIsMarkup ==
    ASSUME NEW S, NEW l \in Seq(S), NEW f, NEW m \in {"start", "end"}, LineHasDirective(f, l, m)
    PROVE  l \in Seq(Markup)
<1>1. l \in Seq(Space \cup {"prefix", m})
  BY DirectiveHolds
<1>2. Space \cup {"prefix", m} \subseteq Markup
  BY FenceIsNoMarkup
<1> QED BY <1>1, <1>2, SeqWider

(* A line is markup if what remains without its affixes is: the prefix and the blanks are. *)
LEMMA AffixHolds ==
    ASSUME NEW S, NEW l \in Seq(S), NEW f,
           \A i \in 1 .. Len(WithoutAffixes(f, l)) : WithoutAffixes(f, l)[i] \in Markup
    PROVE  l \in Seq(Markup)
<1> DEFINE bare == Without(l, Spacers)
           rest == WithoutAffixes(f, l)
<1>1. bare \in Seq(S)
  BY WithoutOnly
<1>2. rest = bare \/ (bare # <<>> /\ bare[1] = "prefix" /\ rest = Tail(bare))
  BY DEF WithoutAffixes, Spacers
<1>3. ASSUME NEW i \in 1 .. Len(l)
      PROVE  l[i] \in Spacers \/ \E k \in 1 .. Len(bare) : bare[k] = l[i]
  <2>1. CASE l[i] \notin Spacers
    BY <2>1, WithoutHolds
  <2> QED BY <2>1
<1>4. \A i \in 1 .. Len(rest) : rest[i] \in Markup
  OBVIOUS
<1> HIDE DEF bare, rest
<1>5. \A k \in 1 .. Len(bare) : bare[k] \in Markup
  <2>1. CASE rest = bare
    BY <1>4, <2>1
  <2>2. CASE bare # <<>> /\ bare[1] = "prefix" /\ rest = Tail(bare)
    <3>1. "prefix" \in Markup
      BY DEF Markup
    <3>2. Len(bare) \in Nat /\ Len(rest) = Len(bare) - 1 /\ \A i \in 1 .. Len(rest) : rest[i] = bare[i + 1]
      BY <1>1, <2>2
    <3> HIDE DEF Markup
    <3> SUFFICES ASSUME NEW k \in 1 .. Len(bare), k # 1
                 PROVE  bare[k] \in Markup
      BY <2>2, <3>1
    <3>3. k - 1 \in 1 .. Len(rest) /\ k - 1 + 1 = k
      BY <3>2
    <3> QED BY <1>4, <3>2, <3>3
  <2> QED BY <1>2, <2>1, <2>2
<1>6. Spacers \subseteq Markup /\ Len(l) \in Nat
  BY FenceIsNoMarkup
<1>7. \A i \in 1 .. Len(l) : l[i] \in Markup
  BY <1>3, <1>5, <1>6
<1> QED BY <1>6, <1>7, PartsOnly

(* What remains of a line without its affixes is a line. *)
LEMMA AffixTyped ==
    ASSUME NEW S, NEW l \in Seq(S), NEW f
    PROVE  WithoutAffixes(f, l) \in Seq(S)
<1> DEFINE bare == Without(l, Spacers)
           rest == WithoutAffixes(f, l)
<1>1. bare \in Seq(S)
  BY WithoutOnly
<1>2. rest = bare \/ (bare # <<>> /\ rest = Tail(bare))
  BY DEF WithoutAffixes, Spacers
<1> HIDE DEF bare, rest
<1>3. rest \in Seq(S)
  BY <1>1, <1>2
<1> QED BY <1>3 DEF rest

(* If a header has no errors, the lines between its markers are blank or fields. *)
LEMMA PayloadHolds ==
    ASSUME NEW S, NEW ls \in Seq(Seq(S)), NEW f, NEW span, NEW a \in 1 .. Len(ls), NEW b \in 1 .. Len(ls),
           InnerMarkers(f, ls, span) = <<a, b>>, ~HeaderHasErrors(f, ls, span)
    PROVE  \A k \in a + 1 .. b - 1 : ls[k] \in Seq(Markup)
<1> SUFFICES ASSUME NEW k \in a + 1 .. b - 1
             PROVE  ls[k] \in Seq(Markup)
  OBVIOUS
<1> DEFINE inner == [p \in 1 .. b - a - 1 |-> WithoutAffixes(f, ls[a + p])]
           p == k - a
           pay == Payload(f, ls, span)
<1>1. pay = Without(inner, {<<>>})
  BY DEF Payload
<1>2. Len(ls) \in Nat /\ a \in Nat /\ b \in Nat /\ k \in Nat /\ k \in 1 .. Len(ls) /\ ls[k] \in Seq(S)
      /\ p \in 1 .. b - a - 1 /\ a + p = k /\ b - a - 1 \in Nat
  OBVIOUS
<1>3. \A q \in 1 .. b - a - 1 : ls[a + q] \in Seq(S)
  BY <1>2
<1>4. \A q \in 1 .. b - a - 1 : WithoutAffixes(f, ls[a + q]) \in Seq(S)
  BY <1>3, AffixTyped
<1>5. inner \in [1 .. b - a - 1 -> Seq(S)]
  BY <1>4
<1>6. inner \in Seq(Seq(S)) /\ Len(inner) = b - a - 1
  <2> HIDE DEF inner
  <2> QED BY <1>2, <1>5, FunctionIsSeq
<1>7. inner[p] = WithoutAffixes(f, ls[k])
  BY <1>2
<1>8. ASSUME NEW q \in 1 .. Len(pay)
      PROVE  Len(pay[q]) = 1 /\ pay[q][1] \in FieldValues
  <2>1. DOMAIN pay = 1 .. Len(pay)
    <3> DEFINE LL == Seq(S)
    <3> HIDE DEF LL
    <3>1. inner \in Seq(LL)
      BY <1>6 DEF LL
    <3> HIDE DEF inner
    <3>2. pay \in Seq(LL)
      BY <1>1, <3>1, WithoutOnly
    <3> HIDE DEF pay
    <3> QED BY <3>2
  <2> QED BY <2>1 DEF HeaderHasErrors
<1> HIDE DEF inner, pay, p
<1>9. ASSUME inner[p] # <<>>
      PROVE  Len(inner[p]) = 1 /\ inner[p][1] \in FieldValues
  <2> DEFINE LL == Seq(S)
  <2> HIDE DEF LL
  <2>1. inner \in Seq(LL) /\ p \in 1 .. Len(inner) /\ inner[p] \notin {<<>>}
    BY <1>2, <1>6, <1>9 DEF LL
  <2>2. \E q \in 1 .. Len(Without(inner, {<<>>})) : Without(inner, {<<>>})[q] = inner[p]
    BY <2>1, WithoutHolds
  <2> QED BY <1>1, <1>8, <2>2
<1>10. FieldValues \subseteq Markup
  BY DEF Markup
<1>11. \A i \in 1 .. Len(inner[p]) : inner[p][i] \in Markup
  <2>1. CASE inner[p] = <<>>
    BY <2>1
  <2>2. CASE inner[p] # <<>>
    BY <1>9, <1>10, <2>2
  <2> QED BY <2>1, <2>2
<1> QED BY <1>2, <1>7, <1>11, AffixHolds

(* The lines of a candidate between its delimiters and its markers, and the markers, are searched
   as they are. *)
LEMMA EnclosedPlain ==
    ASSUME NEW S, NEW ls \in Seq(Seq(S)), NEW f, NEW span, NEW i, NEW j,
           Encloses(f, Searched(f, ls), span, i, j)
    PROVE  /\ span[1] \in 1 .. i /\ i \in 1 .. j - 1 /\ j \in 1 .. span[2] /\ span[2] \in 1 .. Len(ls)
           /\ \A k \in span[1] .. i : Searched(f, ls)[k] = ls[k]
           /\ \A k \in j .. span[2] : Searched(f, ls)[k] = ls[k]
           /\ Plain(f, ls, i)
<1> DEFINE se == Searched(f, ls)
<1>1. /\ span[1] \in 1 .. i /\ i \in 1 .. j - 1 /\ j \in 1 .. span[2] /\ span[2] \in 1 .. Len(se)
      /\ LineHasDirective(f, se[i], "start") /\ LineHasDirective(f, se[j], "end")
      /\ \A k \in span[1] .. i - 1 : IsAround(se[k])
      /\ \A k \in j + 1 .. span[2] : IsAround(se[k])
  BY DEF Encloses
<1>2. se \in Seq(Seq(S)) /\ Len(se) = Len(ls) /\ Len(ls) \in Nat
      /\ \A k \in 1 .. Len(ls) : Plain(f, ls, k) => se[k] = ls[k]
  <2>1. Len(ls) \in Nat
    OBVIOUS
  <2>2. se \in Seq(Seq(S)) /\ Len(se) = Len(ls)
    BY SearchedLines
  <2>3. \A k \in 1 .. Len(ls) : f.style # "markdown" \/ k \notin Fenced(ls) => Searched(f, ls)[k] = ls[k]
    BY SearchedLines
  <2> QED BY <2>1, <2>2, <2>3 DEF Plain
<1> HIDE DEF se
<1>3. \A k \in 1 .. Len(ls) : se[k] \in Seq(S)
  BY <1>2
<1>4. i \in 1 .. Len(ls) /\ j \in 1 .. Len(ls) /\ i < j /\ span[1] \in Nat /\ span[2] \in Nat /\ i \in Nat /\ j \in Nat
  <2>1. span[2] \in Nat /\ span[2] <= Len(ls)
    BY <1>1, <1>2
  <2>2. j \in Nat /\ j <= span[2] /\ 1 <= j
    BY <1>1, <2>1
  <2>3. i \in Nat /\ i < j /\ 1 <= i
    BY <1>1, <2>2
  <2>4. span[1] \in Nat
    BY <1>1, <2>3
  <2> QED BY <1>2, <2>1, <2>2, <2>3, <2>4
<1>5. ASSUME NEW k \in 1 .. Len(ls), NEW m \in {"start", "end"}, LineHasDirective(f, se[k], m)
      PROVE  Plain(f, ls, k) /\ ~Has(se[k], "fence")
  <2>1. se[k] \in Seq(S)
    BY <1>3
  <2>2. \E q \in 1 .. Len(se[k]) : se[k][q] = m
    BY <1>5, <2>1, DirectiveHolds
  <2>3. Has(Searched(f, ls)[k], m)
    BY <2>2 DEF Has, se
  <2>4. f.style # "markdown" \/ k \notin Fenced(ls)
    BY <2>3, SearchedMarker
  <2>5. se[k] \in Seq(Markup)
    BY <1>5, <2>1, DirectiveIsMarkup
  <2>6. ~Has(se[k], "fence")
    BY <2>5, NoFence, FenceIsNoMarkup
  <2> QED BY <2>4, <2>6 DEF Plain
<1>6. ASSUME NEW k \in 1 .. Len(ls), IsAround(se[k])
      PROVE  ~Has(se[k], "fence")
  <2>1. se[k] \in Seq(S)
    BY <1>3
  <2>2. se[k] \in Seq(Markup)
    BY <1>6, <2>1, AroundHolds
  <2> QED BY <2>2, NoFence, FenceIsNoMarkup
<1>7. Plain(f, ls, i) /\ Plain(f, ls, j)
  BY <1>1, <1>4, <1>5
<1>8. ASSUME NEW k \in span[1] .. i
      PROVE  se[k] = ls[k]
  <2>1. k \in 1 .. Len(ls) /\ k <= i
    BY <1>1, <1>4
  <2>2. ASSUME NEW p \in k .. i
        PROVE  ~Has(se[p], "fence")
    <3>1. CASE p = i
      BY <1>1, <1>4, <1>5, <3>1
    <3>2. CASE p # i
      <4>1. p \in span[1] .. i - 1 /\ p \in 1 .. Len(ls)
        BY <1>1, <1>4, <2>1, <3>2
      <4> QED BY <1>1, <1>6, <4>1
    <3> QED BY <3>1, <3>2
  <2>3. Plain(f, ls, k) <=> Plain(f, ls, i)
    BY <1>4, <2>1, <2>2, PlainAlike DEF se
  <2> QED BY <1>2, <1>7, <2>1, <2>3
<1>9. ASSUME NEW k \in j .. span[2]
      PROVE  se[k] = ls[k]
  <2>1. k \in 1 .. Len(ls) /\ j <= k
    BY <1>1, <1>2, <1>4
  <2>2. ASSUME NEW p \in j .. k
        PROVE  ~Has(se[p], "fence")
    <3>1. CASE p = j
      BY <1>1, <1>4, <1>5, <3>1
    <3>2. CASE p # j
      <4>1. p \in j + 1 .. span[2] /\ p \in 1 .. Len(ls)
        BY <1>1, <1>4, <2>1, <3>2
      <4> QED BY <1>1, <1>6, <4>1
    <3> QED BY <3>1, <3>2
  <2>3. Plain(f, ls, j) <=> Plain(f, ls, k)
    BY <1>4, <2>1, <2>2, PlainAlike DEF se
  <2> QED BY <1>2, <1>7, <2>1, <2>3
<1> QED BY <1>1, <1>2, <1>7, <1>8, <1>9 DEF se

(* The lines of a header without errors hold nothing but markup, also where Markdown hides the
   markers of fenced lines: a header that begins outside of fences could only reach into them
   past a fence, which is no field. *)
LEMMA SpanHolds ==
    ASSUME NEW S, NEW ls \in Seq(Seq(S)), NEW f, NEW span \in Candidates(f, Searched(f, ls)),
           ~HeaderHasErrors(f, ls, span)
    PROVE  /\ span[1] \in 1 .. Len(ls) /\ span[2] \in 1 .. Len(ls) /\ span[1] < span[2]
           /\ \A k \in span[1] .. span[2] : ls[k] \in Seq(Markup)
           /\ ~IsBlank(ls[span[1]])
<1> DEFINE se == Searched(f, ls)
           top == span[1]
           end == span[2]
<1>1. PICK i \in 1 .. Len(se), j \in 1 .. Len(se) : Encloses(f, se, span, i, j)
  <2> DEFINE LL == Seq(S)
  <2>1. se \in Seq(Seq(S))
    BY SearchedLines
  <2>2. se \in Seq(LL)
    BY <2>1
  <2> HIDE DEF se, LL
  <2>3. \E i, j \in 1 .. Len(se) : Encloses(f, se, span, i, j)
    BY <2>2, CandidateEncloses DEF se
  <2> QED BY <2>3
<1>2. /\ top \in 1 .. i /\ i \in 1 .. j - 1 /\ j \in 1 .. end /\ end \in 1 .. Len(ls)
      /\ \A k \in top .. i : se[k] = ls[k]
      /\ \A k \in j .. end : se[k] = ls[k]
      /\ Plain(f, ls, i)
  BY <1>1, EnclosedPlain
<1>3. /\ LineHasDirective(f, se[i], "start") /\ LineHasDirective(f, se[j], "end")
      /\ \A k \in i + 1 .. j - 1 : ~LineHasDirective(f, se[k], "end")
      /\ \A k \in top .. i - 1 : IsAround(se[k])
      /\ \A k \in j + 1 .. end : IsAround(se[k])
      /\ top = i \/ IsOnly(se[top], "open")
  BY <1>1 DEF Encloses
<1>4. se \in Seq(Seq(S)) /\ Len(se) = Len(ls) /\ Len(ls) \in Nat
      /\ \A k \in 1 .. Len(ls) : Plain(f, ls, k) => se[k] = ls[k]
  <2>1. Len(ls) \in Nat
    OBVIOUS
  <2>2. se \in Seq(Seq(S)) /\ Len(se) = Len(ls)
    BY SearchedLines
  <2>3. \A k \in 1 .. Len(ls) : f.style # "markdown" \/ k \notin Fenced(ls) => Searched(f, ls)[k] = ls[k]
    BY SearchedLines
  <2> QED BY <2>1, <2>2, <2>3 DEF Plain
<1> HIDE DEF se, top, end
<1>5. /\ top \in Nat /\ end \in Nat /\ i \in Nat /\ j \in Nat
      /\ 1 <= top /\ top <= i /\ i < j /\ j <= end /\ end <= Len(ls)
  BY <1>2, <1>4
<1>6. \A k \in 1 .. Len(ls) : ls[k] \in Seq(S)
  BY <1>4
<1>7. /\ LineHasDirective(f, ls[i], "start") /\ LineHasDirective(f, ls[j], "end")
      /\ \A k \in top .. i - 1 : IsAround(ls[k])
      /\ \A k \in j + 1 .. end : IsAround(ls[k])
      /\ top = i \/ IsOnly(ls[top], "open")
  <2>1. se[i] = ls[i] /\ se[j] = ls[j] /\ se[top] = ls[top]
    <3>1. i \in top .. i /\ top \in top .. i /\ j \in j .. end
      BY <1>5
    <3> QED BY <1>2, <3>1
  <2>2. ASSUME NEW k \in top .. i - 1
        PROVE  IsAround(ls[k])
    <3>1. k \in top .. i
      BY <1>5
    <3> QED BY <1>2, <1>3, <3>1
  <2>3. ASSUME NEW k \in j + 1 .. end
        PROVE  IsAround(ls[k])
    <3>1. k \in j .. end
      BY <1>5
    <3> QED BY <1>2, <1>3, <3>1
  <2> QED BY <1>3, <2>1, <2>2, <2>3
<1> DEFINE A == {k \in top .. end : LineHasDirective(f, ls[k], "start")}
           B == {k \in i + 1 .. end : LineHasDirective(f, ls[k], "end")}
           b == Min(B)
<1>8. Min(A) = i
  <2>1. A \in SUBSET Nat /\ i \in A
    BY <1>5, <1>7
  <2>2. ASSUME NEW x \in A
        PROVE  i <= x
    <3> SUFFICES ASSUME x < i
                 PROVE  FALSE
      BY <1>5
    <3>1. x \in top .. i - 1 /\ x \in 1 .. Len(ls) /\ LineHasDirective(f, ls[x], "start")
      BY <1>5
    <3>2. IsAround(ls[x]) /\ ls[x] \in Seq(S)
      BY <1>6, <1>7, <3>1
    <3>3. ls[x] \in Seq(Spacers \cup {"open", "close"})
      BY <3>2, AroundHolds
    <3>4. PICK q \in 1 .. Len(ls[x]) : ls[x][q] = "start"
      BY <3>1, <3>2, DirectiveHolds
    <3>5. ls[x][q] \in Spacers \cup {"open", "close"}
      <4> DEFINE M == Spacers \cup {"open", "close"}
                 l == ls[x]
      <4>1. l \in Seq(M) /\ q \in 1 .. Len(l)
        BY <3>3
      <4> HIDE DEF M, l
      <4>2. l[q] \in M
        BY <4>1
      <4> QED BY <4>2 DEF M, l
    <3> QED BY <3>4, <3>5 DEF Spacers, LineEnds
  <2> HIDE DEF A
  <2> QED BY <2>1, <2>2, LeastIs
<1>9. b \in B /\ b <= j
  <2>1. B \in SUBSET Nat /\ j \in B
    BY <1>5, <1>7
  <2> HIDE DEF B
  <2>2. B # {}
    BY <2>1
  <2>3. Min(B) \in B /\ \A y \in B : Min(B) <= y
    BY <2>1, <2>2, LeastOfNumbers
  <2> QED BY <2>1, <2>3
<1>10. InnerMarkers(f, ls, span) = <<i, b>>
  BY <1>8 DEF InnerMarkers, top, end
<1> HIDE DEF b
<1>11. b \in i + 1 .. end /\ LineHasDirective(f, ls[b], "end") /\ b \in Nat
  BY <1>5, <1>9
<1>12. \A k \in i + 1 .. b - 1 : ls[k] \in Seq(Markup)
  <2>1. i \in 1 .. Len(ls) /\ b \in 1 .. Len(ls)
    BY <1>5, <1>11
  <2> QED BY <1>10, <2>1, PayloadHolds
<1>13. \A k \in top .. b : ls[k] \in Seq(Markup)
  <2> SUFFICES ASSUME NEW k \in top .. b
               PROVE  ls[k] \in Seq(Markup)
    OBVIOUS
  <2>1. k \in 1 .. Len(ls) /\ ls[k] \in Seq(S)
    BY <1>5, <1>6, <1>11
  <2>2. CASE k < i
    <3>1. k \in top .. i - 1
      BY <1>5, <2>2
    <3> QED BY <1>7, <2>1, <3>1, AroundHolds
  <2>3. CASE k = i
    BY <1>7, <2>1, <2>3, DirectiveIsMarkup
  <2>4. CASE k = b
    BY <1>11, <2>1, <2>4, DirectiveIsMarkup
  <2>5. CASE i < k /\ k < b
    <3>1. k \in i + 1 .. b - 1
      BY <1>5, <1>11, <2>5
    <3> QED BY <1>12, <3>1
  <2>6. k < i \/ k = i \/ k = b \/ (i < k /\ k < b)
    BY <1>5, <1>11
  <2> QED BY <2>2, <2>3, <2>4, <2>5, <2>6
<1>14. b = j
  <2> SUFFICES ASSUME b < j
               PROVE  FALSE
    BY <1>5, <1>9, <1>11
  <2>1. b \in i + 1 .. j - 1 /\ b \in 1 .. Len(ls) /\ i \in 1 .. Len(ls) /\ i <= b
    BY <1>5, <1>11
  <2>2. se[b] # ls[b]
    BY <1>3, <1>11, <2>1
  <2>3. ~Plain(f, ls, b)
    BY <1>4, <2>1, <2>2
  <2>4. ASSUME NEW k \in i .. b
        PROVE  k \notin Fences(ls)
    <3> SUFFICES ASSUME k \in Fences(ls)
                 PROVE  FALSE
      OBVIOUS
    <3>1. k \in top .. b /\ k \in 1 .. Len(ls)
      BY <1>5, <1>11
    <3>2. Has(ls[k], "fence")
      BY <3>1, FenceHas
    <3>3. ls[k] \in Seq(Markup)
      BY <1>13, <3>1
    <3> QED BY <3>2, <3>3, NoFence, FenceIsNoMarkup
  <2>5. i \in Fenced(ls) <=> b \in Fenced(ls)
    <3> DEFINE LL == Seq(S)
    <3> HIDE DEF LL
    <3>1. ls \in Seq(LL)
      BY DEF LL
    <3> QED BY <2>1, <2>4, <3>1, FencedAlike
  <2> QED BY <1>2, <2>3, <2>5 DEF Plain
<1>15. \A k \in top .. end : ls[k] \in Seq(Markup)
  <2> SUFFICES ASSUME NEW k \in top .. end
               PROVE  ls[k] \in Seq(Markup)
    OBVIOUS
  <2>1. CASE k <= b
    <3>1. k \in top .. b
      BY <1>5, <1>11, <2>1
    <3> QED BY <1>13, <3>1
  <2>2. CASE b < k
    <3>1. k \in j + 1 .. end /\ k \in 1 .. Len(ls)
      BY <1>5, <1>14, <2>2
    <3>2. IsAround(ls[k]) /\ ls[k] \in Seq(S)
      BY <1>6, <1>7, <3>1
    <3> QED BY <3>2, AroundHolds
  <2> QED BY <1>5, <1>11, <2>1, <2>2
<1>16. ~IsBlank(ls[top])
  <2>0. top \in 1 .. Len(ls)
    BY <1>5
  <2>1. ls[top] \in Seq(S)
    BY <1>6, <2>0
  <2>2. CASE top = i
    BY <1>7, <2>1, <2>2, DirectiveHolds
  <2>3. CASE IsOnly(ls[top], "open")
    <3>1. "open" \notin Spacers /\ "open" \notin Space
      BY DEF Spacers, Space, LineEnds
    <3>2. PICK q \in 1 .. Len(ls[top]) : ls[top][q] = "open"
      BY <2>1, <2>3, <3>1, OnlyHolds DEF Has
    <3>3. IsBlank(ls[top]) <=> \A q2 \in 1 .. Len(ls[top]) : ls[top][q2] \in Space
      BY <2>1, StrippedFound
    <3> QED BY <3>1, <3>2, <3>3
  <2> QED BY <1>7, <2>2, <2>3
<1>17. top \in 1 .. Len(ls) /\ end \in 1 .. Len(ls) /\ top < end
  BY <1>5
<1> QED BY <1>15, <1>16, <1>17 DEF top, end

-----------------------------------------------------------------------------
(* The layout of a header *)

(* The span that is found is a candidate. *)
LEMMA BoundsFound ==
    ASSUME NEW S, NEW t \in Seq(S), NEW f, HeaderBounds(f, t).kind = "span"
    PROVE  HeaderBounds(f, t).span \in Candidates(f, Searched(f, LinesOf(t)))
<1> DEFINE ls == Searched(f, LinesOf(t))
           anchor == Anchor(f, FlattenSeq(ls))
           placed == {s \in Candidates(f, ls) : ValidLocation(s, anchor)}
           found == CHOOSE s \in placed : \A u \in placed : s[1] <= u[1]
<1>1. ls \in Seq(Seq(S))
  <2>1. LinesOf(t) \in Seq(Seq(S))
    BY LinesByCuts
  <2> QED BY <2>1, SearchedLines
<1>2. \A s \in placed : s[1] \in Nat
  <2> SUFFICES ASSUME NEW s \in placed
               PROVE  s[1] \in Nat
    OBVIOUS
  <2>0. s \in Candidates(f, ls)
    OBVIOUS
  <2> DEFINE LL == Seq(S)
  <2>1. ls \in Seq(LL)
    BY <1>1
  <2> HIDE DEF LL, ls
  <2>2. PICK i, j \in 1 .. Len(ls) : Encloses(f, ls, s, i, j)
    BY <2>0, <2>1, CandidateEncloses
  <2>3. s[1] \in 1 .. i
    BY <2>2 DEF Encloses
  <2> QED BY <2>3
<1>3. HeaderBounds(f, t) = IF ~WellPaired(ls) THEN [kind |-> "malformed", span |-> NoSpan]
                           ELSE IF placed = {} THEN [kind |-> "none", span |-> NoSpan]
                           ELSE [kind |-> "span", span |-> found]
  BY DEF HeaderBounds
<1>4. placed # {} /\ HeaderBounds(f, t).span = found
  <2> HIDE DEF ls, anchor, placed, found
  <2> QED BY <1>3
<1>5. placed \subseteq Candidates(f, ls)
  OBVIOUS
<1> HIDE DEF placed
<1>6. \E s \in placed : \A u \in placed : s[1] <= u[1]
  <2> DEFINE T == {s[1] : s \in placed}
  <2>1. T \in SUBSET Nat /\ T # {}
    BY <1>2, <1>4
  <2>2. PICK s \in placed : s[1] = Min(T) /\ \A y \in T : Min(T) <= y
    <3> DEFINE m == Min(T)
    <3>1. m \in T /\ \A y \in T : m <= y
      <4> HIDE DEF T
      <4> QED BY <2>1, LeastOfNumbers
    <3> HIDE DEF m
    <3> QED BY <3>1 DEF m
  <2>3. \A u \in placed : u[1] \in T
    OBVIOUS
  <2> QED BY <2>2, <2>3
<1>7. found \in placed
  BY <1>6
<1> QED BY <1>4, <1>5, <1>7 DEF ls

(* A line that _wrap_line lays out is markup if its content is. *)
LEMMA WrapTyped ==
    ASSUME NEW f, NEW nl \in LineEnds, NEW indent \in Seq(Markup), NEW content \in Seq(Markup)
    PROVE  WrapLine(f, nl, indent, content) \in Seq(Markup)
<1> DEFINE prefix == IF f.style \in {"line", "cblock"} THEN <<"prefix">> ELSE <<>>
           space == IF prefix = <<>> \/ content = <<>> THEN <<>> ELSE <<"sp">>
           M == Markup
<1>1. "prefix" \in M /\ "sp" \in M /\ nl \in M
  BY DEF Markup, Space, LineEnds
<1> HIDE DEF M
<1>2. <<"prefix">> \in Seq(M) /\ <<"sp">> \in Seq(M) /\ <<nl>> \in Seq(M)
  BY <1>1, OneTyped
<1>3. <<>> \in Seq(M)
  BY NoneTyped
<1>4. prefix \in Seq(M)
  BY <1>2, <1>3
<1> HIDE DEF prefix
<1>5. space \in Seq(M)
  BY <1>2, <1>3
<1> HIDE DEF space
<1>6. indent \in Seq(M) /\ content \in Seq(M)
  BY DEF M
<1>7. WrapLine(f, nl, indent, content) = indent \o prefix \o space \o content \o <<nl>>
  BY DEF WrapLine, prefix, space
<1> DEFINE end == <<nl>>
<1>8. end \in Seq(M)
  BY <1>2
<1> HIDE DEF end
<1>9. indent \o prefix \o space \o content \o end \in Seq(M)
  BY <1>4, <1>5, <1>6, <1>8, ConcatTyped
<1> QED BY <1>7, <1>9 DEF M, end

(* A header that is laid out is markup. *)
LEMMA RenderedTyped ==
    ASSUME NEW f, NEW nl \in LineEnds, NEW indent \in Seq(Markup), NEW v \in FieldValues
    PROVE  RenderedHeader(f, nl, indent, v) \in Seq(Seq(Markup))
<1> DEFINE M == Markup
           T == Seq(M)
<1>1. "start" \in M /\ "end" \in M /\ "open" \in M /\ "close" \in M /\ "sp" \in M /\ nl \in M /\ v \in M
  BY DEF Markup, Space, LineEnds
<1>2. <<"start">> \in Seq(M) /\ <<"end">> \in Seq(M) /\ <<>> \in Seq(M) /\ <<"sp", "sp", v>> \in Seq(M)
      /\ <<"open", nl>> \in Seq(M) /\ <<"close", nl>> \in Seq(M)
  <2> HIDE DEF M
  <2> QED BY <1>1, ThreeTyped, NoneTyped
<1>3. \A c \in Seq(M) : WrapLine(f, nl, indent, c) \in T
  BY WrapTyped
<1>4. WrapLine(f, nl, indent, <<"start">>) \in T /\ WrapLine(f, nl, indent, <<"end">>) \in T
      /\ WrapLine(f, nl, indent, <<>>) \in T /\ WrapLine(f, nl, indent, <<"sp", "sp", v>>) \in T
  <2> HIDE DEF T, M
  <2> QED BY <1>2, <1>3
<1>5. indent \o <<"open", nl>> \in T /\ indent \o <<"close", nl>> \in T
  <2>1. indent \in Seq(M)
    OBVIOUS
  <2> HIDE DEF M
  <2> QED BY <1>2, <2>1, ConcatTyped
<1> HIDE DEF T, M
<1>6. Delimiter(f, nl, indent, "open") \in Seq(T) /\ Delimiter(f, nl, indent, "close") \in Seq(T)
  BY <1>5, OneTyped, NoneTyped DEF Delimiter
<1>7. Preamble(f, nl, indent) \in Seq(T)
  <2> DEFINE w == <<WrapLine(f, nl, indent, <<"start">>), WrapLine(f, nl, indent, <<>>)>>
  <2>1. w \in Seq(T)
    BY <1>4, ThreeTyped
  <2> HIDE DEF w
  <2>2. Delimiter(f, nl, indent, "open") \o w \in Seq(T)
    BY <1>6, <2>1, ConcatTyped
  <2> QED BY <2>2 DEF w, Preamble
<1>8. Postamble(f, nl, indent) \in Seq(T)
  <2> DEFINE w == <<WrapLine(f, nl, indent, <<>>), WrapLine(f, nl, indent, <<"end">>)>>
  <2>1. w \in Seq(T)
    BY <1>4, ThreeTyped
  <2> HIDE DEF w
  <2>2. w \o Delimiter(f, nl, indent, "close") \in Seq(T)
    BY <1>6, <2>1, ConcatTyped
  <2> QED BY <2>2 DEF w, Postamble
<1>9. RenderedHeader(f, nl, indent, v) \in Seq(T)
  <2> DEFINE w == <<WrapLine(f, nl, indent, <<"sp", "sp", v>>)>>
             a == Preamble(f, nl, indent)
             b == Postamble(f, nl, indent)
  <2>1. w \in Seq(T)
    BY <1>4, OneTyped
  <2>2. a \in Seq(T) /\ b \in Seq(T)
    BY <1>7, <1>8
  <2>3. RenderedHeader(f, nl, indent, v) = a \o w \o b
    BY DEF RenderedHeader
  <2> HIDE DEF a, b, w
  <2>4. a \o w \o b \in Seq(T)
    BY <2>1, <2>2, ConcatTyped
  <2> QED BY <2>3, <2>4
<1> QED BY <1>9 DEF T, M

(* The line at a position is one line or none. *)
LEMMA LinesAtTyped ==
    ASSUME NEW T, NEW ls \in Seq(T), NEW i
    PROVE  LineAt(ls, i) \in Seq(T) /\ Len(LineAt(ls, i)) \in {0, 1}
<1>1. CASE i \in DOMAIN ls
  <2>1. ls[i] \in T
    BY <1>1
  <2>2. <<ls[i]>> \in Seq(T) /\ Len(<<ls[i]>>) = 1
    BY <2>1, OneTyped
  <2> QED BY <1>1, <2>2 DEF LineAt
<1>2. CASE i \notin DOMAIN ls
  BY <1>2 DEF LineAt
<1> QED BY <1>1, <1>2

(* The line ends of lines are line ends. *)
LEMMA EndsOnly ==
    ASSUME NEW S, NEW ls \in Seq(Seq(S))
    PROVE  FlattenSeq([i \in DOMAIN ls |-> EndOf(ls[i])]) \in Seq(LineEnds)
<1> DEFINE g == [i \in DOMAIN ls |-> EndOf(ls[i])]
<1>1. DOMAIN ls = 1 .. Len(ls) /\ Len(ls) \in Nat /\ \A i \in 1 .. Len(ls) : ls[i] \in Seq(S)
  OBVIOUS
<1>2. \A i \in 1 .. Len(ls) : EndOf(ls[i]) \in Seq(S \cap LineEnds)
  BY <1>1, WithinOnly DEF EndOf
<1>3. S \cap LineEnds \subseteq LineEnds
  OBVIOUS
<1>4. \A i \in 1 .. Len(ls) : EndOf(ls[i]) \in Seq(LineEnds)
  BY <1>2, <1>3, SeqWider
<1> DEFINE n == Len(ls)
<1>5. g \in [1 .. n -> Seq(LineEnds)] /\ n \in Nat
  <2>1. g = [i \in 1 .. n |-> EndOf(ls[i])]
    BY <1>1
  <2> HIDE DEF g
  <2> QED BY <1>1, <1>4, <2>1
<1> HIDE DEF g, n
<1>6. g \in Seq(Seq(LineEnds))
  BY <1>5, FunctionIsSeq
<1>7. FlattenSeq(g) \in Seq(LineEnds)
  BY <1>6, FlattenTyped
<1> QED BY <1>7 DEF g

(* The dominant newline is a line end. *)
LEMMA DominantIsEnd ==
    ASSUME NEW S, NEW ls \in Seq(Seq(S))
    PROVE  DominantNewline(ls) \in LineEnds
<1> DEFINE ends == FlattenSeq([i \in DOMAIN ls |-> EndOf(ls[i])])
           Of(e) == {i \in DOMAIN ends : ends[i] = e}
           best == {i \in DOMAIN ends : \A e \in LineEnds : Cardinality(Of(e)) <= Cardinality(Of(ends[i]))}
<1>1. ends \in Seq(LineEnds)
  BY EndsOnly
<1>2. DominantNewline(ls) = IF ends = <<>> THEN "lf" ELSE ends[Min(best)]
  BY DEF DominantNewline
<1>3. CASE ends = <<>>
  BY <1>2, <1>3 DEF LineEnds
<1>4. CASE ends # <<>>
  <2> HIDE DEF ends
  <2>1. 1 \in DOMAIN ends /\ DOMAIN ends = 1 .. Len(ends) /\ Len(ends) \in Nat
        /\ \A i \in DOMAIN ends : ends[i] \in LineEnds
    BY <1>1, <1>4
  <2>2. \A e : Cardinality(Of(e)) \in Nat /\ (Cardinality(Of(e)) > 0 => Of(e) # {})
    <3> SUFFICES ASSUME NEW e
                 PROVE  Cardinality(Of(e)) \in Nat /\ (Cardinality(Of(e)) > 0 => Of(e) # {})
      OBVIOUS
    <3> DEFINE I == Of(e)
               n == Len(ends)
    <3>1. I \in SUBSET (1 .. n) /\ n \in Nat
      BY <2>1
    <3> HIDE DEF I, n
    <3>2. Cardinality(I) \in Nat /\ (Cardinality(I) > 0 => I # {})
      BY <3>1, CountsAreNumbers
    <3> QED BY <3>2 DEF I
  <2> DEFINE C(e) == Cardinality(Of(e))
             x == ends[1]
  <2>3. \E w \in LineEnds : \A e \in LineEnds : C(e) <= C(w)
    <3>1. C("lf") \in Nat /\ C("crlf") \in Nat
      BY <2>2
    <3> HIDE DEF C
    <3>2. C("lf") <= C("crlf") \/ C("crlf") <= C("lf")
      BY <3>1
    <3> QED BY <3>1, <3>2 DEF LineEnds
  <2>4. PICK w \in LineEnds : \A e \in LineEnds : C(e) <= C(w)
    BY <2>3
  <2>5. \E i \in DOMAIN ends : C(ends[i]) = C(w)
    <3>1. CASE C(w) > 0
      <4>1. PICK i \in DOMAIN ends : ends[i] = w
        BY <2>2, <3>1
      <4> QED BY <4>1
    <3>2. CASE ~(C(w) > 0)
      <4>1. C(w) \in Nat /\ C(x) \in Nat /\ C(x) <= C(w)
        BY <2>1, <2>2, <2>4
      <4> HIDE DEF C
      <4>2. C(x) = C(w)
        BY <4>1, <3>2
      <4> QED BY <2>1, <4>2
    <3> QED BY <3>1, <3>2
  <2>6. best # {}
    <3>1. PICK i \in DOMAIN ends : C(ends[i]) = C(w)
      BY <2>5
    <3>2. i \in best
      BY <2>4, <3>1
    <3> QED BY <3>2
  <2>7. Min(best) \in DOMAIN ends
    <3>1. best \in SUBSET DOMAIN ends
      OBVIOUS
    <3> HIDE DEF best
    <3>2. best \in SUBSET Nat
      BY <2>1, <3>1
    <3>3. Min(best) \in best
      BY <2>6, <3>2, LeastOfNumbers
    <3> QED BY <3>1, <3>3
  <2> HIDE DEF best
  <2> QED BY <1>2, <1>4, <2>1, <2>7
<1> QED BY <1>3, <1>4

(* The newline of a header is a line end. *)
LEMMA NewlineIsEnd ==
    ASSUME NEW S, NEW ls \in Seq(Seq(S)), NEW f, NEW span,
           span # NoSpan => span[1] \in 1 .. Len(ls) /\ span[2] \in 1 .. Len(ls)
    PROVE  HeaderNewline(f, ls, span) \in LineEnds
<1> DEFINE anchor == LineAnchor(f, ls)
           near == IF span # NoSpan THEN SubSeq(ls, span[1], span[2])
                   ELSE IF f.style = "xml" THEN <<>>
                   ELSE LineAt(ls, anchor) \o LineAt(ls, anchor + 1)
           ends == FlattenSeq([i \in DOMAIN near |-> EndOf(near[i])])
           T == Seq(S)
<1>1. near \in Seq(T)
  <2> HIDE DEF T, anchor
  <2>0. ls \in Seq(T)
    BY DEF T
  <2>1. CASE span # NoSpan
    <3>1. SubSeq(ls, span[1], span[2]) \in Seq(T)
      BY <2>0, <2>1
    <3> QED BY <2>1, <3>1
  <2>2. <<>> \in Seq(T)
    BY NoneTyped
  <2>3. LineAt(ls, anchor) \o LineAt(ls, anchor + 1) \in Seq(T)
    BY <2>0, LinesAtTyped, ConcatTyped
  <2> QED BY <2>1, <2>2, <2>3
<1> HIDE DEF near
<1>2. ends \in Seq(LineEnds)
  BY <1>1, EndsOnly
<1>3. HeaderNewline(f, ls, span) = IF ends = <<>> THEN DominantNewline(ls) ELSE ends[1]
  BY DEF HeaderNewline, near
<1> HIDE DEF ends
<1>4. CASE ends = <<>>
  BY <1>3, <1>4, DominantIsEnd
<1>5. CASE ends # <<>>
  <2>1. ends[1] \in LineEnds
    BY <1>2, <1>5
  <2> QED BY <1>3, <1>5, <2>1
<1> QED BY <1>4, <1>5

-----------------------------------------------------------------------------
(* The first token of t that is no space is at n, and is the word of a user. *)

\* The first token of t that is no space is at n, and is the word of a user.
BeginsAt(t, n) == n \in 1 .. Len(t) /\ t[n] \notin Markup /\ \A i \in 1 .. n - 1 : t[i] \in Space

\* The first n tokens of t are those of u.
Stays(t, u, n) == n <= Len(u) /\ \A i \in 1 .. n : u[i] = t[i]

\* u is what remains of t or has become of it: the words are the same, and if they begin with one
\* that only space precedes, so they still do.
KeepsWords(S, t, u) == /\ u \in Seq(S) /\ UserWords(u) = UserWords(t)
                       /\ \A n \in Nat : BeginsAt(t, n) => Stays(t, u, n)

(* What is kept twice is kept. *)
LEMMA KeepsTwice ==
    ASSUME NEW S, NEW t \in Seq(S), NEW u, NEW w, KeepsWords(S, t, u), KeepsWords(S, u, w)
    PROVE  KeepsWords(S, t, w)
<1>1. ASSUME NEW n \in Nat, BeginsAt(t, n)
      PROVE  Stays(t, w, n)
  <2>1. Stays(t, u, n) /\ u \in Seq(S)
    BY <1>1 DEF KeepsWords
  <2>2. n \in 1 .. Len(u) /\ \A i \in 1 .. n : u[i] = t[i]
    BY <1>1, <2>1 DEF Stays, BeginsAt
  <2>3. BeginsAt(u, n)
    <3>1. t[n] \notin Markup /\ n \in 1 .. n /\ \A i \in 1 .. n - 1 : t[i] \in Space
      BY <1>1 DEF BeginsAt
    <3> QED BY <2>2, <3>1 DEF BeginsAt
  <2>4. Stays(u, w, n)
    BY <2>3 DEF KeepsWords
  <2> QED BY <2>2, <2>4 DEF Stays
<1> QED BY <1>1 DEF KeepsWords

(* A text keeps itself. *)
LEMMA KeepsItself ==
    ASSUME NEW S, NEW t \in Seq(S)
    PROVE  KeepsWords(S, t, t)
  BY DEF KeepsWords, BeginsAt, Stays

(* A stretch of markup that is not all space may be replaced by any markup. *)
LEMMA SpanReplaced ==
    ASSUME NEW S, Markup \subseteq S, NEW a \in Seq(S), NEW b \in Seq(Markup), NEW x \in Seq(Markup), NEW c \in Seq(S),
           \E j \in 1 .. Len(b) : b[j] \notin Space
    PROVE  KeepsWords(S, a \o b \o c, a \o x \o c)
<1> DEFINE t == a \o b \o c
           u == a \o x \o c
<1>1. b \in Seq(S) /\ x \in Seq(S)
  BY SeqWider
<1>2. t \in Seq(S) /\ u \in Seq(S)
  BY <1>1, ConcatTyped
<1>3. UserWords(t) = UserWords(u)
  <2>1. UserWords(a \o b \o c) = UserWords(a) \o UserWords(c)
    BY WordsKept
  <2>2. UserWords(a \o x \o c) = UserWords(a) \o UserWords(c)
    BY WordsKept
  <2> QED BY <2>1, <2>2
<1>4. /\ Len(a) \in Nat /\ Len(b) \in Nat /\ Len(c) \in Nat /\ Len(x) \in Nat
      /\ Len(t) = Len(a) + Len(b) + Len(c) /\ Len(u) = Len(a) + Len(x) + Len(c)
      /\ \A i \in 1 .. Len(a) : t[i] = a[i] /\ u[i] = a[i]
      /\ \A i \in 1 .. Len(b) : t[Len(a) + i] = b[i]
  <2>1. Len(a) \in Nat /\ Len(b) \in Nat /\ Len(c) \in Nat /\ Len(x) \in Nat
    OBVIOUS
  <2>2. Len(t) = Len(a) + Len(b) + Len(c) /\ Len(u) = Len(a) + Len(x) + Len(c)
    BY <1>1
  <2>3. \A i \in 1 .. Len(a) : t[i] = a[i] /\ u[i] = a[i]
    BY <1>1, <2>1
  <2>4. \A i \in 1 .. Len(b) : t[Len(a) + i] = b[i]
    BY <1>1, <2>1
  <2> QED BY <2>1, <2>2, <2>3, <2>4
<1> HIDE DEF t, u
<1>5. ASSUME NEW n \in Nat, BeginsAt(t, n)
      PROVE  Stays(t, u, n)
  <2>1. n \in 1 .. Len(t) /\ t[n] \notin Markup /\ \A i \in 1 .. n - 1 : t[i] \in Space
    BY <1>5 DEF BeginsAt
  <2>2. n <= Len(a)
    <3> SUFFICES ASSUME ~(n <= Len(a))
                 PROVE  FALSE
      OBVIOUS
    <3>1. PICK j \in 1 .. Len(b) : b[j] \notin Space
      OBVIOUS
    <3>2. t[Len(a) + j] \notin Space
      BY <1>4, <3>1
    <3>3. ~(Len(a) + j \in 1 .. n - 1)
      BY <2>1, <3>2
    <3>4. n - Len(a) \in 1 .. Len(b) /\ Len(a) + (n - Len(a)) = n
      BY <1>4, <3>3
    <3> DEFINE k == n - Len(a)
    <3>5. k \in 1 .. Len(b) /\ Len(a) + k = n
      BY <3>4
    <3> HIDE DEF k
    <3>6. t[n] = b[k]
      BY <1>4, <3>5
    <3>7. b[k] \in Markup
      BY <3>5
    <3> QED BY <2>1, <3>6, <3>7
  <2>3. n <= Len(u) /\ \A i \in 1 .. n : u[i] = t[i]
    BY <1>4, <2>2
  <2> QED BY <2>3 DEF Stays
<1>6. KeepsWords(S, t, u)
  BY <1>2, <1>3, <1>5 DEF KeepsWords
<1> QED BY <1>6 DEF t, u

(* Markup at the end may be dropped. *)
LEMMA SuffixDropped ==
    ASSUME NEW S, Markup \subseteq S, NEW u \in Seq(S), NEW d \in Seq(Markup)
    PROVE  KeepsWords(S, u \o d, u)
<1> DEFINE t == u \o d
<1>1. d \in Seq(S)
  BY SeqWider
<1>2. t \in Seq(S)
  BY <1>1
<1>3. UserWords(t) = UserWords(u)
  <2> DEFINE a == UserWords(u)
             b == UserWords(d)
  <2>1. a \in Seq(S) /\ UserWords(t) = a \o b /\ b = <<>>
    BY <1>1, WordsJoined, WithoutOnly, NoWords DEF UserWords
  <2> HIDE DEF a, b, t
  <2>2. a \o <<>> = a
    BY <2>1
  <2> QED BY <2>1, <2>2 DEF a
<1>4. /\ Len(u) \in Nat /\ Len(d) \in Nat /\ Len(t) = Len(u) + Len(d)
      /\ \A i \in 1 .. Len(u) : t[i] = u[i]
      /\ \A i \in 1 .. Len(d) : t[Len(u) + i] = d[i]
  BY <1>1
<1> HIDE DEF t
<1>5. ASSUME NEW n \in Nat, BeginsAt(t, n)
      PROVE  Stays(t, u, n)
  <2>1. n \in 1 .. Len(t) /\ t[n] \notin Markup
    BY <1>5 DEF BeginsAt
  <2>2. n <= Len(u)
    <3> SUFFICES ASSUME ~(n <= Len(u))
                 PROVE  FALSE
      OBVIOUS
    <3>1. n - Len(u) \in 1 .. Len(d) /\ Len(u) + (n - Len(u)) = n
      BY <1>4, <2>1
    <3>2. t[n] = d[n - Len(u)] /\ d[n - Len(u)] \in Markup
      BY <1>4, <3>1
    <3> QED BY <2>1, <3>2
  <2> QED BY <1>4, <2>2 DEF Stays
<1>6. KeepsWords(S, t, u)
  BY <1>3, <1>5 DEF KeepsWords
<1> QED BY <1>6 DEF t

(* A text of markup only may become any other. *)
LEMMA MarkupReplaced ==
    ASSUME NEW S, Markup \subseteq S, NEW t \in Seq(Markup), NEW u \in Seq(Markup)
    PROVE  KeepsWords(S, t, u)
<1>1. u \in Seq(S) /\ UserWords(u) = UserWords(t)
  BY SeqWider, NoWords
<1>2. \A n \in Nat : ~BeginsAt(t, n)
  BY DEF BeginsAt
<1> QED BY <1>1, <1>2 DEF KeepsWords

-----------------------------------------------------------------------------
(* Lines that are removed *)

\* The lines p .. q are markup and are gone.
Removes(ls, p, q, rest) ==
  /\ p \in 1 .. q /\ q \in 1 .. Len(ls)
  /\ \A k \in p .. q : ls[k] \in Seq(Markup)
  /\ rest = SubSeq(ls, 1, p - 1) \o SubSeq(ls, q + 1, Len(ls))

\* What the stripper takes for a blank line beside a header.
IsMarkedLine(l) == IsPureSpacer(l) \/ IsBareLineEnd(l)

(* Such a line is markup. *)
LEMMA SpacerIsMarkup ==
    ASSUME NEW S, NEW l \in Seq(S), IsMarkedLine(l)
    PROVE  l \in Seq(Markup)
<1>1. CASE IsPureSpacer(l)
  <2>1. l \in Seq(Spacers)
    BY <1>1, SpacerHolds
  <2>2. Spacers \subseteq Markup
    BY FenceIsNoMarkup
  <2> QED BY <2>1, <2>2, SeqWider
<1>2. CASE IsBareLineEnd(l)
  <2>1. Len(l) = 1 /\ l[1] \in LineEnds
    BY <1>2 DEF IsBareLineEnd
  <2>2. l[1] \in Markup
    BY <2>1 DEF Markup, Space
  <2>3. \A i \in 1 .. 1 : l[i] \in Markup
    BY <2>2
  <2> QED BY <2>1, <2>3, PartsOnly
<1> QED BY <1>1, <1>2 DEF IsMarkedLine

(* One more line behind them goes. *)
LEMMA RemovesBehind ==
    ASSUME NEW S, NEW ls \in Seq(Seq(S)), NEW p, NEW q, NEW rest, Removes(ls, p, q, rest),
           p \in DOMAIN rest, IsMarkedLine(rest[p])
    PROVE  Removes(ls, p, q + 1, RemoveAt(rest, p))
<1> DEFINE T == Seq(S)
           n == Len(ls)
           a == SubSeq(ls, 1, p - 1)
           c == SubSeq(ls, q + 1, n)
<1>1. p \in Nat /\ q \in Nat /\ n \in Nat /\ p - 1 \in Nat /\ 1 <= p /\ p <= q /\ q <= n /\ p - 1 <= n /\ p - 1 + 1 = p
  <2>1. n \in Nat
    OBVIOUS
  <2>2. q \in 1 .. n /\ p \in 1 .. q
    BY DEF Removes
  <2>3. q \in Nat /\ q <= n
    BY <2>1, <2>2
  <2>4. p \in Nat /\ 1 <= p /\ p <= q
    BY <2>2, <2>3
  <2> HIDE DEF n
  <2> QED BY <2>1, <2>3, <2>4
<1>2. ls \in Seq(T)
  OBVIOUS
<1>3. rest = a \o c
  BY DEF Removes
<1> HIDE DEF T
<1>4. a \in Seq(T) /\ Len(a) = p - 1 /\ c \in Seq(T) /\ Len(c) = n - q
  <2>1. a \in Seq(T) /\ Len(a) = p - 1
    BY <1>1, <1>2, StartOf
  <2>2. c \in Seq(T) /\ Len(c) = n - q
    BY <1>1, <1>2, StretchAt
  <2> QED BY <2>1, <2>2
<1> HIDE DEF a, c
<1>5. rest \in Seq(T) /\ Len(rest) = p - 1 + (n - q)
      /\ \A i \in 1 .. Len(c) : rest[Len(a) + i] = c[i]
  <2>1. a \o c \in Seq(T) /\ Len(a \o c) = Len(a) + Len(c)
        /\ \A i \in 1 .. Len(c) : (a \o c)[Len(a) + i] = c[i]
    <3>1. a \in Seq(T) /\ c \in Seq(T)
      BY <1>4
    <3> QED BY <3>1, JoinedAt
  <2>2. Len(a \o c) = p - 1 + (n - q)
    <3> DEFINE w == Len(a \o c)
    <3>1. w = Len(a) + Len(c)
      BY <2>1
    <3> HIDE DEF w
    <3>2. w = p - 1 + (n - q)
      BY <1>4, <3>1
    <3> QED BY <3>2 DEF w
  <2> QED BY <1>3, <2>1, <2>2
<1>6. q < n
  <2>1. p \in 1 .. Len(rest)
    BY <1>5
  <2> QED BY <1>1, <1>5, <2>1
<1>7. c # <<>> /\ c[1] = ls[q + 1] /\ SubSeq(c, 1 + 1, Len(c)) = SubSeq(ls, q + 1 + 1, n)
  BY <1>1, <1>2, <1>6, WithoutFirst DEF c, n
<1>8. RemoveAt(rest, p) = a \o SubSeq(ls, q + 1 + 1, n)
  <2>1. RemoveAt(a \o c, Len(a) + 1) = a \o SubSeq(c, 1 + 1, Len(c))
    BY <1>4, <1>7, RemoveBehind
  <2>2. Len(a) + 1 = p
    BY <1>1, <1>4
  <2> QED BY <1>3, <1>7, <2>1, <2>2
<1>9. rest[p] = ls[q + 1]
  <2>1. 1 \in 1 .. Len(c) /\ Len(a) + 1 = p
    BY <1>1, <1>4, <1>6
  <2>2. rest[Len(a) + 1] = c[1]
    BY <1>5, <2>1
  <2> QED BY <1>7, <2>1, <2>2
<1>10. ls[q + 1] \in Seq(Markup)
  <2>1. q + 1 \in 1 .. Len(ls)
    BY <1>1, <1>6
  <2>2. ls[q + 1] \in Seq(S)
    BY <2>1
  <2>3. IsMarkedLine(ls[q + 1])
    BY <1>9
  <2> QED BY <2>2, <2>3, SpacerIsMarkup
<1>11. \A k \in p .. q + 1 : ls[k] \in Seq(Markup)
  <2>1. \A k \in p .. q : ls[k] \in Seq(Markup)
    BY DEF Removes
  <2>2. \A k \in p .. q + 1 : k \in p .. q \/ k = q + 1
    BY <1>1
  <2> QED BY <1>10, <2>1, <2>2
<1>12. p \in 1 .. q + 1 /\ q + 1 \in 1 .. Len(ls)
  BY <1>1, <1>6 DEF n
<1> QED BY <1>8, <1>11, <1>12 DEF Removes, a, n

(* One more line before them goes. *)
LEMMA RemovesBefore ==
    ASSUME NEW S, NEW ls \in Seq(Seq(S)), NEW p \in Nat, NEW q, NEW rest, Removes(ls, p + 1, q, rest),
           p \in DOMAIN rest, IsMarkedLine(rest[p])
    PROVE  Removes(ls, p, q, RemoveAt(rest, p))
<1> DEFINE T == Seq(S)
           n == Len(ls)
           a == SubSeq(ls, 1, p)
           c == SubSeq(ls, q + 1, n)
<1>1. q \in Nat /\ n \in Nat /\ p + 1 <= q /\ q <= n /\ p <= n /\ p + 1 - 1 = p
  <2>1. n \in Nat
    OBVIOUS
  <2>2. q \in 1 .. n /\ p + 1 \in 1 .. q
    BY DEF Removes
  <2>3. q \in Nat /\ q <= n
    BY <2>1, <2>2
  <2>4. p + 1 <= q
    BY <2>2, <2>3
  <2> HIDE DEF n
  <2> QED BY <2>1, <2>3, <2>4
<1>2. ls \in Seq(T)
  OBVIOUS
<1>3. rest = a \o c
  <2>1. rest = SubSeq(ls, 1, p + 1 - 1) \o c
    BY DEF Removes
  <2> HIDE DEF c
  <2> QED BY <2>1, SameStartAs
<1> HIDE DEF T
<1>4. a \in Seq(T) /\ Len(a) = p /\ c \in Seq(T) /\ Len(c) = n - q /\ \A i \in 1 .. p : a[i] = ls[i]
  <2>1. a \in Seq(T) /\ Len(a) = p /\ \A i \in 1 .. p : a[i] = ls[i]
    BY <1>1, <1>2, StartOf
  <2>2. c \in Seq(T) /\ Len(c) = n - q
    BY <1>1, <1>2, StretchAt
  <2> QED BY <2>1, <2>2
<1> HIDE DEF a, c
<1>5. rest \in Seq(T) /\ \A i \in 1 .. Len(a) : rest[i] = a[i]
  BY <1>3, <1>4, JoinedAt
<1>6. p \in 1 .. p /\ 1 <= p
  <2>1. p \in 1 .. Len(rest)
    BY <1>5
  <2> QED BY <2>1
<1>7. RemoveAt(rest, p) = SubSeq(a, 1, p - 1) \o c
  <2>1. a # <<>>
    <3> SUFFICES ASSUME a = <<>> PROVE FALSE
      OBVIOUS
    <3>1. Len(a) = 0
      OBVIOUS
    <3> QED BY <3>1, <1>4, <1>6
  <2>2. RemoveAt(a \o c, Len(a)) = SubSeq(a, 1, Len(a) - 1) \o c
    BY <1>4, <2>1, RemoveLast
  <2>3. Len(a) = p
    BY <1>4
  <2> QED BY <1>3, <2>2, <2>3
<1>8. SubSeq(a, 1, p - 1) = SubSeq(ls, 1, p - 1)
  <2> DEFINE r == p - 1
             x == SubSeq(a, 1, r)
             y == SubSeq(ls, 1, r)
  <2>1. r \in Nat /\ r <= Len(a) /\ r <= Len(ls) /\ r <= p
    BY <1>1, <1>4, <1>6
  <2> HIDE DEF r
  <2>2. x \in Seq(T) /\ Len(x) = r /\ \A i \in 1 .. r : x[i] = a[i]
    BY <1>4, <2>1, StartOf
  <2>3. y \in Seq(T) /\ Len(y) = r /\ \A i \in 1 .. r : y[i] = ls[i]
    BY <1>2, <2>1, StartOf
  <2>4. \A i \in 1 .. r : i \in 1 .. p
    BY <2>1
  <2> HIDE DEF x, y
  <2>5. x = y
    BY <1>4, <2>2, <2>3, <2>4, SeqEqual
  <2> QED BY <2>5 DEF x, y, r
<1>9. ls[p] \in Seq(Markup)
  <2>1. p \in 1 .. Len(ls)
    BY <1>1, <1>6
  <2>2. ls[p] \in Seq(S)
    BY <2>1
  <2>3. IsMarkedLine(ls[p])
    BY <1>4, <1>5, <1>6
  <2> QED BY <2>2, <2>3, SpacerIsMarkup
<1>10. \A k \in p .. q : ls[k] \in Seq(Markup)
  <2>1. \A k \in p + 1 .. q : ls[k] \in Seq(Markup)
    BY DEF Removes
  <2>2. \A k \in p .. q : k \in p + 1 .. q \/ k = p
    BY <1>1
  <2> QED BY <1>9, <2>1, <2>2
<1>11. p \in 1 .. q /\ q \in 1 .. Len(ls)
  BY <1>1, <1>6 DEF n
<1> QED BY <1>7, <1>8, <1>10, <1>11 DEF Removes, c, n

(* A header belongs somewhere between the lines, and below a shebang. *)
LEMMA AnchorFound ==
    ASSUME NEW T, NEW ls \in Seq(T), NEW f
    PROVE  /\ LineAnchor(f, ls) \in 0 .. Len(ls)
           /\ f.shebang /\ ls # <<>> /\ ls[1][1] = "shebang" => LineAnchor(f, ls) >= 1
<1> DEFINE shebang == f.shebang /\ ls # <<>> /\ ls[1][1] = "shebang"
           more == f.coding /\ Len(ls) > 1 /\ "coding" \in ToSet(ls[2])
           prolog == IF ~shebang THEN 0 ELSE IF more THEN 2 ELSE 1
           blank == shebang /\ prolog < Len(ls) /\ IsPureSpacer(ls[prolog + 1])
<1>1. LineAnchor(f, ls) = IF blank THEN prolog + 1 ELSE prolog
  BY DEF LineAnchor
<1>2. Len(ls) \in Nat /\ (shebang => Len(ls) >= 1) /\ (more => Len(ls) >= 2)
  <2>1. Len(ls) \in Nat /\ (ls # <<>> => Len(ls) >= 1)
    OBVIOUS
  <2> QED BY <2>1
<1>3. blank => prolog < Len(ls)
  OBVIOUS
<1> HIDE DEF blank
<1>4. prolog \in 0 .. Len(ls) /\ (shebang => prolog >= 1)
  <2> HIDE DEF shebang, more
  <2> QED BY <1>2
<1> HIDE DEF prolog
<1>5. (IF blank THEN prolog + 1 ELSE prolog) \in 0 .. Len(ls)
      /\ (shebang => (IF blank THEN prolog + 1 ELSE prolog) >= 1)
  <2> HIDE DEF shebang
  <2> QED BY <1>2, <1>3, <1>4
<1> QED BY <1>1, <1>5

(* Lines of markup, one of them not blank, make a text of markup that is not all space. *)
LEMMA MarkupLines ==
    ASSUME NEW S, NEW ls \in Seq(Seq(S)), NEW p \in Nat \ {0}, NEW q \in Nat, p <= q, q <= Len(ls),
           \A k \in p .. q : ls[k] \in Seq(Markup), \E k \in p .. q : ~IsBlank(ls[k])
    PROVE  /\ SubSeq(ls, p, q) \in Seq(Seq(Markup))
           /\ FlattenSeq(SubSeq(ls, p, q)) \in Seq(Markup)
           /\ \E j \in 1 .. Len(FlattenSeq(SubSeq(ls, p, q))) : FlattenSeq(SubSeq(ls, p, q))[j] \notin Space
<1> DEFINE m == p - 1
           b == SubSeq(ls, p, q)
           M == Seq(Markup)
           t == FlattenSeq(b)
<1>1. m \in Nat /\ m <= q /\ m + 1 = p /\ q - m \in Nat
  OBVIOUS
<1>2. Len(b) = q - m /\ \A i \in 1 .. q - m : b[i] = ls[m + i]
  <2> DEFINE T == Seq(S)
  <2> HIDE DEF T
  <2>1. ls \in Seq(T)
    BY DEF T
  <2> HIDE DEF m
  <2>2. Len(SubSeq(ls, m + 1, q)) = q - m /\ \A i \in 1 .. q - m : SubSeq(ls, m + 1, q)[i] = ls[m + i]
    BY <1>1, <2>1, StretchAt
  <2> QED BY <1>1, <2>2
<1>3. b \in Seq(M)
  <2>1. \A i \in 1 .. q - m : ls[m + i] \in M
    <3> SUFFICES ASSUME NEW i \in 1 .. q - m
                 PROVE  ls[m + i] \in M
      OBVIOUS
    <3>1. m + i \in p .. q
      BY <1>1
    <3> QED BY <3>1
  <2>2. b \in Seq(Seq(S))
    OBVIOUS
  <2> HIDE DEF b, M, m
  <2>3. \A i \in 1 .. q - m : b[i] \in M
    BY <1>2, <2>1
  <2> QED BY <1>1, <1>2, <2>2, <2>3, PartsOnly
<1> HIDE DEF b, m, t
<1>4. t \in Seq(Markup)
  BY <1>3, FlattenTyped DEF t
<1>5. \E j \in 1 .. Len(t) : t[j] \notin Space
  <2>1. PICK k \in p .. q : ~IsBlank(ls[k])
    OBVIOUS
  <2> DEFINE r == k - m
  <2>2. r \in 1 .. Len(b) /\ m + r = k
    BY <1>1, <1>2
  <2> HIDE DEF r
  <2>3. b[r] = ls[k]
    BY <1>2, <2>2
  <2>4. ls[k] \in Seq(Markup)
    OBVIOUS
  <2>5. PICK a \in 1 .. Len(ls[k]) : ls[k][a] \notin Space
    <3>1. ~IsBlank(ls[k]) => \E a \in 1 .. Len(ls[k]) : ls[k][a] \notin Space
      BY <2>4, StrippedFound
    <3> QED BY <2>1, <3>1
  <2>6. /\ UpTo(b, r - 1) \in Nat
        /\ UpTo(b, r) = UpTo(b, r - 1) + Len(b[r])
        /\ UpTo(b, r) <= Len(t)
        /\ \A i \in 1 .. Len(b[r]) : t[UpTo(b, r - 1) + i] = b[r][i]
    <3>1. /\ UpTo(b, r - 1) \in Nat
          /\ UpTo(b, r) = UpTo(b, r - 1) + Len(b[r])
          /\ UpTo(b, r) <= Len(FlattenSeq(b))
          /\ \A i \in 1 .. Len(b[r]) : FlattenSeq(b)[UpTo(b, r - 1) + i] = b[r][i]
      BY <1>3, <2>2, PartAt
    <3> QED BY <3>1 DEF t
  <2> DEFINE x == UpTo(b, r - 1)
             l == ls[k]
  <2>7. x + a \in 1 .. Len(t)
    <3>1. x \in Nat /\ x + Len(l) <= Len(t) /\ a \in 1 .. Len(l) /\ Len(l) \in Nat /\ Len(t) \in Nat
      BY <1>4, <2>3, <2>4, <2>5, <2>6
    <3> HIDE DEF x, l
    <3> QED BY <3>1
  <2>8. t[x + a] = l[a]
    BY <2>3, <2>5, <2>6
  <2> QED BY <2>5, <2>7, <2>8
<1> QED BY <1>3, <1>4, <1>5 DEF b, t

(* Lines of markup, one of them not blank, may be replaced by any others. *)
LEMMA LinesReplaced ==
    ASSUME NEW S, Markup \subseteq S, NEW ls \in Seq(Seq(S)), NEW p \in Nat \ {0}, NEW q \in Nat, p <= q, q <= Len(ls),
           \A k \in p .. q : ls[k] \in Seq(Markup), \E k \in p .. q : ~IsBlank(ls[k]),
           NEW x \in Seq(Seq(Markup))
    PROVE  KeepsWords(S, FlattenSeq(ls), FlattenSeq(SubSeq(ls, 1, p - 1) \o x \o SubSeq(ls, q + 1, Len(ls))))
<1> DEFINE a == SubSeq(ls, 1, p - 1)
           b == SubSeq(ls, p, q)
           c == SubSeq(ls, q + 1, Len(ls))
<1>1. a \in Seq(Seq(S)) /\ c \in Seq(Seq(S))
  <2> DEFINE T == Seq(S)
             m == p - 1
  <2>1. ls \in Seq(T) /\ m \in Nat /\ m <= Len(ls) /\ Len(ls) \in Nat /\ Len(ls) <= Len(ls)
    OBVIOUS
  <2> HIDE DEF T, m
  <2>2. SubSeq(ls, 1, m) \in Seq(T)
    BY <2>1, StartOf
  <2>3. c \in Seq(T)
    BY <2>1, StretchAt
  <2> QED BY <2>2, <2>3 DEF T, m
<1>2. x \in Seq(Seq(S))
  <2>1. Seq(Markup) \subseteq Seq(S)
    BY SeqWider
  <2> DEFINE K == Seq(Markup)
             T == Seq(S)
  <2> HIDE DEF K, T
  <2>2. K \subseteq T /\ x \in Seq(K)
    BY <2>1 DEF K, T
  <2>3. x \in Seq(T)
    BY <2>2, SeqWider
  <2> QED BY <2>3 DEF T
<1>3. FlattenSeq(ls) = FlattenSeq(a) \o FlattenSeq(b) \o FlattenSeq(c)
  <2>1. q \in 0 .. Len(ls) /\ p <= q + 1
    OBVIOUS
  <2> QED BY <2>1, LinesCut
<1>4. FlattenSeq(a \o x \o c) = FlattenSeq(a) \o FlattenSeq(x) \o FlattenSeq(c)
  <2> HIDE DEF a, c
  <2>1. FlattensThree(a, x, c)
    BY <1>1, <1>2, ThreeFlattened
  <2> QED BY <2>1 DEF FlattensThree
<1>5. /\ FlattenSeq(b) \in Seq(Markup)
      /\ \E j \in 1 .. Len(FlattenSeq(b)) : FlattenSeq(b)[j] \notin Space
  BY MarkupLines
<1> HIDE DEF a, b, c
<1>6. FlattenSeq(a) \in Seq(S) /\ FlattenSeq(c) \in Seq(S)
  BY <1>1, FlattenTyped
<1>7. FlattenSeq(x) \in Seq(Markup)
  BY FlattenTyped
<1> DEFINE ta == FlattenSeq(a)
           tb == FlattenSeq(b)
           tc == FlattenSeq(c)
           tx == FlattenSeq(x)
<1>8. KeepsWords(S, ta \o tb \o tc, ta \o tx \o tc)
  <2> HIDE DEF ta, tb, tc, tx
  <2> QED BY <1>5, <1>6, <1>7, SpanReplaced DEF ta, tb, tc, tx
<1>9. KeepsWords(S, FlattenSeq(ls), FlattenSeq(a \o x \o c))
  BY <1>3, <1>4, <1>8
<1> QED BY <1>9 DEF a, c

\* Lines with a header among them are gone.
Removed(S, ls, p, q, rest) ==
  /\ Removes(ls, p, q, rest) /\ p \in Nat \ {0} /\ q \in Nat
  /\ \E k \in p .. q : ~IsBlank(ls[k])

(* A blank line behind the header may go as well, whichever way it is recognised. *)
LEMMA RemovedMore ==
    ASSUME NEW S, NEW ls \in Seq(Seq(S)), NEW p, NEW q, NEW rest, Removed(S, ls, p, q, rest)
    PROVE  /\ \E r \in Nat : Removed(S, ls, p, r, DropSpacer(rest, p))
           /\ \E r \in Nat : Removed(S, ls, p, r, DropBareLineEnd(rest, p))
<1>1. Removes(ls, p, q, rest) /\ p \in Nat \ {0} /\ q \in Nat
  BY DEF Removed
<1>2. ASSUME p \in DOMAIN rest, IsMarkedLine(rest[p])
      PROVE  Removed(S, ls, p, q + 1, RemoveAt(rest, p))
  <2>1. Removes(ls, p, q + 1, RemoveAt(rest, p))
    BY <1>1, <1>2, RemovesBehind
  <2>2. PICK k \in p .. q : ~IsBlank(ls[k])
    BY DEF Removed
  <2>3. k \in p .. q + 1 /\ q + 1 \in Nat
    BY <1>1
  <2> QED BY <1>1, <2>1, <2>2, <2>3 DEF Removed
<1>3. q + 1 \in Nat
  BY <1>1
<1>4. \A d : d = rest \/ (d = RemoveAt(rest, p) /\ p \in DOMAIN rest /\ IsMarkedLine(rest[p]))
             => \E r \in Nat : Removed(S, ls, p, r, d)
  BY <1>1, <1>2, <1>3
<1>5. DropSpacer(rest, p) = rest
      \/ (DropSpacer(rest, p) = RemoveAt(rest, p) /\ p \in DOMAIN rest /\ IsMarkedLine(rest[p]))
  BY DEF DropSpacer, IsMarkedLine
<1>6. DropBareLineEnd(rest, p) = rest
      \/ (DropBareLineEnd(rest, p) = RemoveAt(rest, p) /\ p \in DOMAIN rest /\ IsMarkedLine(rest[p]))
  BY DEF DropBareLineEnd, IsMarkedLine
<1> QED BY <1>4, <1>5, <1>6

(* When lines of a header are gone, the words are kept. *)
LEMMA RemovedKeeps ==
    ASSUME NEW S, Markup \subseteq S, NEW ls \in Seq(Seq(S)), NEW p, NEW q, NEW rest, Removed(S, ls, p, q, rest)
    PROVE  KeepsWords(S, FlattenSeq(ls), FlattenSeq(rest)) /\ rest \in Seq(Seq(S))
<1> DEFINE T == Seq(S)
           a == SubSeq(ls, 1, p - 1)
           c == SubSeq(ls, q + 1, Len(ls))
           x == <<>>
<1>1. /\ p \in Nat \ {0} /\ q \in Nat /\ \E k \in p .. q : ~IsBlank(ls[k])
      /\ p \in 1 .. q /\ q \in 1 .. Len(ls) /\ \A k \in p .. q : ls[k] \in Seq(Markup)
      /\ rest = a \o c
  BY DEF Removed, Removes
<1>2. p <= q /\ q <= Len(ls) /\ Len(ls) \in Nat /\ p - 1 \in Nat /\ p - 1 <= Len(ls)
  <2>1. Len(ls) \in Nat
    OBVIOUS
  <2> QED BY <1>1, <2>1
<1>3. x \in Seq(Seq(Markup))
  BY NoneTyped
<1>4. a \in Seq(T) /\ c \in Seq(T)
  <2> DEFINE m == p - 1
             n == Len(ls)
  <2>1. ls \in Seq(T) /\ m \in Nat /\ m <= Len(ls) /\ n \in Nat /\ n <= Len(ls) /\ q <= n
    BY <1>2
  <2> HIDE DEF T, m, n
  <2>2. SubSeq(ls, 1, m) \in Seq(T)
    BY <2>1, StartOf
  <2>3. SubSeq(ls, q + 1, n) \in Seq(T)
    BY <1>1, <2>1, StretchAt
  <2> QED BY <2>2, <2>3 DEF m, n
<1>5. KeepsWords(S, FlattenSeq(ls), FlattenSeq(a \o x \o c))
  BY <1>1, <1>2, <1>3, LinesReplaced
<1> HIDE DEF a, c, T
<1>6. a \o x = a
  BY <1>4
<1>7. rest \in Seq(T)
  BY <1>1, <1>4, ConcatTyped
<1> QED BY <1>1, <1>5, <1>6, <1>7 DEF T

(* strip_header_block and the stripper remove the header, and blank lines behind it. *)
LEMMA BlockStripped ==
    ASSUME NEW S, NEW ls \in Seq(Seq(S)), NEW f, NEW span,
           span[1] \in 1 .. Len(ls), span[2] \in 1 .. Len(ls), span[1] < span[2],
           \A k \in span[1] .. span[2] : ls[k] \in Seq(Markup), ~IsBlank(ls[span[1]])
    PROVE  \E r \in Nat : Removed(S, ls, span[1], r,
              DropBareLineEnd(IF f.style = "xml" THEN StripXmlHeaderBlock(ls, span) ELSE StripHeaderBlock(ls, span),
                              span[1]))
<1> DEFINE p == span[1]
           q == span[2]
           r0 == SubSeq(ls, 1, p - 1) \o SubSeq(ls, q + 1, Len(ls))
           r1 == DropSpacer(r0, p)
           r2 == DropSpacer(r1, p)
           by == IF f.style = "xml" THEN StripXmlHeaderBlock(ls, span) ELSE StripHeaderBlock(ls, span)
<1>1. Removed(S, ls, p, q, r0)
  <2>1. p \in Nat \ {0} /\ q \in Nat /\ p \in 1 .. q /\ p \in p .. q
    OBVIOUS
  <2> QED BY <2>1 DEF Removed, Removes
<1>2. by = r1 \/ by = r2
  BY DEF StripXmlHeaderBlock, StripHeaderBlock
<1> HIDE DEF r0
<1>3. PICK a \in Nat : Removed(S, ls, p, a, r1)
  BY <1>1, RemovedMore
<1> HIDE DEF r1
<1>4. PICK b \in Nat : Removed(S, ls, p, b, r2)
  BY <1>3, RemovedMore
<1> HIDE DEF r2, by
<1>5. \E r \in Nat : Removed(S, ls, p, r, by)
  BY <1>2, <1>3, <1>4
<1>6. \E r \in Nat : Removed(S, ls, p, r, DropBareLineEnd(by, p))
  <2>1. PICK r \in Nat : Removed(S, ls, p, r, by)
    BY <1>5
  <2> QED BY <2>1, RemovedMore
<1> QED BY <1>6 DEF by, p

(* The blank line before a header goes with it. *)
LEMMA OwnBlankDropped ==
    ASSUME NEW S, NEW t \in Seq(S), NEW f, NEW p, NEW q, NEW rest, Removed(S, LinesOf(t), p, q, rest)
    PROVE  \E a, b \in Nat : Removed(S, LinesOf(t), a, b, WithoutOwnBlank(f, t, p, rest))
<1> DEFINE ls == LinesOf(t)
           upto == SubSeq(ls, 1, Max({0, p - 2}))
           anchor == LineAnchor(f, upto)
           k == anchor + 1
           w == WithoutOwnBlank(f, t, p, rest)
<1>1. ls \in Seq(Seq(S))
  BY LinesByCuts
<1>2. p \in Nat /\ q \in Nat /\ Removes(ls, p, q, rest) /\ p <= q
  <2>1. p \in Nat /\ q \in Nat /\ Removes(ls, p, q, rest)
    BY DEF Removed
  <2> QED BY <2>1 DEF Removes
<1>3. w = rest \/ (w = RemoveAt(rest, k) /\ p = anchor + 2 /\ k \in DOMAIN rest /\ IsMarkedLine(rest[k]))
  BY DEF WithoutOwnBlank, DropBareLineEnd, IsMarkedLine
<1>4. anchor \in Nat
  <2> DEFINE T == Seq(S)
  <2>1. ls \in Seq(T)
    BY <1>1
  <2>2. Max({0, p - 2}) \in 0 .. p
    <3>1. CASE p - 2 >= 0
      <4>1. {0, p - 2} \in SUBSET (0 .. p) /\ {0, p - 2} # {}
        BY <1>2, <3>1
      <4>2. Max({0, p - 2}) \in 0 .. p
        BY <1>2, <4>1, MaxOfCounts
      <4> QED BY <4>2
    <3>2. CASE ~(p - 2 >= 0)
      <4> DEFINE m == Max({0, p - 2})
      <4>1. \E x \in {0, p - 2} : \A y \in {0, p - 2} : x >= y
        BY <1>2, <3>2
      <4>2. m \in {0, p - 2} /\ m >= 0
        BY <4>1 DEF Max
      <4> HIDE DEF m
      <4>3. m \in 0 .. p
        BY <1>2, <4>2
      <4> QED BY <4>3 DEF m
    <3> QED BY <3>1, <3>2
  <2> HIDE DEF T, ls
  <2>3. upto \in Seq(T)
    <3> DEFINE m == Max({0, p - 2})
    <3>1. m \in 0 .. p
      BY <2>2
    <3> HIDE DEF m
    <3>2. m \in Nat /\ m <= Len(ls)
      <4>1. Len(ls) \in Nat
        BY <2>1
      <4>2. q <= Len(ls)
        BY <1>2, <4>1 DEF Removes
      <4> QED BY <1>2, <3>1, <4>1, <4>2
    <3>3. SubSeq(ls, 1, m) \in Seq(T)
      BY <2>1, <3>2, StartOf
    <3> QED BY <3>3 DEF m
  <2> HIDE DEF upto
  <2>4. anchor \in 0 .. Len(upto)
    BY <2>3, AnchorFound
  <2> QED BY <2>4
<1> HIDE DEF anchor, w, ls
<1>5. CASE w = rest
  BY <1>2, <1>5 DEF w, ls
<1>6. CASE w = RemoveAt(rest, k) /\ p = anchor + 2 /\ k \in DOMAIN rest /\ IsMarkedLine(rest[k])
  <2>1. k \in Nat \ {0} /\ p = k + 1
    BY <1>4, <1>6
  <2> HIDE DEF k
  <2>2. Removes(ls, k + 1, q, rest)
    BY <1>2, <2>1
  <2>3. Removes(ls, k, q, RemoveAt(rest, k))
    BY <1>1, <1>2, <1>6, <2>1, <2>2, RemovesBefore
  <2>4. PICK i \in p .. q : ~IsBlank(ls[i])
    BY DEF Removed, ls
  <2>5. i \in k .. q
    BY <1>2, <2>1
  <2>6. Removed(S, ls, k, q, w)
    BY <1>2, <1>6, <2>1, <2>3, <2>4, <2>5 DEF Removed
  <2> QED BY <1>2, <2>1, <2>6 DEF w, ls
<1> QED BY <1>3, <1>5, <1>6

(* The last line end may be dropped. *)
LEMMA LastDropped ==
    ASSUME NEW S, Markup \subseteq S, NEW t \in Seq(S), EndsWithNewline(t)
    PROVE  KeepsWords(S, t, Front(t))
<1> DEFINE n == Len(t)
           u == SubSeq(t, 1, n - 1)
           d == SubSeq(t, n - 1 + 1, n)
<1>1. t # <<>> /\ t[n] \in LineEnds
  BY DEF EndsWithNewline, Last
<1>2. n \in Nat /\ n >= 1 /\ n - 1 \in 0 .. Len(t)
  BY <1>1
<1>3. u \in Seq(S) /\ t = u \o d
  <2> DEFINE k == n - 1
  <2>1. k \in 0 .. Len(t)
    BY <1>2
  <2> HIDE DEF k
  <2>2. SubSeq(t, 1, k) \in Seq(S) /\ t = SubSeq(t, 1, k) \o SubSeq(t, k + 1, Len(t))
    BY <2>1, SplitAt
  <2> QED BY <2>2 DEF k
<1>4. d \in Seq(Markup)
  <2>1. d \in Seq(S) /\ Len(d) = 1 /\ d[1] = t[n]
    <3>1. n - 1 + 1 = n
      BY <1>2
    <3>2. SubSeq(t, n, n) \in Seq(S) /\ Len(SubSeq(t, n, n)) = 1 /\ SubSeq(t, n, n)[1] = t[n]
      BY <1>2
    <3> QED BY <3>1, <3>2
  <2>2. t[n] \in Markup
    BY <1>1 DEF Markup, Space
  <2> HIDE DEF d
  <2>3. \A i \in 1 .. 1 : d[i] \in Markup
    BY <2>1, <2>2
  <2> QED BY <2>1, <2>3, PartsOnly
<1>5. Front(t) = u
  BY DEF Front
<1> HIDE DEF u, d
<1> QED BY <1>3, <1>4, <1>5, SuffixDropped

(* Bare line ends are markup. *)
LEMMA BareLinesOnly ==
    ASSUME NEW S, NEW rest \in Seq(Seq(S)), \A i \in DOMAIN rest : IsBareLineEnd(rest[i])
    PROVE  FlattenSeq(rest) \in Seq(Markup)
<1>1. \A i \in 1 .. Len(rest) : rest[i] \in Seq(Markup)
  <2> SUFFICES ASSUME NEW i \in 1 .. Len(rest)
               PROVE  rest[i] \in Seq(Markup)
    OBVIOUS
  <2>1. rest[i] \in Seq(S) /\ IsBareLineEnd(rest[i])
    OBVIOUS
  <2> QED BY <2>1, SpacerIsMarkup DEF IsMarkedLine
<1>2. rest \in Seq(Seq(Markup))
  <2> DEFINE M == Seq(Markup)
             T == Seq(S)
  <2>1. Len(rest) \in Nat /\ rest \in Seq(T)
    OBVIOUS
  <2> HIDE DEF M, T
  <2>2. \A i \in 1 .. Len(rest) : rest[i] \in M
    BY <1>1 DEF M
  <2>3. rest \in Seq(M)
    BY <2>1, <2>2, PartsOnly
  <2> QED BY <2>3 DEF M
<1> QED BY <1>2, FlattenTyped

(* Stripping keeps the words, and the one at the top where it is. *)
LEMMA StrippedKeeps ==
    ASSUME NEW S, Markup \subseteq S, NEW t \in Seq(S), NEW f
    PROVE  KeepsWords(S, t, StrippedText(f, t))
<1> DEFINE lines == LinesOf(t)
           found == HeaderBounds(f, t)
           at == found.span[1]
           byProcessor == IF f.style = "xml" THEN StripXmlHeaderBlock(lines, found.span)
                          ELSE StripHeaderBlock(lines, found.span)
           dropped == DropBareLineEnd(byProcessor, at)
           rest == WithoutOwnBlank(f, t, at, dropped)
           joined == FlattenSeq(rest)
           bare == \A i \in DOMAIN rest : IsBareLineEnd(rest[i])
           nl == HeaderNewline(f, lines, found.span)
           u == StrippedText(f, t)
<1>1. u = IF ~IsReadable(f, t) \/ found.kind # "span" THEN t
          ELSE IF HeaderHasErrors(f, lines, found.span) THEN t
          ELSE IF bare
               THEN IF EndsWithNewline(t) THEN <<nl>> ELSE <<>>
          ELSE IF EndsWithNewline(joined) /\ ~EndsWithNewline(t) THEN Front(joined)
          ELSE joined
  BY DEF StrippedText
<1>2. CASE u = t
  BY <1>2, KeepsItself
<1>3. CASE found.kind = "span" /\ ~HeaderHasErrors(f, lines, found.span) /\ u # t
  <2>1. lines \in Seq(Seq(S)) /\ FlattenSeq(lines) = t
    BY LinesByCuts, LinesJoined
  <2>2. found.span \in Candidates(f, Searched(f, lines))
    BY <1>3, BoundsFound
  <2> HIDE DEF lines, found
  <2> DEFINE span == found.span
  <2>3. /\ span[1] \in 1 .. Len(lines) /\ span[2] \in 1 .. Len(lines) /\ span[1] < span[2]
        /\ \A k \in span[1] .. span[2] : lines[k] \in Seq(Markup)
        /\ ~IsBlank(lines[span[1]])
    BY <1>3, <2>1, <2>2, SpanHolds
  <2>4. \E r \in Nat : Removed(S, lines, at, r, dropped)
    BY <2>1, <2>3, BlockStripped
  <2>5. \E a, b \in Nat : Removed(S, lines, a, b, rest)
    <3>1. PICK r \in Nat : Removed(S, lines, at, r, dropped)
      BY <2>4
    <3> HIDE DEF dropped
    <3> QED BY <3>1, OwnBlankDropped DEF lines
  <2> HIDE DEF rest
  <2>6. KeepsWords(S, t, joined) /\ rest \in Seq(Seq(S))
    <3>1. PICK a, b \in Nat : Removed(S, lines, a, b, rest)
      BY <2>5
    <3> QED BY <2>1, <3>1, RemovedKeeps
  <2>7. joined \in Seq(S)
    BY <2>6 DEF KeepsWords
  <2>8. CASE bare
    <3>1. joined \in Seq(Markup)
      BY <2>6, <2>8, BareLinesOnly
    <3>2. nl \in LineEnds
      BY <2>1, <2>3, NewlineIsEnd
    <3>3. nl \in Markup
      BY <3>2 DEF Markup, Space
    <3>4. <<nl>> \in Seq(Markup) /\ <<>> \in Seq(Markup)
      <4> HIDE DEF nl
      <4> QED BY <3>3, OneTyped, NoneTyped
    <3> HIDE DEF joined, nl, bare
    <3>5. u = <<nl>> \/ u = <<>>
      BY <1>1, <1>3, <2>8
    <3> HIDE DEF u
    <3>6. u \in Seq(Markup)
      BY <3>4, <3>5
    <3>7. KeepsWords(S, joined, u)
      BY <3>1, <3>6, MarkupReplaced
    <3> QED BY <2>6, <3>7, KeepsTwice DEF joined, u
  <2>9. CASE ~bare
    <3> HIDE DEF joined, bare
    <3>1. (u = Front(joined) /\ EndsWithNewline(joined)) \/ u = joined
      BY <1>1, <1>3, <2>9
    <3> HIDE DEF u
    <3>2. CASE u = joined
      BY <2>6, <3>2 DEF joined, u
    <3>3. CASE u = Front(joined) /\ EndsWithNewline(joined)
      <4>1. KeepsWords(S, joined, u)
        BY <2>7, <3>3, LastDropped
      <4> QED BY <2>6, <4>1, KeepsTwice DEF joined, u
    <3> QED BY <3>1, <3>2, <3>3
  <2> QED BY <2>8, <2>9
<1>4. (found.kind = "span" /\ ~HeaderHasErrors(f, lines, found.span)) \/ u = t
  <2> HIDE DEF lines, found, rest, joined, bare, nl
  <2> QED BY <1>1
<1> QED BY <1>2, <1>3, <1>4

-----------------------------------------------------------------------------
(* Lines that are inserted *)

(* The indentation of a header is space. *)
LEMMA IndentTyped ==
    ASSUME NEW S, NEW l \in Seq(S), NEW f, ~IsBlank(l)
    PROVE  IndentOf(f, l) \in Seq(Markup)
<1> DEFINE E == {i \in DOMAIN l : l[i] \notin Space}
           a == Min(E)
           x == SubSeq(l, 1, a - 1)
<1>1. DOMAIN l = 1 .. Len(l) /\ Len(l) \in Nat
  OBVIOUS
<1>2. E \in SUBSET Nat /\ E # {}
  <2>1. \E i \in 1 .. Len(l) : l[i] \notin Space
    BY StrippedFound
  <2> QED BY <1>1, <2>1
<1>3. a \in E /\ \A y \in E : a <= y
  BY <1>2, LeastOfNumbers
<1>4. IndentOf(f, l) = x \/ IndentOf(f, l) = <<>>
  BY DEF IndentOf
<1> HIDE DEF a
<1>5. x \in Seq(Markup)
  <2> DEFINE m == a - 1
  <2>1. m \in Nat /\ m <= Len(l) /\ \A i \in 1 .. m : i \in DOMAIN l /\ i \notin E
    BY <1>1, <1>3
  <2>2. \A i \in 1 .. m : l[i] \in Markup
    BY <2>1 DEF Markup
  <2> HIDE DEF m
  <2>3. SubSeq(l, 1, m) \in Seq(S) /\ Len(SubSeq(l, 1, m)) = m /\ \A i \in 1 .. m : SubSeq(l, 1, m)[i] = l[i]
    BY <2>1, StartOf
  <2> DEFINE y == SubSeq(l, 1, m)
  <2> HIDE DEF y
  <2>4. \A i \in 1 .. m : y[i] \in Markup
    BY <2>2, <2>3 DEF y
  <2>5. y \in Seq(Markup)
    BY <2>1, <2>3, <2>4, PartsOnly DEF y
  <2> QED BY <2>5 DEF y, m
<1>6. <<>> \in Seq(Markup)
  BY NoneTyped
<1> QED BY <1>4, <1>5, <1>6

\* x is h with up to one blank line before and behind it.
Padded(nl, h, x) == \E a \in {<<>>, <<<<nl>>>>}, b \in {<<>>, <<<<nl>>>>} : x = a \o h \o b

(* prepare_header_for_insertion puts blank lines around the header and changes nothing else. *)
LEMMA PreparedShape ==
    ASSUME NEW f, f.style \in {"line", "cblock", "markdown"}, NEW ls, NEW anchor, NEW h, NEW nl
    PROVE  Padded(nl, h, Prepared(f, ls, anchor, h, nl))
<1> DEFINE next == LineAt(ls, anchor + 1)
           prev == LineAt(ls, anchor)
           padded == CASE f.style = "line"     -> PaddedAsLines(prev, next, nl)
                    [] f.style = "cblock"   -> PaddedAsCBlock(prev, next)
                    [] f.style = "markdown" -> PaddedAsMarkdown(next)
           BlankIf(c) == IF c THEN <<<<nl>>>> ELSE <<>>
<1>1. Prepared(f, ls, anchor, h, nl) = BlankIf(padded[1]) \o h \o BlankIf(padded[2])
  BY DEF Prepared
<1>2. \E c, d \in BOOLEAN : padded = <<c, d>>
  <2> HIDE DEF next, prev
  <2>1. CASE f.style = "line"
    <3>1. padded = PaddedAsLines(prev, next, nl)
      BY <2>1
    <3> QED BY <3>1 DEF PaddedAsLines
  <2>2. CASE f.style = "cblock"
    <3>1. padded = PaddedAsCBlock(prev, next)
      BY <2>2
    <3> QED BY <3>1 DEF PaddedAsCBlock
  <2>3. CASE f.style = "markdown"
    <3>1. padded = PaddedAsMarkdown(next)
      BY <2>3
    <3> QED BY <3>1 DEF PaddedAsMarkdown
  <2> QED BY <2>1, <2>2, <2>3
<1> HIDE DEF padded
<1>3. PICK c \in BOOLEAN, d \in BOOLEAN : padded = <<c, d>>
  BY <1>2
<1>4. padded[1] = c /\ padded[2] = d
  BY <1>3
<1>5. \A e \in BOOLEAN : BlankIf(e) \in {<<>>, <<<<nl>>>>}
  OBVIOUS
<1>6. Prepared(f, ls, anchor, h, nl) = BlankIf(c) \o h \o BlankIf(d)
  BY <1>1, <1>4
<1> HIDE DEF BlankIf
<1> QED BY <1>5, <1>6 DEF Padded

(* The lines without_trailing_blanks leaves out are blank ones at the end. *)
LEMMA TrailingBlanksAre ==
    ASSUME NEW S, NEW ls \in Seq(Seq(S))
    PROVE  \E k \in 0 .. Len(ls) : /\ WithoutTrailingBlanks(ls) = SubSeq(ls, 1, k)
                                  /\ \A i \in k + 1 .. Len(ls) : IsBlank(ls[i])
<1> DEFINE E == {0} \cup {i \in DOMAIN ls : ~IsBlank(ls[i])}
           k == Max(E)
           n == Len(ls)
<1>1. DOMAIN ls = 1 .. n /\ n \in Nat
  OBVIOUS
<1>2. E \in SUBSET (0 .. n) /\ E # {}
  BY <1>1
<1>3. k \in 0 .. n /\ \A y \in E : y <= k
  BY <1>1, <1>2, MaxOfCounts
<1>4. WithoutTrailingBlanks(ls) = SubSeq(ls, 1, k)
  BY DEF WithoutTrailingBlanks
<1> HIDE DEF k
<1>5. \A i \in k + 1 .. n : IsBlank(ls[i])
  <2> SUFFICES ASSUME NEW i \in k + 1 .. n
               PROVE  IsBlank(ls[i])
    OBVIOUS
  <2>1. i \in DOMAIN ls /\ ~(i <= k)
    BY <1>1, <1>3
  <2>2. i \notin E
    BY <1>3, <2>1
  <2> QED BY <2>1, <2>2
<1> HIDE DEF n
<1>6. SubSeq(ls, 1, k) = SubSeq(ls, 1, k)
  OBVIOUS
<1> QED BY <1>3, <1>4, <1>5 DEF n

\* The lines x are inserted behind the first g; result is the text of all lines but for blank
\* ones at the end.
Inserts(S, ls, x, g, result) ==
  LET joined == SubSeq(ls, 1, g) \o x \o SubSeq(ls, g + 1, Len(ls))
  IN  /\ joined \in Seq(Seq(S))
      /\ \E k \in 0 .. Len(joined) :
           /\ result = FlattenSeq(SubSeq(joined, 1, k))
           /\ \A i \in k + 1 .. Len(joined) : IsBlank(joined[i])

(* What the line-oriented planner makes of a text is such an insertion, however it trims the end. *)
LEMMA InsertedShape ==
    ASSUME NEW S, NEW ls \in Seq(Seq(S)), NEW f, NEW h, NEW nl,
           NEW x \in Seq(Seq(S)), Prepared(f, ls, LineAnchor(f, ls), h, nl) = x
    PROVE  Inserts(S, ls, x, LineAnchor(f, ls), InsertedByLine(f, ls, h, nl))
<1> DEFINE anchor == LineAnchor(f, ls)
           T == Seq(S)
           n == Len(ls)
           a == SubSeq(ls, 1, anchor)
           c == SubSeq(ls, anchor + 1, n)
           joined == a \o x \o c
           tail == anchor + Len(x)
           trimmed == DropTrailingBlanks(joined, tail)
           canon == CanonicalBody(trimmed, tail)
           lone == IsLogicallyEmpty(ls)
           m == Len(joined)
<1>1. n \in Nat /\ anchor \in Nat /\ anchor <= n
  <2>1. n \in Nat
    OBVIOUS
  <2>2. anchor \in 0 .. Len(ls)
    <3> DEFINE T2 == Seq(S)
    <3>1. ls \in Seq(T2)
      OBVIOUS
    <3> HIDE DEF T2
    <3> QED BY <3>1, AnchorFound
  <2> QED BY <2>1, <2>2
<1>2. InsertedByLine(f, ls, h, nl) = FlattenSeq(IF lone THEN canon ELSE trimmed)
  BY DEF InsertedByLine
<1> HIDE DEF anchor
<1>3. /\ a \in Seq(T) /\ Len(a) = anchor /\ c \in Seq(T) /\ Len(c) = n - anchor
      /\ \A i \in 1 .. n - anchor : c[i] = ls[anchor + i]
  <2>1. ls \in Seq(T) /\ n <= Len(ls)
    BY <1>1
  <2> HIDE DEF T, n
  <2>2. a \in Seq(T) /\ Len(a) = anchor
    BY <1>1, <2>1, StartOf DEF n
  <2>3. c \in Seq(T) /\ Len(c) = n - anchor /\ \A i \in 1 .. n - anchor : c[i] = ls[anchor + i]
    BY <1>1, <2>1, StretchAt
  <2> QED BY <2>2, <2>3
<1>4. x \in Seq(T)
  OBVIOUS
<1> HIDE DEF a, c
<1>5. /\ joined \in Seq(T) /\ m = tail + (n - anchor)
      /\ \A i \in 1 .. n - anchor : joined[tail + i] = c[i]
  <2> DEFINE ax == a \o x
             r == Len(ax)
             w == Len(c)
  <2>0. a \in Seq(T) /\ c \in Seq(T)
    BY <1>3
  <2>1. ax \in Seq(T) /\ Len(ax) = Len(a) + Len(x)
    <3> HIDE DEF T
    <3> QED BY <1>4, <2>0, JoinedAt
  <2> HIDE DEF ax, T
  <2>2. ax \o c \in Seq(T) /\ Len(ax \o c) = r + w /\ \A i \in 1 .. w : (ax \o c)[r + i] = c[i]
    <3>1. ax \in Seq(T) /\ c \in Seq(T)
      BY <2>0, <2>1
    <3> QED BY <3>1, JoinedAt
  <2>3. ax \o c = joined
    BY DEF ax
  <2>4. r = tail /\ w = n - anchor
    BY <1>3, <2>1
  <2> HIDE DEF r, w, joined, tail
  <2>5. joined \in Seq(T) /\ Len(joined) = r + w /\ \A i \in 1 .. w : joined[r + i] = c[i]
    BY <2>2, <2>3
  <2> QED BY <2>4, <2>5
<1>6. Len(x) \in Nat /\ tail \in Nat /\ m \in Nat /\ tail <= m
  <2>1. Len(x) \in Nat
    OBVIOUS
  <2> HIDE DEF joined, m
  <2> QED BY <1>1, <1>5, <2>1
<1> HIDE DEF joined, tail
<1>7. \E k \in 0 .. m : trimmed = SubSeq(joined, 1, k) /\ (\A i \in k + 1 .. m : IsBlank(joined[i]))
                        /\ (k = m \/ tail >= m)
  <2>1. CASE tail >= m
    <3>1. trimmed = WithoutTrailingBlanks(joined)
      BY <2>1 DEF DropTrailingBlanks
    <3> QED BY <1>5, <2>1, <3>1, TrailingBlanksAre DEF T
  <2>2. CASE ~(tail >= m)
    <3>1. trimmed = joined
      BY <2>2 DEF DropTrailingBlanks
    <3>2. joined = SubSeq(joined, 1, m)
      BY <1>5, SubSeqFull
    <3>3. m \in 0 .. m /\ \A i \in m + 1 .. m : IsBlank(joined[i])
      BY <1>6
    <3> HIDE DEF m
    <3> QED BY <3>1, <3>2, <3>3
  <2> QED BY <2>1, <2>2
<1>8. CASE ~lone
  <2> HIDE DEF trimmed, canon, lone, m
  <2>1. InsertedByLine(f, ls, h, nl) = FlattenSeq(trimmed)
    BY <1>2, <1>8
  <2>20. Inserts(S, ls, x, anchor, InsertedByLine(f, ls, h, nl))
    BY <1>5, <1>7, <2>1 DEF Inserts, joined, a, c, n, m, T
  <2> QED BY <2>20 DEF anchor
<1>9. CASE lone
  <2>1. \A i \in tail + 1 .. m : IsBlank(joined[i])
    <3> SUFFICES ASSUME NEW i \in tail + 1 .. m
                 PROVE  IsBlank(joined[i])
      OBVIOUS
    <3> HIDE DEF m
    <3> DEFINE j == i - tail
    <3>1. j \in 1 .. n - anchor /\ tail + j = i
      BY <1>1, <1>5, <1>6
    <3> HIDE DEF j
    <3>2. joined[i] = ls[anchor + j] /\ anchor + j \in DOMAIN ls
      <4>1. anchor + j \in 1 .. n
        BY <1>1, <3>1
      <4>2. joined[tail + j] = c[j] /\ c[j] = ls[anchor + j]
        BY <1>3, <1>5, <3>1
      <4> QED BY <3>1, <4>1, <4>2
    <3> QED BY <1>9, <3>2 DEF IsLogicallyEmpty
  <2>2. PICK k \in 0 .. m : trimmed = SubSeq(joined, 1, k) /\ (\A i \in k + 1 .. m : IsBlank(joined[i]))
                            /\ (k = m \/ tail >= m)
    BY <1>7
  <2> DEFINE q == Min({tail, Len(trimmed)})
             short == SubSeq(trimmed, 1, q)
  <2>3. trimmed \in Seq(T) /\ Len(trimmed) = k
    <3> HIDE DEF m, T, trimmed
    <3>1. k \in Nat /\ k <= Len(joined)
      BY <1>6 DEF m
    <3> QED BY <1>5, <2>2, <3>1, StartOf
  <2> HIDE DEF trimmed
  <2>4. q \in Nat /\ q <= tail /\ q <= k /\ (q = tail \/ q = k)
    <3> DEFINE Z == {tail, Len(trimmed)}
    <3>1. Z \in SUBSET Nat /\ Z # {}
      BY <1>6, <2>3
    <3>2. Min(Z) \in Z /\ \A y \in Z : Min(Z) <= y
      <4> HIDE DEF Z
      <4> QED BY <3>1, LeastOfNumbers
    <3> QED BY <1>6, <2>3, <3>2
  <2> HIDE DEF q
  <2>5. short \in Seq(T) /\ Len(short) = q /\ short = SubSeq(joined, 1, q)
    <3> HIDE DEF m, T
    <3>1. k \in Nat /\ k <= Len(joined) /\ q <= Len(trimmed)
      BY <1>6, <2>3, <2>4 DEF m
    <3>2. SubSeq(trimmed, 1, q) \in Seq(T) /\ Len(SubSeq(trimmed, 1, q)) = q
      BY <2>3, <2>4, <3>1, StartOf
    <3>3. SubSeq(SubSeq(joined, 1, k), 1, q) = SubSeq(joined, 1, q)
      BY <1>5, <2>4, <3>1, StartOfStart
    <3> QED BY <2>2, <3>2, <3>3
  <2>6. canon = WithoutTrailingBlanks(short)
    BY DEF CanonicalBody, q
  <2> HIDE DEF short, canon
  <2>7. PICK r \in 0 .. Len(short) : /\ WithoutTrailingBlanks(short) = SubSeq(short, 1, r)
                                     /\ \A i \in r + 1 .. Len(short) : IsBlank(short[i])
    BY <2>5, TrailingBlanksAre DEF T
  <2>8. r \in Nat /\ r <= q /\ q <= Len(joined) /\ q <= m
    BY <1>6, <2>4, <2>5, <2>7 DEF m
  <2>9. canon = SubSeq(joined, 1, r)
    <3> HIDE DEF m, T
    <3>1. SubSeq(SubSeq(joined, 1, q), 1, r) = SubSeq(joined, 1, r)
      BY <1>5, <2>4, <2>8, StartOfStart
    <3> QED BY <2>5, <2>6, <2>7, <3>1
  <2>10. \A i \in r + 1 .. m : IsBlank(joined[i])
    <3> HIDE DEF m, T
    <3> SUFFICES ASSUME NEW i \in r + 1 .. m
                 PROVE  IsBlank(joined[i])
      OBVIOUS
    <3>1. CASE i <= q
      <4>1. i \in r + 1 .. Len(short) /\ i \in 1 .. q
        BY <1>6, <2>5, <2>8, <3>1
      <4>2. \A j \in 1 .. q : SubSeq(joined, 1, q)[j] = joined[j]
        BY <1>5, <2>4, <2>8, StartOf
      <4>3. IsBlank(short[i])
        BY <2>7, <4>1
      <4> QED BY <2>5, <4>1, <4>2, <4>3
    <3>2. CASE q < i /\ q = tail
      <4>1. i \in tail + 1 .. m
        BY <1>6, <2>8, <3>2
      <4> QED BY <2>1, <4>1
    <3>3. CASE q < i /\ q = k
      <4>1. i \in k + 1 .. m
        BY <1>6, <2>8, <3>3
      <4> QED BY <2>2, <4>1
    <3> QED BY <1>6, <2>4, <2>8, <3>1, <3>2, <3>3
  <2>11. InsertedByLine(f, ls, h, nl) = FlattenSeq(SubSeq(joined, 1, r))
    <3> HIDE DEF lone
    <3> QED BY <1>2, <1>9, <2>9
  <2>12. r \in 0 .. m
    <3> HIDE DEF m
    <3> QED BY <1>6, <2>4, <2>8
  <2>13. joined \in Seq(T) /\ \E k2 \in 0 .. m :
                    /\ InsertedByLine(f, ls, h, nl) = FlattenSeq(SubSeq(joined, 1, k2))
                    /\ \A i \in k2 + 1 .. m : IsBlank(joined[i])
    BY <1>5, <2>10, <2>11, <2>12
  <2> HIDE DEF m
  <2>20. Inserts(S, ls, x, anchor, InsertedByLine(f, ls, h, nl))
    BY <2>13 DEF Inserts, joined, a, c, n, m, T
  <2> QED BY <2>20 DEF anchor
<1> QED BY <1>8, <1>9

-----------------------------------------------------------------------------
(* The prolog *)

\* A shebang, or an XML declaration behind blanks, is at position n.
Top(f, t, n) ==
  \/ n = 1 /\ Len(t) >= 1 /\ t[1] = "shebang" /\ f.shebang
  \/ f.style = "xml" /\ n \in 1 .. Len(t) /\ t[n] = "decl" /\ \A i \in 1 .. n - 1 : t[i] \in Spacers

(* Neither is markup. *)
LEMMA TopOpens ==
    ASSUME NEW S, NEW f, NEW t \in Seq(S), NEW n, Top(f, t, n)
    PROVE  n \in Nat /\ BeginsAt(t, n)
<1>1. Len(t) \in Nat
  OBVIOUS
<1>2. "shebang" \notin Markup /\ "decl" \notin Markup /\ Spacers \subseteq Space
  BY FieldsAssumption DEF Markup, Space, LineEnds, Spacers
<1> QED BY <1>1, <1>2 DEF Top, BeginsAt

(* It is there as long as the tokens up to it are. *)
LEMMA TopStays ==
    ASSUME NEW S, NEW f, NEW t \in Seq(S), NEW u \in Seq(S), NEW n, Top(f, t, n), Stays(t, u, n)
    PROVE  Top(f, u, n)
<1>1. Len(t) \in Nat /\ Len(u) \in Nat
  OBVIOUS
<1> QED BY <1>1 DEF Top, Stays

(* Where blanks end. *)
LEMMA SpaceEnds ==
    ASSUME NEW S, NEW t \in Seq(S), NEW o \in 0 .. Len(t)
    PROVE  /\ AfterSpace(t, o) \in o .. Len(t)
           /\ \A i \in o + 1 .. AfterSpace(t, o) : t[i] \in Spacers
           /\ AfterSpace(t, o) < Len(t) => t[AfterSpace(t, o) + 1] \notin Spacers
<1> DEFINE n == Len(t)
           E == {i \in o .. n : i = n \/ t[i + 1] \notin Spacers}
           a == Min(E)
<1>1. n \in Nat /\ o \in Nat /\ o <= n
  OBVIOUS
<1>2. AfterSpace(t, o) = a
  BY DEF AfterSpace, Spacers
<1> HIDE DEF n
<1>3. E \in SUBSET Nat /\ E # {}
  <2>1. n \in E
    BY <1>1
  <2> QED BY <1>1, <2>1
<1>4. a \in E /\ \A y \in E : a <= y
  <2> HIDE DEF E
  <2> QED BY <1>3, LeastOfNumbers
<1> HIDE DEF a
<1>5. a \in o .. n /\ (a < n => t[a + 1] \notin Spacers)
  BY <1>1, <1>4
<1>6. ASSUME NEW i \in o + 1 .. a
      PROVE  t[i] \in Spacers
  <2> DEFINE j == i - 1
  <2>1. j \in o .. n /\ ~(a <= j) /\ j # n /\ j + 1 = i
    BY <1>1, <1>5
  <2> HIDE DEF j
  <2>2. j \notin E
    BY <1>4, <2>1
  <2> QED BY <2>1, <2>2
<1> QED BY <1>2, <1>5, <1>6 DEF n

(* They end where something else begins. *)
LEMMA SpaceEndsAt ==
    ASSUME NEW S, NEW t \in Seq(S), NEW n \in 1 .. Len(t), t[n] \notin Spacers,
           \A i \in 1 .. n - 1 : t[i] \in Spacers
    PROVE  AfterSpace(t, 0) = n - 1
<1> DEFINE a == AfterSpace(t, 0)
<1>1. Len(t) \in Nat /\ 0 \in 0 .. Len(t) /\ n \in Nat
  OBVIOUS
<1>2. /\ a \in 0 .. Len(t)
      /\ \A i \in 0 + 1 .. a : t[i] \in Spacers
      /\ a < Len(t) => t[a + 1] \notin Spacers
  BY <1>1, SpaceEnds
<1> HIDE DEF a
<1>3. ~(a >= n)
  <2> SUFFICES ASSUME a >= n PROVE FALSE
    OBVIOUS
  <2>1. n \in 0 + 1 .. a
    BY <1>1, <1>2
  <2> QED BY <1>2, <2>1
<1>4. ~(a + 1 <= n - 1)
  <2> SUFFICES ASSUME a + 1 <= n - 1 PROVE FALSE
    OBVIOUS
  <2>1. a + 1 \in 1 .. n - 1 /\ a < Len(t)
    BY <1>1, <1>2
  <2> QED BY <1>2, <2>1
<1>5. a = n - 1
  BY <1>1, <1>2, <1>3, <1>4
<1> QED BY <1>5 DEF a

(* A text has a prolog if there is one at some position. *)
LEMMA PrologIsTop ==
    ASSUME NEW S, NEW f, NEW t \in Seq(S)
    PROVE  HasProlog(f, t) <=> \E n \in Nat : Top(f, t, n)
<1> DEFINE a == AfterSpace(t, 0)
<1>1. Len(t) \in Nat /\ 0 \in 0 .. Len(t) /\ (t # <<>> <=> Len(t) >= 1)
  OBVIOUS
<1>2. /\ a \in 0 .. Len(t)
      /\ \A i \in 0 + 1 .. a : t[i] \in Spacers
  BY <1>1, SpaceEnds
<1>3. HasProlog(f, t) <=> \/ t # <<>> /\ t[1] = "shebang" /\ f.shebang
                          \/ a < Len(t) /\ t[a + 1] = "decl" /\ f.style = "xml"
  BY DEF HasProlog
<1>4. ASSUME NEW n \in Nat, Top(f, t, n)
      PROVE  HasProlog(f, t)
  <2>1. CASE n = 1 /\ Len(t) >= 1 /\ t[1] = "shebang" /\ f.shebang
    BY <1>1, <1>3, <2>1
  <2>2. CASE f.style = "xml" /\ n \in 1 .. Len(t) /\ t[n] = "decl" /\ \A i \in 1 .. n - 1 : t[i] \in Spacers
    <3>1. "decl" \notin Spacers
      BY DEF Spacers, LineEnds
    <3>2. a = n - 1
      BY <2>2, <3>1, SpaceEndsAt
    <3> HIDE DEF a
    <3>3. a < Len(t) /\ a + 1 = n
      BY <1>1, <2>2, <3>2
    <3> QED BY <1>3, <2>2, <3>3
  <2> QED BY <1>4, <2>1, <2>2 DEF Top
<1> HIDE DEF a
<1>5. ASSUME HasProlog(f, t)
      PROVE  \E n \in Nat : Top(f, t, n)
  <2>1. CASE t # <<>> /\ t[1] = "shebang" /\ f.shebang
    <3>1. Top(f, t, 1)
      BY <1>1, <2>1 DEF Top
    <3> QED BY <3>1
  <2>2. CASE a < Len(t) /\ t[a + 1] = "decl" /\ f.style = "xml"
    <3> DEFINE n == a + 1
    <3>1. n \in 1 .. Len(t) /\ n \in Nat /\ n - 1 = a
      BY <1>1, <1>2, <2>2
    <3>2. \A i \in 1 .. n - 1 : t[i] \in Spacers
      BY <1>2, <3>1
    <3>3. t[n] = "decl"
      BY <2>2
    <3> HIDE DEF n
    <3>4. Top(f, t, n)
      BY <2>2, <3>1, <3>2, <3>3 DEF Top
    <3> QED BY <3>1, <3>4
  <2> QED BY <1>3, <1>5, <2>1, <2>2
<1> QED BY <1>4, <1>5

\* As KeepsWords, for words up to the position top.
KeepsUpTo(S, t, u, top) ==
  /\ u \in Seq(S) /\ UserWords(u) = UserWords(t)
  /\ \A n \in Nat : BeginsAt(t, n) /\ n <= top => Stays(t, u, n)

(* What is kept by an insertion and by what follows is kept. *)
LEMMA KeepsThen ==
    ASSUME NEW S, NEW t \in Seq(S), NEW u, NEW w, NEW top, KeepsUpTo(S, t, u, top), KeepsWords(S, u, w)
    PROVE  KeepsUpTo(S, t, w, top)
<1>1. ASSUME NEW n \in Nat, BeginsAt(t, n), n <= top
      PROVE  Stays(t, w, n)
  <2>1. Stays(t, u, n) /\ u \in Seq(S)
    BY <1>1 DEF KeepsUpTo
  <2>2. n \in 1 .. Len(u) /\ \A i \in 1 .. n : u[i] = t[i]
    BY <1>1, <2>1 DEF Stays, BeginsAt
  <2>3. BeginsAt(u, n)
    <3>1. t[n] \notin Markup /\ n \in 1 .. n /\ \A i \in 1 .. n - 1 : t[i] \in Space
      BY <1>1 DEF BeginsAt
    <3> QED BY <2>2, <3>1 DEF BeginsAt
  <2>4. Stays(u, w, n)
    BY <2>3 DEF KeepsWords
  <2> QED BY <2>2, <2>4 DEF Stays
<1> QED BY <1>1 DEF KeepsWords, KeepsUpTo

(* An insertion of markup keeps the words, and the start up to where it is made. *)
LEMMA MarkupInserted ==
    ASSUME NEW S, Markup \subseteq S, NEW a \in Seq(S), NEW x \in Seq(Markup), NEW c \in Seq(S)
    PROVE  KeepsUpTo(S, a \o c, a \o x \o c, Len(a))
<1> DEFINE t == a \o c
           u == a \o x \o c
<1>1. x \in Seq(S)
  BY SeqWider
<1>2. t \in Seq(S) /\ u \in Seq(S)
  BY <1>1, ConcatTyped
<1>3. UserWords(u) = UserWords(t)
  <2>1. UserWords(a \o x \o c) = UserWords(a) \o UserWords(c)
    BY WordsKept
  <2>2. UserWords(a \o c) = UserWords(a) \o UserWords(c)
    BY WordsJoined
  <2> QED BY <2>1, <2>2
<1>4. /\ Len(a) \in Nat /\ Len(u) >= Len(a) /\ Len(u) \in Nat
      /\ \A i \in 1 .. Len(a) : t[i] = a[i] /\ u[i] = a[i]
  <2>1. \A i \in 1 .. Len(a) : t[i] = a[i]
    BY JoinedAt
  <2>2. Len(u) = Len(a) + Len(x) + Len(c) /\ Len(a) \in Nat /\ Len(x) \in Nat /\ Len(c) \in Nat
    BY <1>1
  <2>3. \A i \in 1 .. Len(a) : u[i] = a[i]
    BY <1>1, <2>2
  <2> HIDE DEF u, t
  <2> QED BY <2>1, <2>2, <2>3
<1> HIDE DEF t, u
<1>5. ASSUME NEW n \in Nat, n <= Len(a)
      PROVE  Stays(t, u, n)
  BY <1>4, <1>5 DEF Stays
<1>6. KeepsUpTo(S, t, u, Len(a))
  BY <1>2, <1>3, <1>5 DEF KeepsUpTo
<1> QED BY <1>6 DEF t, u

\* What UserTextStays asks of two texts.
Keeps(S, f, t, u) == /\ u \in Seq(S) /\ UserWords(u) = UserWords(t)
                     /\ HasProlog(f, t) => HasProlog(f, u)

(* An insertion behind the prolog keeps it. *)
LEMMA KeptUpTo ==
    ASSUME NEW S, NEW f, NEW t \in Seq(S), NEW u, NEW top, KeepsUpTo(S, t, u, top),
           \A n \in Nat : Top(f, t, n) => n <= top
    PROVE  Keeps(S, f, t, u)
<1>1. u \in Seq(S) /\ UserWords(u) = UserWords(t)
  BY DEF KeepsUpTo
<1>2. ASSUME HasProlog(f, t)
      PROVE  HasProlog(f, u)
  <2>1. PICK n \in Nat : Top(f, t, n)
    BY <1>2, PrologIsTop
  <2>2. BeginsAt(t, n) /\ n <= top
    BY <2>1, TopOpens
  <2>3. Stays(t, u, n)
    BY <2>2 DEF KeepsUpTo
  <2>4. Top(f, u, n)
    BY <1>1, <2>1, <2>3, TopStays
  <2> QED BY <1>1, <2>4, PrologIsTop
<1> QED BY <1>1, <1>2 DEF Keeps

(* What keeps the word at the top keeps the prolog. *)
LEMMA KeptWords ==
    ASSUME NEW S, NEW f, NEW t \in Seq(S), NEW u, KeepsWords(S, t, u)
    PROVE  Keeps(S, f, t, u)
<1>1. u \in Seq(S) /\ UserWords(u) = UserWords(t)
  BY DEF KeepsWords
<1>2. ASSUME HasProlog(f, t)
      PROVE  HasProlog(f, u)
  <2>1. PICK n \in Nat : Top(f, t, n)
    BY <1>2, PrologIsTop
  <2>2. BeginsAt(t, n)
    BY <2>1, TopOpens
  <2>3. Stays(t, u, n)
    BY <2>2 DEF KeepsWords
  <2>4. Top(f, u, n)
    BY <1>1, <2>1, <2>3, TopStays
  <2> QED BY <1>1, <2>4, PrologIsTop
<1> QED BY <1>1, <1>2 DEF Keeps

(* The first line of a text begins as the text does. *)
LEMMA FirstLine ==
    ASSUME NEW S, NEW t \in Seq(S), Len(t) >= 1
    PROVE  LinesOf(t) # <<>> /\ LinesOf(t)[1][1] = t[1] /\ Len(LinesOf(t)[1]) >= 1
<1> DEFINE ls == LinesOf(t)
<1>1. ls \in Seq(Seq(S)) /\ FlattenSeq(ls) = t /\ WellCut(ls)
  BY LinesByCuts, LinesJoined, LinesWellCut
<1> HIDE DEF ls
<1>2. Len(ls) >= 1 /\ Len(ls) \in Nat
  <2> SUFFICES ASSUME ~(Len(ls) >= 1) PROVE FALSE
    BY <1>1
  <2>1. Len(ls) = 0 /\ ls = <<>>
    BY <1>1
  <2>2. FlattenSeq(ls) = ls
    BY <2>1, FlattenNothing
  <2> QED BY <1>1, <2>1, <2>2
<1>3. 1 \in 1 .. Len(ls) /\ ls # <<>>
  BY <1>2
<1>4. ls[1] \in Seq(S) /\ ls[1] # <<>> /\ Len(ls[1]) >= 1
  <2>1. ls[1] \in Seq(S) /\ ls[1] # <<>>
    BY <1>1, <1>3 DEF WellCut
  <2> QED BY <2>1
<1>5. ls[1][1] = t[1]
  <2>1. UpTo(ls, 0) = 0
    BY <1>1, ReachesStart
  <2>2. \A i \in 1 .. Len(ls[1]) : FlattenSeq(ls)[UpTo(ls, 1 - 1) + i] = ls[1][i]
    BY <1>1, <1>3, PartAt
  <2>3. 1 \in 1 .. Len(ls[1])
    BY <1>4
  <2>4. FlattenSeq(ls)[UpTo(ls, 0) + 1] = ls[1][1]
    BY <2>2, <2>3
  <2> QED BY <1>1, <2>1, <2>4
<1> QED BY <1>3, <1>4, <1>5 DEF ls

(* A start of the lines that holds the first one is not empty. *)
LEMMA StartHasFirst ==
    ASSUME NEW S, NEW ls \in Seq(Seq(S)), NEW k \in 1 .. Len(ls), Len(ls[1]) >= 1
    PROVE  Len(FlattenSeq(SubSeq(ls, 1, k))) >= 1
<1> DEFINE T == Seq(S)
           s == SubSeq(ls, 1, k)
<1>1. ls \in Seq(T) /\ k \in Nat /\ 1 <= k /\ k <= Len(ls)
  OBVIOUS
<1> HIDE DEF T
<1>2. s \in Seq(T) /\ Len(s) = k /\ \A i \in 1 .. k : s[i] = ls[i]
  BY <1>1, StartOf
<1> HIDE DEF s
<1>3. 1 \in 1 .. k /\ 1 \in 1 .. Len(s)
  BY <1>1, <1>2
<1>4. s \in Seq(Seq(S)) /\ s[1] = ls[1]
  BY <1>2, <1>3 DEF T
<1>5. /\ UpTo(s, 1 - 1) \in Nat
      /\ UpTo(s, 1) = UpTo(s, 1 - 1) + Len(s[1])
      /\ UpTo(s, 1) <= Len(FlattenSeq(s))
  BY <1>3, <1>4, PartAt
<1>6. s[1] \in Seq(S)
  BY <1>3, <1>4
<1> DEFINE w == Len(FlattenSeq(s))
           r == UpTo(s, 1 - 1)
           g == UpTo(s, 1)
<1>7. w \in Nat
  BY <1>4, FlattenTyped
<1>8. r \in Nat /\ g = r + Len(s[1]) /\ g <= w /\ Len(s[1]) >= 1 /\ Len(s[1]) \in Nat
  BY <1>4, <1>5, <1>6
<1> HIDE DEF w, r, g
<1>9. w >= 1
  BY <1>7, <1>8
<1> QED BY <1>9 DEF w, s

(* A header with blank lines around it is markup. *)
LEMMA PreparedTyped ==
    ASSUME NEW f, f.style \in {"line", "cblock", "markdown"}, NEW ls, NEW anchor,
           NEW h \in Seq(Seq(Markup)), NEW nl \in LineEnds
    PROVE  Prepared(f, ls, anchor, h, nl) \in Seq(Seq(Markup))
<1> DEFINE M == Seq(Markup)
           B == {<<>>, <<<<nl>>>>}
<1>1. B \subseteq Seq(M)
  <2>1. nl \in Markup
    BY DEF Markup, Space
  <2>2. <<nl>> \in M
    BY <2>1, OneTyped
  <2> HIDE DEF M
  <2>3. <<<<nl>>>> \in Seq(M) /\ <<>> \in Seq(M)
    BY <2>2, OneTyped, NoneTyped
  <2> QED BY <2>3
<1> DEFINE P == Prepared(f, ls, anchor, h, nl)
<1>2. \E p \in B, q \in B : P = p \o h \o q
  <2>1. Padded(nl, h, P)
    BY PreparedShape
  <2> HIDE DEF P
  <2> QED BY <2>1 DEF Padded
<1>3. h \in Seq(M)
  OBVIOUS
<1> HIDE DEF M, B, P
<1>4. PICK p \in B, q \in B : P = p \o h \o q
  BY <1>2
<1>5. p \in Seq(M) /\ q \in Seq(M)
  BY <1>1
<1>6. p \o h \in Seq(M)
  BY <1>3, <1>5, ConcatTyped
<1>7. (p \o h) \o q \in Seq(M)
  BY <1>5, <1>6, ConcatTyped
<1> QED BY <1>4, <1>7 DEF P, M

(* check inserts a header by lines: the words stay, and a shebang precedes the header. *)
LEMMA LinesInserted ==
    ASSUME NEW S, Markup \subseteq S, NEW t \in Seq(S), NEW f, f.style \in {"line", "cblock", "markdown"},
           NEW nl \in LineEnds, NEW h \in Seq(Seq(Markup))
    PROVE  Keeps(S, f, t, InsertedByLine(f, LinesOf(t), h, nl))
<1> DEFINE ls == LinesOf(t)
           anchor == LineAnchor(f, ls)
           x == Prepared(f, ls, anchor, h, nl)
           a == SubSeq(ls, 1, anchor)
           c == SubSeq(ls, anchor + 1, Len(ls))
           joined == a \o x \o c
           result == InsertedByLine(f, ls, h, nl)
<1>1. ls \in Seq(Seq(S)) /\ FlattenSeq(ls) = t
  BY LinesByCuts, LinesJoined
<1>2. x \in Seq(Seq(Markup))
  <2> HIDE DEF anchor, ls
  <2>1. Prepared(f, ls, anchor, h, nl) \in Seq(Seq(Markup))
    BY PreparedTyped
  <2> QED BY <2>1
<1>3. FlattenSeq(x) \in Seq(Markup) /\ x \in Seq(Seq(S))
  <2> HIDE DEF x
  <2>1. FlattenSeq(x) \in Seq(Markup)
    BY <1>2, FlattenTyped
  <2>2. Seq(Markup) \subseteq Seq(S)
    BY SeqWider
  <2> QED BY <1>2, <2>1, <2>2, SeqWider
<1>4. anchor \in 0 .. Len(ls) /\ (f.shebang /\ ls # <<>> /\ ls[1][1] = "shebang" => anchor >= 1)
  <2> DEFINE T == Seq(S)
  <2>1. ls \in Seq(T)
    BY <1>1
  <2> HIDE DEF T, ls
  <2> QED BY <2>1, AnchorFound
<1>5. /\ joined \in Seq(Seq(S))
      /\ \E k \in 0 .. Len(joined) :
           /\ result = FlattenSeq(SubSeq(joined, 1, k))
           /\ \A i \in k + 1 .. Len(joined) : IsBlank(joined[i])
  <2>1. Prepared(f, ls, LineAnchor(f, ls), h, nl) = x /\ anchor = LineAnchor(f, ls)
    OBVIOUS
  <2> HIDE DEF x, ls, anchor
  <2>2. Inserts(S, ls, x, anchor, result)
    <3>1. Inserts(S, ls, x, LineAnchor(f, ls), InsertedByLine(f, ls, h, nl))
      BY <1>1, <1>3, <2>1, InsertedShape
    <3> QED BY <2>1, <3>1
  <2> QED BY <2>2 DEF Inserts
<1> HIDE DEF ls, x
<1>6. a \in Seq(Seq(S)) /\ c \in Seq(Seq(S)) /\ t = FlattenSeq(a) \o FlattenSeq(c)
  <2> DEFINE T == Seq(S)
  <2>1. ls \in Seq(T)
    BY <1>1
  <2>2. a \in Seq(T) /\ c \in Seq(T)
    <3> HIDE DEF T, anchor
    <3> QED BY <1>4, <2>1, SplitAt
  <2>3. FlattenSeq(ls) = FlattenSeq(a) \o FlattenSeq(c)
    <3> HIDE DEF anchor
    <3> QED BY <1>1, <1>4, FlattenSplit
  <2> QED BY <1>1, <2>2, <2>3
<1>7. \A n \in Nat : Top(f, t, n) => n <= Len(FlattenSeq(a))
  <2> SUFFICES ASSUME NEW n \in Nat, Top(f, t, n)
               PROVE  n <= Len(FlattenSeq(a))
    OBVIOUS
  <2>1. n = 1 /\ Len(t) >= 1 /\ t[1] = "shebang" /\ f.shebang
    BY DEF Top
  <2>2. ls # <<>> /\ ls[1][1] = t[1] /\ Len(ls[1]) >= 1
    BY <2>1, FirstLine DEF ls
  <2>3. anchor \in 1 .. Len(ls)
    <3> HIDE DEF anchor
    <3> QED BY <1>4, <2>1, <2>2
  <2> HIDE DEF anchor
  <2>4. Len(FlattenSeq(a)) >= 1
    BY <1>1, <2>2, <2>3, StartHasFirst
  <2> QED BY <2>1, <2>4
<1> HIDE DEF anchor, a, c, result
<1> DEFINE A == FlattenSeq(a)
           C == FlattenSeq(c)
           X == FlattenSeq(x)
<1>8. A \in Seq(S) /\ C \in Seq(S) /\ X \in Seq(Markup) /\ t = A \o C
  BY <1>3, <1>6, FlattenTyped
<1>9. FlattenSeq(joined) = A \o X \o C
  <2>1. FlattensThree(a, x, c)
    BY <1>3, <1>6, ThreeFlattened
  <2> QED BY <2>1 DEF FlattensThree
<1> HIDE DEF joined, A, X, C
<1>10. KeepsUpTo(S, t, FlattenSeq(joined), Len(A))
  BY <1>8, <1>9, MarkupInserted
<1>11. PICK k \in 0 .. Len(joined) :
           /\ result = FlattenSeq(SubSeq(joined, 1, k))
           /\ \A i \in k + 1 .. Len(joined) : IsBlank(joined[i])
  BY <1>5
<1> DEFINE tail == SubSeq(joined, k + 1, Len(joined))
           d == FlattenSeq(tail)
<1>12. result \in Seq(S) /\ tail \in Seq(Seq(S)) /\ FlattenSeq(joined) = result \o d
  <2> DEFINE T == Seq(S)
  <2>1. joined \in Seq(T)
    BY <1>5
  <2>2. SubSeq(joined, 1, k) \in Seq(T) /\ tail \in Seq(T)
    <3> HIDE DEF T
    <3> QED BY <2>1, SplitAt
  <2>3. FlattenSeq(joined) = FlattenSeq(SubSeq(joined, 1, k)) \o d
    BY <1>5, FlattenSplit
  <2>4. FlattenSeq(SubSeq(joined, 1, k)) \in Seq(S)
    BY <2>2, FlattenTyped
  <2> QED BY <1>11, <2>2, <2>3, <2>4
<1>13. d \in Seq(Markup)
  <2> DEFINE T == Seq(S)
             m == Len(joined)
  <2>1. joined \in Seq(T) /\ m \in Nat /\ k \in Nat /\ k <= m
    BY <1>5
  <2> HIDE DEF m
  <2>2. tail \in Seq(T) /\ Len(tail) = m - k /\ \A i \in 1 .. m - k : tail[i] = joined[k + i]
    <3> HIDE DEF T
    <3>1. m <= Len(joined)
      BY <2>1 DEF m
    <3> QED BY <2>1, <3>1, StretchAt DEF m
  <2> HIDE DEF tail
  <2>3. ASSUME NEW i \in 1 .. m - k
        PROVE  tail[i] \in Seq(Markup)
    <3>1. k + i \in k + 1 .. m /\ k + i \in 1 .. m
      BY <2>1
    <3>2. joined[k + i] \in Seq(S)
      BY <2>1, <3>1 DEF m
    <3>3. IsBlank(joined[k + i])
      BY <1>11, <3>1 DEF m
    <3> DEFINE l == joined[k + i]
    <3>4. l \in Seq(S) /\ \A j \in 1 .. Len(l) : l[j] \in Space
      BY <3>2, <3>3, StrippedFound
    <3> HIDE DEF l
    <3>5. \A j \in 1 .. Len(l) : l[j] \in Markup
      BY <3>4 DEF Markup
    <3>6. l \in Seq(Markup)
      BY <3>4, <3>5, PartsOnly
    <3>7. tail[i] = l
      BY <2>2 DEF l
    <3> QED BY <3>6, <3>7
  <2>4. tail \in Seq(Seq(Markup))
    <3> DEFINE M == Seq(Markup)
    <3>1. \A i \in 1 .. m - k : tail[i] \in M
      BY <2>3
    <3>2. m - k \in Nat
      BY <2>1
    <3> HIDE DEF M, T
    <3>3. tail \in Seq(M)
      BY <2>2, <3>1, <3>2, PartsOnly
    <3> QED BY <3>3 DEF M
  <2> QED BY <2>4, FlattenTyped
<1> HIDE DEF d, tail
<1>14. KeepsWords(S, FlattenSeq(joined), result)
  BY <1>12, <1>13, SuffixDropped
<1>15. KeepsUpTo(S, t, result, Len(A))
  BY <1>10, <1>14, KeepsThen
<1>16. Keeps(S, f, t, result)
  BY <1>7, <1>15, KeptUpTo DEF A
<1> QED BY <1>16 DEF result, ls

(* A header of XML belongs somewhere in the text, and behind a declaration. *)
LEMMA OffsetFound ==
    ASSUME NEW S, NEW t \in Seq(S)
    PROVE  /\ XmlOffset(t) \in 0 .. Len(t)
           /\ \A n \in 1 .. Len(t) : t[n] = "decl" /\ (\A i \in 1 .. n - 1 : t[i] \in Spacers)
                => n <= XmlOffset(t)
<1> DEFINE m == Len(t)
           After(token, o) == IF o < m /\ t[o + 1] = token THEN AfterSpace(t, o + 1) ELSE o
           top == AfterSpace(t, 0)
           decl == After("decl", top)
           doctype == After("doctype", decl)
<1>1. m \in Nat
  OBVIOUS
<1>2. XmlOffset(t) = IF decl = top THEN top ELSE doctype
  BY DEF XmlOffset
<1>3. ASSUME NEW o \in 0 .. m
      PROVE  AfterSpace(t, o) \in o .. m
  BY SpaceEnds
<1>4. ASSUME NEW o \in 0 .. m, NEW token
      PROVE  After(token, o) \in o .. m
  <2>1. CASE o < m /\ t[o + 1] = token
    <3>1. o + 1 \in 0 .. m
      BY <1>1, <2>1
    <3>2. AfterSpace(t, o + 1) \in o + 1 .. m
      BY <1>3, <3>1
    <3> DEFINE z == AfterSpace(t, o + 1)
    <3>3. z \in o + 1 .. m /\ After(token, o) = z
      BY <2>1, <3>2
    <3> HIDE DEF z, m, After
    <3>4. z \in o .. m
      BY <1>1, <3>3
    <3> QED BY <3>3, <3>4
  <2>2. CASE ~(o < m /\ t[o + 1] = token)
    <3>1. After(token, o) = o
      BY <2>2
    <3> HIDE DEF After, m
    <3> QED BY <1>1, <3>1
  <2> QED BY <2>1, <2>2
<1>5. top \in 0 .. m
  BY <1>1, <1>3
<1> HIDE DEF top
<1>6. decl \in top .. m /\ decl \in 0 .. m
  <2> HIDE DEF After, m
  <2>1. decl \in top .. m
    BY <1>4, <1>5
  <2> HIDE DEF decl
  <2> QED BY <1>1, <1>5, <2>1
<1>7. doctype \in decl .. m /\ doctype \in 0 .. m
  <2> HIDE DEF After, m, decl
  <2>1. doctype \in decl .. m
    BY <1>4, <1>6
  <2> HIDE DEF doctype
  <2> QED BY <1>1, <1>6, <2>1
<1>8. XmlOffset(t) \in 0 .. m /\ XmlOffset(t) >= decl
  <2> HIDE DEF decl, doctype, m
  <2> QED BY <1>1, <1>2, <1>5, <1>6, <1>7
<1>9. ASSUME NEW n \in 1 .. m, t[n] = "decl", \A i \in 1 .. n - 1 : t[i] \in Spacers
      PROVE  n <= XmlOffset(t)
  <2>1. "decl" \notin Spacers
    BY DEF Spacers, LineEnds
  <2>2. top = n - 1
    BY <1>9, <2>1, SpaceEndsAt DEF top
  <2>3. top < m /\ top + 1 = n
    BY <1>1, <2>2
  <2>4. decl = AfterSpace(t, n)
    BY <1>9, <2>3
  <2>5. n \in 0 .. m
    BY <1>1
  <2>6. decl \in n .. m
    BY <1>3, <2>4, <2>5
  <2> DEFINE z == XmlOffset(t)
  <2>7. z >= decl /\ z \in 0 .. m
    BY <1>8
  <2> HIDE DEF z, decl, m
  <2>8. n <= z
    BY <1>1, <2>5, <2>6, <2>7
  <2> QED BY <2>8 DEF z
<1> QED BY <1>8, <1>9

(* Doubled line ends at the end may be dropped. *)
LEMMA PairsTrimmed ==
    ASSUME NEW S, Markup \subseteq S, NEW t \in Seq(S), NEW behind, NEW of \in SUBSET LineEnds
    PROVE  KeepsWords(S, t, TrimPairs(t, behind, of))
<1> DEFINE m == Len(t)
           E == {n \in 0 .. m : \A i \in n + 1 .. m : i > 1 /\ t[i - 1] \in behind /\ t[i] \in of}
           k == Min(E)
           u == SubSeq(t, 1, k)
           d == SubSeq(t, k + 1, m)
<1>1. m \in Nat
  OBVIOUS
<1>2. TrimPairs(t, behind, of) = u
  BY DEF TrimPairs
<1>3. k \in 0 .. m /\ \A i \in k + 1 .. m : t[i] \in of
  <2>1. E \in SUBSET Nat /\ m \in E
    BY <1>1
  <2>2. k \in E
    <3> HIDE DEF E
    <3> QED BY <2>1, LeastOfNumbers
  <2> HIDE DEF k
  <2> QED BY <2>2
<1> HIDE DEF k
<1>4. u \in Seq(S) /\ t = u \o d
  BY <1>3, SplitAt
<1>5. d \in Seq(Markup)
  <2>1. k \in Nat /\ k <= m /\ m <= Len(t)
    BY <1>1, <1>3
  <2>2. d \in Seq(S) /\ Len(d) = m - k /\ \A i \in 1 .. m - k : d[i] = t[k + i]
    <3> HIDE DEF m
    <3> QED BY <1>1, <2>1, StretchAt
  <2> HIDE DEF d, m
  <2>3. \A i \in 1 .. m - k : k + i \in k + 1 .. m
    BY <1>1, <2>1
  <2>4. of \subseteq Markup
    BY DEF Markup, Space
  <2>5. \A i \in 1 .. m - k : d[i] \in Markup
    BY <1>3, <2>2, <2>3, <2>4
  <2>6. m - k \in Nat
    BY <1>1, <2>1
  <2> QED BY <2>2, <2>5, <2>6, PartsOnly
<1> HIDE DEF u, d
<1> QED BY <1>2, <1>4, <1>5, SuffixDropped

(* check inserts a header by offset: the words stay, and a declaration precedes the header. *)
LEMMA OffsetInserted ==
    ASSUME NEW S, Markup \subseteq S, NEW t \in Seq(S), NEW f, f.style = "xml", ~f.shebang,
           NEW nl \in LineEnds, NEW header \in Seq(Seq(Markup))
    PROVE  Keeps(S, f, t, InsertedByOffset(t, header, nl))
<1> DEFINE o == XmlOffset(t)
           lineBefore == SubSeq(t, 1 + Max({0} \cup {i \in 1 .. o - 1 : t[i] \in LineEnds}), o)
           afterProlog == \E i \in 1 .. o : t[i] \in {"decl", "doctype"}
           gap == IF ~afterProlog \/ IsPureSpacer(lineBefore) THEN <<>>
                  ELSE IF t[o] \in LineEnds THEN <<nl>> ELSE <<nl, nl>>
           a == SubSeq(t, 1, o)
           c == SubSeq(t, o + 1, Len(t))
           h == FlattenSeq(header)
           e == <<nl>>
           whole == a \o gap \o h \o e \o c
           once == TrimPairs(whole, {"crlf"}, {"crlf"})
           result == InsertedByOffset(t, header, nl)
<1>1. result = TrimPairs(once, LineEnds, {"lf"})
  BY DEF InsertedByOffset
<1>2. nl \in Markup /\ {"crlf"} \in SUBSET LineEnds /\ {"lf"} \in SUBSET LineEnds
  BY DEF Markup, Space, LineEnds
<1>3. o \in 0 .. Len(t) /\ \A n \in Nat : Top(f, t, n) => n <= o
  BY OffsetFound DEF Top
<1>4. gap \in Seq(Markup) /\ e \in Seq(Markup) /\ h \in Seq(Markup)
  <2>1. <<>> \in Seq(Markup) /\ <<nl>> \in Seq(Markup) /\ <<nl, nl>> \in Seq(Markup)
    BY <1>2, NoneTyped, ThreeTyped
  <2>2. gap \in {<<>>, <<nl>>, <<nl, nl>>}
    <3> HIDE DEF afterProlog, lineBefore
    <3> QED OBVIOUS
  <2> HIDE DEF gap
  <2>3. h \in Seq(Markup)
    BY FlattenTyped
  <2> QED BY <2>1, <2>2, <2>3
<1> HIDE DEF o, gap, h, e, result
<1>5. a \in Seq(S) /\ c \in Seq(S) /\ t = a \o c /\ Len(a) = o
  <2>1. a \in Seq(S) /\ c \in Seq(S) /\ t = a \o c
    BY <1>3, SplitAt
  <2>2. o \in Nat /\ o <= Len(t)
    BY <1>3
  <2> QED BY <2>1, <2>2, StartOf
<1> HIDE DEF a, c
<1> DEFINE x == gap \o h \o e
<1>6. x \in Seq(Markup) /\ whole = a \o x \o c
  <2>1. gap \o h \in Seq(Markup)
    BY <1>4, ConcatTyped
  <2>2. x \in Seq(Markup)
    BY <1>4, <2>1, ConcatTyped
  <2>3. gap \in Seq(S) /\ h \in Seq(S) /\ e \in Seq(S)
    BY <1>4, SeqWider
  <2>4. a \o gap \o h \o e \o c = a \o (gap \o h \o e) \o c
    <3>1. a \in Seq(S) /\ c \in Seq(S)
      BY <1>5
    <3>2. JoinsFive(a, gap, h, e, c)
      BY <2>3, <3>1, FiveJoined
    <3> QED BY <3>2 DEF JoinsFive
  <2> HIDE DEF x, whole
  <2> QED BY <2>2, <2>4 DEF x, whole
<1> HIDE DEF x, whole
<1>7. KeepsUpTo(S, t, whole, o)
  <2>1. KeepsUpTo(S, a \o c, a \o x \o c, Len(a))
    BY <1>5, <1>6, MarkupInserted
  <2> QED BY <1>5, <1>6, <2>1
<1>8. whole \in Seq(S)
  BY <1>7 DEF KeepsUpTo
<1>9. KeepsWords(S, whole, once)
  BY <1>2, <1>8, PairsTrimmed
<1> HIDE DEF once
<1>10. once \in Seq(S)
  BY <1>9 DEF KeepsWords
<1>11. KeepsWords(S, once, result)
  BY <1>1, <1>2, <1>10, PairsTrimmed
<1>12. KeepsUpTo(S, t, once, o)
  BY <1>7, <1>9, KeepsThen
<1>13. KeepsUpTo(S, t, result, o)
  BY <1>11, <1>12, KeepsThen
<1>14. Keeps(S, f, t, result)
  BY <1>3, <1>13, KeptUpTo
<1> QED BY <1>14 DEF result

-----------------------------------------------------------------------------
(* Checks *)

(* A text that is left alone keeps everything. *)
LEMMA KeptAsIs ==
    ASSUME NEW S, NEW f, NEW t \in Seq(S)
    PROVE  Keeps(S, f, t, t)
  BY DEF Keeps

(* check replaces the header between the lines p and q: nothing of the user is there. *)
LEMMA HeaderReplaced ==
    ASSUME NEW S, Markup \subseteq S, NEW t \in Seq(S), NEW f, NEW v \in FieldValues, NEW nl \in LineEnds,
           HeaderBounds(f, t).kind = "span",
           NEW p, NEW q, HeaderBounds(f, t).span = <<p, q>>,
           ~HeaderHasErrors(f, LinesOf(t), <<p, q>>)
    PROVE  KeepsWords(S, t, FlattenSeq(SubSeq(LinesOf(t), 1, p - 1)
                              \o RenderedHeader(f, nl, IndentOf(f, LinesOf(t)[p]), v)
                              \o SubSeq(LinesOf(t), q + 1, Len(LinesOf(t)))))
<1> DEFINE ls == LinesOf(t)
           x == RenderedHeader(f, nl, IndentOf(f, ls[p]), v)
<1>1. ls \in Seq(Seq(S)) /\ FlattenSeq(ls) = t
  BY LinesByCuts, LinesJoined
<1>2. <<p, q>> \in Candidates(f, Searched(f, ls))
  BY BoundsFound
<1> DEFINE span == <<p, q>>
<1>3. span[1] = p /\ span[2] = q
  OBVIOUS
<1>4. span \in Candidates(f, Searched(f, ls)) /\ ~HeaderHasErrors(f, ls, span)
  BY <1>2
<1> HIDE DEF span, ls
<1>5. /\ p \in 1 .. Len(ls) /\ q \in 1 .. Len(ls) /\ p < q
      /\ \A k \in p .. q : ls[k] \in Seq(Markup)
      /\ ~IsBlank(ls[p])
  <2>1. /\ span[1] \in 1 .. Len(ls) /\ span[2] \in 1 .. Len(ls) /\ span[1] < span[2]
        /\ \A k \in span[1] .. span[2] : ls[k] \in Seq(Markup)
        /\ ~IsBlank(ls[span[1]])
    BY <1>1, <1>4, SpanHolds
  <2> QED BY <1>3, <2>1
<1>6. x \in Seq(Seq(Markup))
  <2>1. ls[p] \in Seq(S)
    BY <1>1, <1>5
  <2>2. IndentOf(f, ls[p]) \in Seq(Markup)
    BY <1>5, <2>1, IndentTyped
  <2> DEFINE indent == IndentOf(f, ls[p])
  <2> HIDE DEF indent
  <2>3. RenderedHeader(f, nl, indent, v) \in Seq(Seq(Markup))
    BY <2>2, RenderedTyped DEF indent
  <2> QED BY <2>3 DEF indent
<1> HIDE DEF x
<1>7. p \in Nat \ {0} /\ q \in Nat /\ p <= q /\ q <= Len(ls) /\ p \in p .. q
  <2>1. Len(ls) \in Nat
    BY <1>1
  <2> QED BY <1>5, <2>1
<1>8. \E k \in p .. q : ~IsBlank(ls[k])
  BY <1>5, <1>7
<1>9. KeepsWords(S, FlattenSeq(ls), FlattenSeq(SubSeq(ls, 1, p - 1) \o x \o SubSeq(ls, q + 1, Len(ls))))
  BY <1>1, <1>5, <1>6, <1>7, <1>8, LinesReplaced
<1> QED BY <1>1, <1>9 DEF x, ls

(* The newline that is chosen for the header of a text is a line end. *)
LEMMA HeaderNewlineIsEnd ==
    ASSUME NEW S, NEW t \in Seq(S), NEW f,
           HeaderBounds(f, t).kind = "span" => ~HeaderHasErrors(f, LinesOf(t), HeaderBounds(f, t).span)
    PROVE  HeaderNewline(f, LinesOf(t), HeaderBounds(f, t).span) \in LineEnds
<1> DEFINE ls == LinesOf(t)
           found == HeaderBounds(f, t)
           span == found.span
<1>1. ls \in Seq(Seq(S))
  BY LinesByCuts
<1>2. CASE found.kind = "span"
  <2>1. span \in Candidates(f, Searched(f, ls)) /\ ~HeaderHasErrors(f, ls, span)
    BY <1>2, BoundsFound
  <2> HIDE DEF ls, span, found
  <2>2. span[1] \in 1 .. Len(ls) /\ span[2] \in 1 .. Len(ls)
    BY <1>1, <2>1, SpanHolds
  <2>3. HeaderNewline(f, ls, span) \in LineEnds
    BY <1>1, <2>2, NewlineIsEnd
  <2> QED BY <2>3 DEF ls, span, found
<1>3. CASE found.kind # "span"
  <2>1. span = NoSpan
    BY <1>3 DEF HeaderBounds
  <2> HIDE DEF ls, span, found
  <2>2. HeaderNewline(f, ls, span) \in LineEnds
    BY <1>1, <2>1, NewlineIsEnd
  <2> QED BY <2>2 DEF ls, span, found
<1> QED BY <1>2, <1>3

(* A span has a first and a last line. *)
LEMMA SpanIsPair ==
    ASSUME NEW S, NEW t \in Seq(S), NEW f, HeaderBounds(f, t).kind = "span"
    PROVE  \E p, q : HeaderBounds(f, t).span = <<p, q>>
<1>1. HeaderBounds(f, t).span \in Candidates(f, Searched(f, LinesOf(t)))
  BY BoundsFound
<1> QED BY <1>1 DEF Candidates, WithDelimiters

(* Checking keeps the words and the prolog, whatever it does: it inserts, replaces, or leaves the
   text alone. *)
LEMMA CheckedKeeps ==
    ASSUME NEW S, Markup \subseteq S, NEW t \in Seq(S), NEW f \in Formats, NEW v \in FieldValues
    PROVE  Keeps(S, f, t, Checked(f, t, v))
<1> DEFINE ls == LinesOf(t)
           found == HeaderBounds(f, t)
           p == found.span[1]
           q == found.span[2]
           nl == HeaderNewline(f, ls, found.span)
           replaced == FlattenSeq(SubSeq(ls, 1, p - 1) \o RenderedHeader(f, nl, IndentOf(f, ls[p]), v)
                                    \o SubSeq(ls, q + 1, Len(ls)))
           fresh == RenderedHeader(f, nl, <<>>, v)
           result == Checked(f, t, v)
<1>1. \/ result = t
      \/ found.kind = "span" /\ ~HeaderHasErrors(f, ls, found.span) /\ result = replaced
      \/ found.kind # "span" /\ f.style = "xml" /\ result = InsertedByOffset(t, fresh, nl)
      \/ found.kind # "span" /\ f.style # "xml" /\ result = InsertedByLine(f, ls, fresh, nl)
  BY DEF Checked
<1>2. /\ f.style \in {"line", "cblock", "markdown", "xml"}
      /\ f.style = "xml" => ~f.shebang
  BY FormatsAssumption DEF Styles
<1> HIDE DEF result
<1>3. CASE result = t
  BY <1>3, KeptAsIs DEF result
<1>4. CASE found.kind = "span" /\ ~HeaderHasErrors(f, ls, found.span) /\ result = replaced
  <2>1. nl \in LineEnds
    BY <1>4, HeaderNewlineIsEnd
  <2>2. PICK a, b : found.span = <<a, b>>
    BY <1>4, SpanIsPair
  <2>3. p = a /\ q = b
    BY <2>2
  <2> HIDE DEF nl
  <2>4. KeepsWords(S, t, FlattenSeq(SubSeq(ls, 1, a - 1) \o RenderedHeader(f, nl, IndentOf(f, ls[a]), v)
                                    \o SubSeq(ls, b + 1, Len(ls))))
    BY <1>4, <2>1, <2>2, HeaderReplaced
  <2> HIDE DEF p, q, ls, found
  <2>5. KeepsWords(S, t, result)
    BY <1>4, <2>3, <2>4
  <2> QED BY <2>5, KeptWords DEF result
<1>5. CASE found.kind # "span" /\ f.style = "xml" /\ result = InsertedByOffset(t, fresh, nl)
  <2>1. nl \in LineEnds
    BY <1>5, HeaderNewlineIsEnd
  <2> HIDE DEF nl
  <2>2. fresh \in Seq(Seq(Markup))
    BY <2>1, NoneTyped, RenderedTyped
  <2> HIDE DEF fresh
  <2>3. Keeps(S, f, t, InsertedByOffset(t, fresh, nl))
    BY <1>2, <1>5, <2>1, <2>2, OffsetInserted
  <2> QED BY <1>5, <2>3 DEF result
<1>6. CASE found.kind # "span" /\ f.style # "xml" /\ result = InsertedByLine(f, ls, fresh, nl)
  <2>1. nl \in LineEnds
    BY <1>6, HeaderNewlineIsEnd
  <2> HIDE DEF nl
  <2>2. fresh \in Seq(Seq(Markup))
    BY <2>1, NoneTyped, RenderedTyped
  <2> HIDE DEF fresh
  <2>3. f.style \in {"line", "cblock", "markdown"}
    BY <1>2, <1>6
  <2>4. Keeps(S, f, t, InsertedByLine(f, ls, fresh, nl))
    BY <2>1, <2>2, <2>3, LinesInserted
  <2> QED BY <1>6, <2>4 DEF result
<1> QED BY <1>1, <1>3, <1>4, <1>5, <1>6

(* What two commands keep is kept. *)
LEMMA KeepsBoth ==
    ASSUME NEW S, NEW f, NEW t, NEW u, NEW w, Keeps(S, f, t, u), Keeps(S, f, u, w)
    PROVE  Keeps(S, f, t, w)
  BY DEF Keeps

-----------------------------------------------------------------------------
(* Files under any sequence of commands *)

\* All tokens, those of the diff as well. They are all strings, of which the provers know
\* nothing.
Tokens == STRING \cup Markup \cup {"keep", "del", "add"}

\* The types of what a file is and was.
TextTypeOK ==
    /\ format \in Formats
    /\ value \in FieldValues
    /\ first \in Seq(Tokens)
    /\ before \in Seq(Tokens)
    /\ text \in Seq(Tokens)
    /\ last \in {"none", "check", "strip"}

(* Checks, for the tokens there are. *)
LEMMA CheckedKeepsStrings ==
    ASSUME NEW t \in Seq(Tokens), NEW f \in Formats, NEW v \in FieldValues
    PROVE  Keeps(Tokens, f, t, Checked(f, t, v))
  BY CheckedKeeps DEF Tokens

(* Strips, for the tokens there are. *)
LEMMA StrippedKeepsStrings ==
    ASSUME NEW t \in Seq(Tokens), NEW f
    PROVE  Keeps(Tokens, f, t, StrippedText(f, t))
<1>1. KeepsWords(Tokens, t, StrippedText(f, t))
  BY StrippedKeeps DEF Tokens
<1> QED BY <1>1, KeptWords

\* The inductive invariant: a check or strip compares the text with the one before it, so what it
\* keeps adds up to what UserTextStays says of the first.
TextInv == TextTypeOK /\ Keeps(Tokens, format, first, text)

(* It holds of every file there may be. *)
LEMMA TextInvInit == TextInit => TextInv
<1> SUFFICES ASSUME TextInit PROVE TextInv
  OBVIOUS
<1>1. first \in Seq(Tokens)
  <2>1. Texts[format] \subseteq Seq(STRING) /\ first \in Texts[format]
    BY TextsAssumption DEF TextInit
  <2>2. STRING \subseteq Tokens
    BY DEF Tokens
  <2>3. first \in Seq(STRING)
    BY <2>1
  <2> QED BY <2>2, <2>3, SeqWider
<1>2. text = first /\ before = first
  BY DEF TextInit
<1>3. Keeps(Tokens, format, first, text)
  BY <1>1, <1>2, KeptAsIs
<1> QED BY <1>1, <1>2, <1>3 DEF TextInit, TextInv, TextTypeOK

(* Every command and every change of the configuration preserves it. *)
LEMMA TextInvStep == TextInv /\ [TextNext]_textVars => TextInv'
<1> SUFFICES ASSUME TextInv, [TextNext]_textVars PROVE TextInv'
  OBVIOUS
<1>1. CASE Check
  <2>1. text' = Checked(format, text, value) /\ UNCHANGED <<format, value, first>>
        /\ before' = text /\ last' = "check"
    BY <1>1 DEF Check
  <2>2. Keeps(Tokens, format, text, text')
    BY <2>1, CheckedKeepsStrings DEF TextInv, TextTypeOK
  <2>3. Keeps(Tokens, format, first, text')
    BY <2>2, KeepsBoth DEF TextInv
  <2>4. text' \in Seq(Tokens)
    BY <2>2 DEF Keeps
  <2> QED BY <2>1, <2>3, <2>4 DEF TextInv, TextTypeOK
<1>2. CASE Strip
  <2>1. text' = StrippedText(format, text) /\ UNCHANGED <<format, value, first>>
        /\ before' = text /\ last' = "strip"
    BY <1>2 DEF Strip
  <2>2. Keeps(Tokens, format, text, text')
    BY <2>1, StrippedKeepsStrings DEF TextInv, TextTypeOK
  <2>3. Keeps(Tokens, format, first, text')
    BY <2>2, KeepsBoth DEF TextInv
  <2>4. text' \in Seq(Tokens)
    BY <2>2 DEF Keeps
  <2> QED BY <2>1, <2>3, <2>4 DEF TextInv, TextTypeOK
<1>3. CASE Reconfigure
  BY <1>3 DEF Reconfigure, TextInv, TextTypeOK
<1>4. CASE UNCHANGED textVars
  BY <1>4 DEF textVars, TextInv, TextTypeOK
<1> QED BY <1>1, <1>2, <1>3, <1>4 DEF TextNext

(* It always holds. *)
THEOREM TextInvAlways == TextSpec => []TextInv
<1> QED BY TextInvInit, TextInvStep, PTL DEF TextSpec

(* A text stays a sequence of tokens under any sequence of commands. *)
THEOREM TextTypesHold == TextSpec => []TextTypeOK
<1>1. TextInv => TextTypeOK
  BY DEF TextInv
<1> QED BY <1>1, TextInvAlways, PTL

(* For files of any length, in every format, and any sequence of checks, strips and changed
   configurations: each word of the user stays, in its order, and a shebang or XML declaration at
   the top stays there. *)
THEOREM UserTextAlwaysStays == TextSpec => []UserTextStays
<1>1. TextInv => UserTextStays
  BY DEF TextInv, Keeps, UserTextStays
<1> QED BY <1>1, TextInvAlways, PTL

(* Diffs, for the tokens there are. *)
LEMMA DiffMakesStrings ==
    ASSUME NEW s \in Seq(Tokens), NEW t \in Seq(Tokens)
    PROVE  LET old == LinesOf(s)
               new == LinesOf(t)
               edit == InferSingleEdit(old, new)
               diff == UnifiedDiff(old, edit, 3)
               body == LinesOf(FlattenSeq(diff.body))
           IN  \/ ~EndsWithNewline(s) /\ s # <<>> /\ edit.end = Len(old) /\ edit.lines # <<>>
               \/ /\ DiffFits(old, diff, body)
                  /\ Patched(old, diff, body) = new
<1>1. {"keep", "del", "add"} \subseteq Tokens
  BY DEF Tokens
<1> QED BY <1>1, DiffMakes

(* The diff of every change, read at its word, makes the new text out of the old one, unless it
   adds lines behind a last line without a line end. *)
THEOREM DiffAlwaysMakesText == TextSpec => []DiffMakesText
<1>1. TextInv => DiffMakesText
  BY DiffMakesStrings DEF TextInv, TextTypeOK, DiffMakesText
<1> QED BY <1>1, TextInvAlways, PTL
=============================================================================
