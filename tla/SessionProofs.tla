------------------------------ MODULE SessionProofs -----------------------------
(***************************************************************************)
(* Proofs about the memory and the history of a session, for any number of *)
(* messages and turns and chunks of any length.                            *)
(***************************************************************************)
EXTENDS SessionHistory, SessionMemory, SequenceTheorems, WellFoundedInduction, TLAPS

-----------------------------------------------------------------------------
(* Facts about numbers and sequences                                       *)

(* A set of natural numbers up to n that is not empty has a greatest one.  *)
LEMMA Greatest ==
  ASSUME NEW n \in Nat, NEW S \in SUBSET (0..n), S # {}
  PROVE  \E x \in S : \A y \in S : x >= y
<1> DEFINE R == OpToRel(<, Nat)
           T == {n - x : x \in S}
<1>1. IsWellFoundedOn(R, Nat)
  BY NatLessThanWellFounded
<1>2. \A x, y \in Nat : x < y => <<x, y>> \in R
  BY DEF OpToRel
<1>3. T \subseteq Nat /\ T # {}
  <2>1. \A x \in S : x \in 0..n /\ n - x \in Nat
    OBVIOUS
  <2> QED BY <2>1
<1>4. \A y \in S : n - y \in T
  OBVIOUS
<1> HIDE DEF R
<1>5. PICK t \in T : \A y \in T : ~(<<y, t>> \in R)
  <2> HIDE DEF T
  <2> QED BY <1>1, <1>3, WFMin
<1>6. PICK x \in S : t = n - x
  BY <1>5
<1> HIDE DEF T
<1>7. ASSUME NEW y \in S PROVE x >= y
  <2>1. n - y \in Nat /\ n - x \in Nat /\ x \in 0..n /\ y \in 0..n
    BY <1>6
  <2>2. ~(n - y < n - x)
    BY <1>2, <1>4, <1>5, <1>6, <2>1
  <2> QED BY <2>1, <2>2
<1> QED BY <1>7

(* The part of a sequence from m to n                                      *)
LEMMA Part ==
  ASSUME NEW S, NEW s \in Seq(S), NEW m \in Nat, NEW n \in Nat, 1 <= m, m <= n + 1, n <= Len(s)
  PROVE  /\ SubSeq(s, m, n) \in Seq(S)
         /\ Len(SubSeq(s, m, n)) = n + 1 - m
         /\ \A k \in 1..(n + 1 - m) : SubSeq(s, m, n)[k] = s[k + m - 1]
<1>1. Len(s) \in Nat /\ \A k \in 1..Len(s) : s[k] \in S
  BY LenProperties, ElementOfSeq
<1>2. m \in Int /\ n \in Int /\ \A k \in m..n : s[k] \in S
  BY <1>1
<1>3. /\ SubSeq(s, m, n) \in Seq(S)
      /\ Len(SubSeq(s, m, n)) = IF m <= n THEN n - m + 1 ELSE 0
      /\ \A k \in 1..(n - m + 1) : SubSeq(s, m, n)[k] = s[m + k - 1]
  BY <1>2, SubSeqProperties, SMTT(20)
<1>4. n + 1 - m = n - m + 1 /\ (~(m <= n) => n + 1 - m = 0)
  OBVIOUS
<1>5. ASSUME NEW k \in 1..(n + 1 - m) PROVE SubSeq(s, m, n)[k] = s[k + m - 1]
  <2>1. m + k - 1 = k + m - 1 /\ k \in 1..(n - m + 1)
    OBVIOUS
  <2> QED BY <1>3, <2>1
<1> QED BY <1>3, <1>4, <1>5

(* A set of natural numbers that is not empty has a least one.             *)
LEMMA Smallest ==
  ASSUME NEW S \in SUBSET Nat, S # {}
  PROVE  \E x \in S : \A y \in S : ~(y < x)
<1> DEFINE R == OpToRel(<, Nat)
<1>1. IsWellFoundedOn(R, Nat)
  BY NatLessThanWellFounded
<1>2. \A x, y \in Nat : x < y => <<x, y>> \in R
  BY DEF OpToRel
<1> HIDE DEF R
<1>3. PICK x \in S : \A y \in S : ~(<<y, x>> \in R)
  BY <1>1, WFMin
<1> QED BY <1>2, <1>3

(* The elements of b are among those of a.                                 *)
HoldsAll(a, b) == \A i \in DOMAIN b : \E k \in DOMAIN a : a[k] = b[i]

LEMMA HoldsOn ==
  ASSUME NEW a, NEW b, NEW c, HoldsAll(a, b), HoldsAll(b, c)
  PROVE  HoldsAll(a, c)
  BY DEF HoldsAll

LEMMA JoinedHold ==
  ASSUME NEW S, NEW a \in Seq(S), NEW b \in Seq(S)
  PROVE  a \o b \in Seq(S) /\ HoldsAll(a \o b, a) /\ HoldsAll(a \o b, b)
<1> DEFINE c == a \o b
<1>1. /\ Len(a) \in Nat /\ DOMAIN a = 1..Len(a)
      /\ Len(b) \in Nat /\ DOMAIN b = 1..Len(b)
  BY LenProperties
<1>2. /\ c \in Seq(S) /\ Len(c) = Len(a) + Len(b)
      /\ \A i \in 1..Len(a) + Len(b) : c[i] = IF i <= Len(a) THEN a[i] ELSE b[i - Len(a)]
  BY ConcatProperties
<1> HIDE DEF c
<1>3. DOMAIN c = 1..Len(a) + Len(b)
  BY <1>2, LenProperties
<1>4. \A i \in DOMAIN a : i \in DOMAIN c /\ c[i] = a[i]
  BY <1>1, <1>2, <1>3
<1>5. ASSUME NEW i \in DOMAIN b PROVE Len(a) + i \in DOMAIN c /\ c[Len(a) + i] = b[i]
  <2>1. Len(a) + i \in 1..Len(a) + Len(b) /\ ~(Len(a) + i <= Len(a)) /\ (Len(a) + i) - Len(a) = i
    BY <1>1
  <2> QED BY <1>2, <1>3, <2>1
<1>6. HoldsAll(c, a) /\ HoldsAll(c, b)
  BY <1>4, <1>5 DEF HoldsAll
<1> QED BY <1>2, <1>6 DEF c

LEMMA AppendedHolds ==
  ASSUME NEW S, NEW a \in Seq(S), NEW m \in S
  PROVE  /\ Append(a, m) \in Seq(S) /\ HoldsAll(Append(a, m), a)
         /\ Len(a) \in Nat /\ DOMAIN a = 1..Len(a) /\ DOMAIN Append(a, m) = 1..Len(a) + 1
         /\ \A i \in 1..Len(a) : Append(a, m)[i] = a[i]
         /\ Append(a, m)[Len(a) + 1] = m
<1> DEFINE c == Append(a, m)
<1>1. Len(a) \in Nat /\ DOMAIN a = 1..Len(a)
  BY LenProperties
<1>2. /\ c \in Seq(S) /\ Len(c) = Len(a) + 1
      /\ \A i \in 1..Len(a) : c[i] = a[i]
      /\ c[Len(a) + 1] = m
  BY AppendProperties
<1> HIDE DEF c
<1>3. DOMAIN c = 1..Len(a) + 1
  BY <1>2, LenProperties
<1>4. \A i \in DOMAIN a : i \in DOMAIN c /\ c[i] = a[i]
  BY <1>1, <1>2, <1>3
<1>5. HoldsAll(c, a)
  BY <1>4 DEF HoldsAll
<1> QED BY <1>1, <1>2, <1>3, <1>5 DEF c

(* Sequences of messages, one after the other, are a sequence of messages, *)
(* and each of these messages is in it.                                    *)
LEMMA Flattened ==
  ASSUME NEW S, NEW n \in Nat, NEW seqs \in [1..n -> Seq(S)]
  PROVE  FlattenSeq(seqs) \in Seq(S) /\ \A j \in 1..n : HoldsAll(FlattenSeq(seqs), seqs[j])
<1> DEFINE next(g, i) == IF i = 1 THEN seqs[i] ELSE g[i - 1] \o seqs[i]
           upTo(g, k) == g = [i \in 1..k |-> next(g, i)]
           flat == CHOOSE g : upTo(g, n)
<1>1. Len(seqs) = n
  OBVIOUS
<1>2. CASE n = 0
  <2>1. FlattenSeq(seqs) = seqs
    BY <1>1, <1>2 DEF FlattenSeq
  <2> QED BY <1>2, <2>1
<1>3. CASE n # 0
  <2>1. FlattenSeq(seqs) = flat[n]
    BY <1>1, <1>3, Zenon DEF FlattenSeq
  <2> HIDE DEF flat
  <2>3. \A k \in 0..n : \E g \in [1..k -> Seq(S)] : upTo(g, k)
    <3> DEFINE built(k) == \E g \in [1..k -> Seq(S)] : upTo(g, k)
               lacking == {k \in 0..n : ~built(k)}
    <3> SUFFICES ASSUME lacking # {} PROVE FALSE
      OBVIOUS
    <3> HIDE DEF built
    <3>1. PICK k \in lacking : \A j \in lacking : ~(j < k)
      <4>1. lacking \subseteq Nat
        OBVIOUS
      <4> HIDE DEF lacking
      <4> QED BY <4>1, Smallest
    <3>2. k \in 0..n /\ k \in Nat /\ ~built(k)
      OBVIOUS
    <3>3. CASE k = 0
      <4> DEFINE g == [i \in 1..0 |-> <<>>]
      <4>1. g \in [1..0 -> Seq(S)] /\ upTo(g, 0)
        <5>1. 1..0 = {}
          OBVIOUS
        <5>2. \A h : upTo(h, 0) <=> h = [i \in {} |-> next(h, i)]
          BY <5>1
        <5>3. g = [i \in {} |-> next(g, i)]
          BY <5>1
        <5> QED BY <5>1, <5>2, <5>3
      <4> QED BY <3>2, <3>3, <4>1 DEF built
    <3>4. CASE k # 0
      <4>1. k - 1 \in 0..n /\ k - 1 < k /\ k - 1 \notin lacking
        BY <3>1, <3>2, <3>4
      <4>2. PICK g \in [1..k - 1 -> Seq(S)] : upTo(g, k - 1)
        BY <4>1 DEF built
      <4> DEFINE h == [i \in 1..k |-> next(g, i)]
      <4>3. \A i \in 1..k - 1 : g[i] = next(g, i)
        BY <4>2
      <4>4. ASSUME NEW i \in 1..k PROVE next(g, i) \in Seq(S) /\ next(h, i) = next(g, i)
        <5>1. i \in 1..n /\ seqs[i] \in Seq(S)
          BY <3>2
        <5>2. CASE i = 1
          BY <5>1, <5>2
        <5>3. CASE i # 1
          <6>1. i - 1 \in 1..k - 1 /\ i - 1 \in 1..k
            BY <5>3, <3>2
          <6>2. g[i - 1] \in Seq(S) /\ h[i - 1] = g[i - 1]
            BY <4>3, <6>1
          <6>3. next(g, i) = g[i - 1] \o seqs[i] /\ next(h, i) = h[i - 1] \o seqs[i]
            BY <5>3
          <6> HIDE DEF h, next
          <6>4. g[i - 1] \o seqs[i] \in Seq(S)
            BY <5>1, <6>2, ConcatProperties
          <6> QED BY <6>2, <6>3, <6>4
        <5> QED BY <5>2, <5>3
      <4> HIDE DEF next
      <4>5. h \in [1..k -> Seq(S)] /\ h = [i \in 1..k |-> next(h, i)]
        <5>1. h \in [1..k -> Seq(S)]
          BY <4>4
        <5>2. [i \in 1..k |-> next(g, i)] = [i \in 1..k |-> next(h, i)]
          <6>1. \A i \in 1..k : next(g, i) = next(h, i)
            BY <4>4
          <6> HIDE DEF h
          <6> QED BY <6>1
        <5> QED BY <5>1, <5>2
      <4> HIDE DEF h
      <4> QED BY <3>2, <4>5 DEF built
    <3> QED BY <3>3, <3>4
  <2>4. upTo(flat, n)
    <3>1. \E g : upTo(g, n)
      <4>1. n \in 0..n
        OBVIOUS
      <4> HIDE DEF upTo
      <4> QED BY <2>3, <4>1
    <3> HIDE DEF upTo
    <3> QED BY <3>1, Zenon DEF flat
  <2>5. \A i \in 1..n : flat[i] \in Seq(S)
    <3> DEFINE odd == {i \in 1..n : flat[i] \notin Seq(S)}
    <3> SUFFICES ASSUME odd # {} PROVE FALSE
      OBVIOUS
    <3>1. PICK i \in odd : \A j \in odd : ~(j < i)
      <4>1. odd \subseteq Nat
        OBVIOUS
      <4> HIDE DEF odd
      <4> QED BY <4>1, Smallest
    <3>2. i \in 1..n /\ seqs[i] \in Seq(S) /\ flat[i] \notin Seq(S) /\ flat[i] = next(flat, i)
      BY <2>4
    <3>3. i # 1
      BY <3>2
    <3>4. i - 1 \in 1..n /\ i - 1 < i /\ i - 1 \notin odd
      BY <3>1, <3>2, <3>3
    <3>5. flat[i - 1] \in Seq(S) /\ flat[i] = flat[i - 1] \o seqs[i]
      BY <3>2, <3>3, <3>4
    <3> HIDE DEF next
    <3>6. flat[i - 1] \o seqs[i] \in Seq(S)
      BY <3>2, <3>5, ConcatProperties
    <3> QED BY <3>2, <3>5, <3>6
  <2>6. \A i \in 1..n : \A j \in 1..i : HoldsAll(flat[i], seqs[j])
    <3> DEFINE full(i) == \A j \in 1..i : HoldsAll(flat[i], seqs[j])
               odd == {i \in 1..n : ~full(i)}
    <3> SUFFICES ASSUME odd # {} PROVE FALSE
      OBVIOUS
    <3>1. PICK i \in odd : \A j \in odd : ~(j < i)
      <4>1. odd \subseteq Nat
        OBVIOUS
      <4> HIDE DEF odd
      <4> QED BY <4>1, Smallest
    <3>2. i \in 1..n /\ seqs[i] \in Seq(S) /\ flat[i] \in Seq(S) /\ flat[i] = next(flat, i)
      BY <2>4, <2>5
    <3>a. ~full(i) /\ \A j \in 1..n : j < i => full(j)
      <4>1. /\ \A j : j \in odd <=> j \in 1..n /\ ~full(j)
        OBVIOUS
      <4> HIDE DEF odd, full
      <4> QED BY <3>1, <4>1
    <3> HIDE DEF odd
    <3>3. CASE i = 1
      <4>1. flat[i] = seqs[i] /\ 1..i = {i}
        BY <3>2, <3>3
      <4>2. full(i)
        BY <4>1 DEF HoldsAll
      <4> QED BY <3>a, <4>2
    <3>4. CASE i # 1
      <4>0. i - 1 \in 1..n /\ i - 1 < i
        BY <3>2, <3>4
      <4>1. flat[i - 1] \in Seq(S) /\ flat[i] = flat[i - 1] \o seqs[i]
        BY <2>5, <3>2, <3>4, <4>0
      <4>2. full(i - 1)
        <5> HIDE DEF full
        <5> QED BY <3>a, <4>0
      <4> HIDE DEF next
      <4>3. HoldsAll(flat[i], flat[i - 1]) /\ HoldsAll(flat[i], seqs[i])
        BY <3>2, <4>1, JoinedHold
      <4>4. \A j \in 1..i : j \in 1..i - 1 \/ j = i
        BY <3>2
      <4>5. ASSUME NEW j \in 1..i PROVE HoldsAll(flat[i], seqs[j])
        <5>1. CASE j = i
          BY <4>3, <5>1
        <5>2. CASE j \in 1..i - 1
          <6>1. HoldsAll(flat[i - 1], seqs[j])
            BY <4>2, <5>2
          <6> QED BY <4>3, <6>1, HoldsOn
        <5> QED BY <4>4, <5>1, <5>2
      <4> QED BY <3>a, <4>5
    <3> QED BY <3>3, <3>4
  <2>7. n \in 1..n
    BY <1>3
  <2> QED BY <2>1, <2>5, <2>6, <2>7
<1> QED BY <1>2, <1>3

-----------------------------------------------------------------------------
(* The memory of a conversation.  A checkpoint is drawn from the messages  *)
(* it covers; the next chunk is of messages that begin with those.         *)

Message == Nat \X Nat
Piece == {m \o <<b>> : m \in Message, b \in {0, 1}}

Drawn(c) ==
  LET n == Len(c.summary) - Len(c.text)
  IN  /\ c.covered \in Seq(Message) /\ c.done \in Nat /\ c.done <= 2 * Len(c.covered)
      /\ c.summary \in Seq(Piece) /\ c.text \in Seq(Piece)
      /\ c.summary = SubSeq(Units(c.covered), 1, c.done)
      /\ n >= 0 /\ (n > 0 => c.summary[n][2] # c.day)
      /\ \A k \in 1..Len(c.text) : c.text[k] = c.summary[n + k]
      /\ \A i \in n + 1..Len(c.summary) : c.summary[i][2] = c.day
      /\ c.done > 0 => c.text # <<>>

MemoryInv ==
  /\ file \in Seq(Message) /\ written \in Nat /\ today \in Nat
  /\ Drawn(checkpoint) /\ Drawn(update.next)

(* The units of messages                                                   *)
LEMMA UnitsOf ==
  ASSUME NEW ms \in Seq(Message)
  PROVE  /\ Units(ms) \in Seq(Piece) /\ Len(Units(ms)) = 2 * Len(ms)
         /\ \A k \in 1..2 * Len(ms) : /\ Units(ms)[k] = ms[(k + 1) \div 2] \o <<k % 2>>
                                      /\ (k + 1) \div 2 \in 1..Len(ms)
<1> DEFINE l == 2 * Len(ms)
<1>1. Len(ms) \in Nat /\ l \in Nat /\ \A j \in 1..Len(ms) : ms[j] \in Message
  BY LenProperties, ElementOfSeq
<1>2. \A k \in 1..l : (k + 1) \div 2 \in 1..Len(ms) /\ k % 2 \in {0, 1}
  BY <1>1
<1>3. \A k \in 1..l : ms[(k + 1) \div 2] \o <<k % 2>> \in Piece
  <2>1. \A m \in Message, b \in {0, 1} : m \o <<b>> \in Piece
    BY DEF Piece
  <2> HIDE DEF l
  <2> QED BY <1>1, <1>2, <2>1
<1>4. Units(ms) = [k \in 1..l |-> ms[(k + 1) \div 2] \o <<k % 2>>]
  BY DEF Units
<1> HIDE DEF l
<1>5. Units(ms) \in [1..l -> Piece]
  BY <1>3, <1>4
<1>6. Units(ms) \in Seq(Piece) /\ Len(Units(ms)) = l
  BY <1>1, <1>5
<1> QED BY <1>2, <1>4, <1>6 DEF l

(* A chunk has a unit at least, and its units are of one day.              *)
LEMMA ChunkEnds ==
  ASSUME NEW us, Len(us) \in Nat, NEW done \in Nat, done < Len(us), NEW end, end = ChunkEnd(us, done)
  PROVE  /\ end \in Nat /\ done < end /\ end <= Len(us)
         /\ \A i \in done + 1..end : us[i][2] = us[done + 1][2]
<1> DEFINE E == {n \in done..Len(us) : /\ n - done <= MaxChunk
                                       /\ \A i \in done + 1..n : us[i][2] = us[done + 1][2]}
<1>1. done + 1 \in E
  <2>1. \A i \in done + 1..done + 1 : i = done + 1
    OBVIOUS
  <2>2. done + 1 \in done..Len(us) /\ (done + 1) - done <= MaxChunk
    BY MemoryAssumption
  <2> QED BY <2>1, <2>2
<1>2. E \subseteq 0..Len(us) /\ \A n \in E : n \in Nat
  OBVIOUS
<1>3. end = Max(E)
  BY DEF ChunkEnd
<1>4. end \in E /\ \A n \in E : end >= n
  <2> HIDE DEF E
  <2>1. \E x \in E : \A y \in E : x >= y
    BY <1>1, <1>2, Greatest
  <2> QED BY <1>3, <2>1 DEF Max
<1> QED BY <1>1, <1>4

LEMMA NoCheckpointDrawn == Drawn(NoCheckpoint)
<1>1. /\ NoCheckpoint.covered = <<>> /\ NoCheckpoint.done = 0
      /\ NoCheckpoint.summary = <<>> /\ NoCheckpoint.text = <<>>
  BY DEF NoCheckpoint
<1>2. SubSeq(Units(<<>>), 1, 0) = <<>>
  BY SubSeqEmpty
<1>3. <<>> \in Seq(Message) /\ <<>> \in Seq(Piece) /\ Len(<<>>) = 0
  BY EmptySeq
<1> QED BY <1>1, <1>2, <1>3 DEF Drawn

(* The pieces of messages that begin with others begin with theirs.        *)
LEMMA UnitsOfPrefix ==
  ASSUME NEW ms \in Seq(Message), NEW c \in Seq(Message), IsPrefix(c, ms)
  PROVE  /\ Len(c) <= Len(ms)
         /\ \A k \in 1..2 * Len(c) : k \in 1..2 * Len(ms) /\ Units(c)[k] = Units(ms)[k]
<1>1. /\ Len(c) \in Nat /\ Len(ms) \in Nat /\ Len(c) <= Len(ms)
      /\ SubSeq(c, 1, Len(c)) = SubSeq(ms, 1, Len(c))
  BY LenProperties DEF IsPrefix
<1>2. \A j \in 1..Len(c) : c[j] = ms[j]
  <2>1. \A j \in 1..(Len(c) + 1 - 1) : SubSeq(c, 1, Len(c))[j] = c[j + 1 - 1]
    <3>1. 1 \in Nat /\ 1 <= 1 /\ 1 <= Len(c) + 1 /\ Len(c) <= Len(c)
      BY <1>1
    <3> QED BY <1>1, <3>1, Part
  <2>2. \A j \in 1..(Len(c) + 1 - 1) : SubSeq(ms, 1, Len(c))[j] = ms[j + 1 - 1]
    <3>1. 1 \in Nat /\ 1 <= 1 /\ 1 <= Len(c) + 1
      BY <1>1
    <3> QED BY <1>1, <3>1, Part
  <2>3. \A j \in 1..Len(c) : j \in 1..(Len(c) + 1 - 1) /\ j + 1 - 1 = j
    BY <1>1
  <2> QED BY <1>1, <2>1, <2>2, <2>3
<1>3. ASSUME NEW k \in 1..2 * Len(c) PROVE k \in 1..2 * Len(ms) /\ Units(c)[k] = Units(ms)[k]
  <2>1. k \in 1..2 * Len(ms)
    BY <1>1
  <2>2. /\ Units(c)[k] = c[(k + 1) \div 2] \o <<k % 2>> /\ (k + 1) \div 2 \in 1..Len(c)
        /\ Units(ms)[k] = ms[(k + 1) \div 2] \o <<k % 2>>
    BY <2>1, UnitsOf
  <2> QED BY <1>2, <2>1, <2>2
<1> QED BY <1>1, <1>3

(* A checkpoint that is extended by a chunk is drawn from what it covers.  *)
LEMMA ExtendedDrawn ==
  ASSUME NEW c, Drawn(c), NEW ms \in Seq(Message), IsPrefix(c.covered, ms), c.done < Len(Units(ms)),
         NEW e, e = Extended(c, ms)
  PROVE  Drawn(e)
<1> DEFINE us == Units(ms)
           done == c.done
           end == ChunkEnd(us, done)
           chunk == SubSeq(us, done + 1, end)
           day == chunk[1][2]
           old == IF c.day = day THEN c.text ELSE <<>>
           n == Len(c.summary) - Len(c.text)
           covered == SubSeq(ms, 1, (end + 1) \div 2)
           summary == c.summary \o chunk
           text == old \o chunk
<1>1. /\ us \in Seq(Piece) /\ Len(us) = 2 * Len(ms) /\ Len(ms) \in Nat /\ Len(us) \in Nat
  BY UnitsOf, LenProperties
<1>2. /\ c.covered \in Seq(Message) /\ done \in Nat /\ done <= 2 * Len(c.covered)
      /\ Len(c.covered) \in Nat /\ Len(c.covered) <= Len(ms)
      /\ \A k \in 1..2 * Len(c.covered) : Units(c.covered)[k] = us[k]
  <2>1. c.covered \in Seq(Message) /\ done \in Nat /\ done <= 2 * Len(c.covered)
    BY DEF Drawn
  <2> QED BY <2>1, UnitsOfPrefix, LenProperties
<1>3. /\ end \in Nat /\ done < end /\ end <= Len(us)
      /\ \A i \in done + 1..end : us[i][2] = us[done + 1][2]
  <2>1. done < Len(us) /\ end = ChunkEnd(us, done)
    OBVIOUS
  <2> HIDE DEF us, done, end
  <2> QED BY <1>1, <1>2, <2>1, ChunkEnds
<1>4. /\ e.covered = covered /\ e.done = end /\ e.summary = summary /\ e.day = day /\ e.text = text
  <2>1. e = [covered |-> covered, done |-> end, summary |-> summary, day |-> day, text |-> text]
    BY DEF Extended
  <2> HIDE DEF us, end, chunk, day, old, covered, summary, text
  <2> QED BY <2>1
<1> HIDE DEF us, end, n, day, old, summary, text
<1> HIDE DEF done
<1>5. /\ chunk \in Seq(Piece) /\ Len(chunk) = end - done
      /\ \A k \in 1..(end - done) : chunk[k] = us[k + done]
  <2>1. done + 1 \in Nat /\ 1 <= done + 1 /\ done + 1 <= end + 1 /\ end <= Len(us)
    BY <1>2, <1>3
  <2>2. /\ chunk \in Seq(Piece) /\ Len(chunk) = end + 1 - (done + 1)
        /\ \A k \in 1..(end + 1 - (done + 1)) : chunk[k] = us[k + (done + 1) - 1]
    BY SMTT(60), <1>1, <1>3, <2>1, Part
  <2>3. /\ end + 1 - (done + 1) = end - done
        /\ \A k \in 1..(end - done) : k + (done + 1) - 1 = k + done
    BY <1>2, <1>3
  <2> QED BY <2>2, <2>3
<1>6. /\ covered \in Seq(Message) /\ end <= 2 * Len(covered)
      /\ \A k \in 1..end : k \in 1..2 * Len(covered) /\ Units(covered)[k] = us[k]
  <2> DEFINE h == (end + 1) \div 2
  <2>1. h \in Nat /\ h <= Len(ms) /\ end <= 2 * h
    BY <1>1, <1>3
  <2> HIDE DEF h
  <2>2. /\ covered \in Seq(Message) /\ Len(covered) = h
        /\ \A j \in 1..h : covered[j] = ms[j]
    <3>1. 1 \in Nat /\ 1 <= 1 /\ 1 <= h + 1 /\ h + 1 - 1 = h /\ \A j \in 1..h : j + 1 - 1 = j
      BY <2>1
    <3>2. /\ SubSeq(ms, 1, h) \in Seq(Message) /\ Len(SubSeq(ms, 1, h)) = h + 1 - 1
          /\ \A j \in 1..(h + 1 - 1) : SubSeq(ms, 1, h)[j] = ms[j + 1 - 1]
      BY <2>1, <3>1, Part
    <3> QED BY <3>1, <3>2 DEF h
  <2> HIDE DEF covered
  <2>3. ASSUME NEW k \in 1..end PROVE k \in 1..2 * Len(covered) /\ Units(covered)[k] = us[k]
    <3>1. k \in 1..2 * Len(covered) /\ k \in 1..2 * Len(ms)
      BY <1>1, <1>3, <2>1, <2>2
    <3>2. /\ Units(covered)[k] = covered[(k + 1) \div 2] \o <<k % 2>>
          /\ us[k] = ms[(k + 1) \div 2] \o <<k % 2>> /\ (k + 1) \div 2 \in 1..Len(covered)
      BY <2>2, <3>1, UnitsOf DEF us
    <3> QED BY <2>2, <3>1, <3>2
  <2> QED BY <2>1, <2>2, <2>3
<1> HIDE DEF covered, chunk
<1>7. /\ c.summary \in Seq(Piece) /\ Len(c.summary) = done
      /\ \A k \in 1..done : c.summary[k] = us[k]
  <2> DEFINE v == Units(c.covered)
  <2>1. v \in Seq(Piece) /\ Len(v) = 2 * Len(c.covered)
    BY <1>2, UnitsOf
  <2>2. c.summary = SubSeq(v, 1, done)
    BY DEF Drawn, done
  <2> HIDE DEF v
  <2>3. 1 \in Nat /\ 1 <= 1 /\ 1 <= done + 1 /\ done <= Len(v) /\ done + 1 - 1 = done
    BY <1>2, <2>1
  <2>4. /\ SubSeq(v, 1, done) \in Seq(Piece) /\ Len(SubSeq(v, 1, done)) = done + 1 - 1
        /\ \A k \in 1..(done + 1 - 1) : SubSeq(v, 1, done)[k] = v[k + 1 - 1]
    BY <1>2, <2>1, <2>3, Part
  <2>5. \A k \in 1..done : k + 1 - 1 = k /\ k \in 1..2 * Len(c.covered)
    BY <1>2
  <2>6. \A k \in 1..done : v[k] = us[k]
    BY <1>2, <2>5 DEF v
  <2> QED BY <2>2, <2>3, <2>4, <2>5, <2>6
<1>8. /\ summary \in Seq(Piece) /\ Len(summary) = end
      /\ \A k \in 1..end : summary[k] = us[k]
  <2>1. /\ summary \in Seq(Piece) /\ Len(summary) = Len(c.summary) + Len(chunk)
        /\ \A k \in 1..Len(c.summary) + Len(chunk) :
             summary[k] = IF k <= Len(c.summary) THEN c.summary[k] ELSE chunk[k - Len(c.summary)]
    <3>1. c.summary \in Seq(Piece) /\ chunk \in Seq(Piece)
      BY <1>5, <1>7
    <3> QED BY <3>1, ConcatProperties DEF summary
  <2> HIDE DEF summary
  <2>2. Len(summary) = end
    BY <1>2, <1>3, <1>5, <1>7, <2>1
  <2>3. ASSUME NEW k \in 1..end PROVE summary[k] = us[k]
    <3>1. summary[k] = IF k <= done THEN c.summary[k] ELSE chunk[k - done]
      <4>1. Len(c.summary) + Len(chunk) = end
        BY <1>2, <1>3, <1>5, <1>7
      <4> QED BY <1>7, <2>1, <4>1
    <3>2. CASE k <= done
      <4>1. k \in 1..done
        BY <1>2, <1>3, <3>2
      <4> QED BY <1>7, <3>1, <3>2, <4>1
    <3>3. CASE ~(k <= done)
      <4>1. k - done \in 1..(end - done) /\ (k - done) + done = k
        BY <1>2, <1>3, <3>3
      <4>2. chunk[k - done] = us[(k - done) + done]
        BY <1>5, <4>1
      <4> QED BY <3>1, <3>3, <4>1, <4>2
    <3> QED BY <3>2, <3>3
  <2> QED BY <2>1, <2>2, <2>3
<1> HIDE DEF summary
<1>9. summary = SubSeq(Units(covered), 1, end)
  <2> DEFINE v == Units(covered)
             t == SubSeq(v, 1, end)
  <2>1. v \in Seq(Piece) /\ Len(v) = 2 * Len(covered) /\ Len(covered) \in Nat
    BY <1>6, UnitsOf, LenProperties
  <2>2. \A k \in 1..end : v[k] = us[k]
    BY <1>6
  <2> HIDE DEF v
  <2>3. 1 \in Nat /\ 1 <= 1 /\ 1 <= end + 1 /\ end <= Len(v) /\ end + 1 - 1 = end
    BY <1>3, <1>6, <2>1
  <2>4. /\ t \in Seq(Piece) /\ Len(t) = end + 1 - 1
        /\ \A k \in 1..(end + 1 - 1) : t[k] = v[k + 1 - 1]
    BY <1>3, <2>1, <2>3, Part
  <2> HIDE DEF t
  <2>5. \A k \in 1..end : k + 1 - 1 = k /\ t[k] = us[k]
    BY <1>3, <2>2, <2>3, <2>4
  <2>6. summary = t
    BY <1>8, <2>3, <2>4, <2>5, SeqEqual
  <2> QED BY <2>6 DEF t, v
<1>10. /\ c.text \in Seq(Piece) /\ Len(c.text) \in Nat /\ n \in Nat /\ n + Len(c.text) = done
       /\ n > 0 => us[n][2] # c.day
       /\ \A k \in 1..Len(c.text) : c.text[k] = us[n + k]
       /\ \A i \in n + 1..done : us[i][2] = c.day
       /\ done > 0 => Len(c.text) > 0
  <2>1. /\ c.text \in Seq(Piece) /\ n >= 0
        /\ n > 0 => c.summary[n][2] # c.day
        /\ \A k \in 1..Len(c.text) : c.text[k] = c.summary[n + k]
        /\ \A i \in n + 1..Len(c.summary) : c.summary[i][2] = c.day
        /\ done > 0 => c.text # <<>>
    BY Zenon DEF Drawn, n, done
  <2>2. Len(c.text) \in Nat /\ (c.text # <<>> => Len(c.text) > 0)
    BY <2>1, LenProperties, EmptySeq
  <2>3. n \in Nat /\ n + Len(c.text) = done
    <3>1. n = done - Len(c.text)
      BY <1>7 DEF n
    <3>2. n >= 0 /\ done \in Nat /\ Len(c.text) \in Nat
      BY <1>2, <2>1, <2>2
    <3> QED BY ONLY <3>1, <3>2
  <2> HIDE DEF n
  <2>4. /\ \A k \in 1..Len(c.text) : n + k \in 1..done
        /\ \A i \in n + 1..done : i \in 1..done
        /\ n > 0 => n \in 1..done
    BY <1>2, <2>2, <2>3
  <2>5. \A k \in 1..Len(c.text) : c.text[k] = us[n + k]
    BY <1>7, <2>1, <2>4
  <2>6. n > 0 => us[n][2] # c.day
    BY <1>7, <2>1, <2>4
  <2>7. \A i \in n + 1..done : us[i][2] = c.day
    BY <1>7, <2>1, <2>4
  <2>8. done > 0 => Len(c.text) > 0
    BY <2>1, <2>2
  <2> QED BY <2>1, <2>2, <2>3, <2>5, <2>6, <2>7, <2>8
<1> HIDE DEF n
<1>11. day = us[done + 1][2] /\ \A i \in done + 1..end : us[i][2] = day
  <2>1. 1 \in 1..(end - done) /\ 1 + done = done + 1
    BY <1>2, <1>3
  <2>2. chunk[1] = us[done + 1]
    BY <1>5, <2>1
  <2> QED BY <1>3, <2>2 DEF day
<1>12. ASSUME NEW a \in Nat, a <= done, old \in Seq(Piece), Len(old) = done - a,
              \A k \in 1..(done - a) : old[k] = us[a + k],
              \A i \in a + 1..done : us[i][2] = day,
              a > 0 => us[a][2] # day
       PROVE  Drawn(e)
  <2> HIDE DEF day, old
  <2>1. /\ text \in Seq(Piece) /\ Len(text) = Len(old) + Len(chunk)
        /\ \A k \in 1..Len(old) + Len(chunk) :
             text[k] = IF k <= Len(old) THEN old[k] ELSE chunk[k - Len(old)]
    BY <1>5, <1>12, ConcatProperties, ZenonT(40) DEF text
  <2>2. Len(old) + Len(chunk) = end - a /\ end - (end - a) = a /\ end - a > 0
    BY <1>2, <1>3, <1>5, <1>12
  <2> HIDE DEF text
  <2>3. ASSUME NEW k \in 1..(end - a) PROVE text[k] = us[a + k]
    <3>1. text[k] = IF k <= done - a THEN old[k] ELSE chunk[k - (done - a)]
      BY <1>12, <2>1, <2>2
    <3>2. CASE k <= done - a
      <4>1. k \in 1..(done - a)
        BY <1>2, <1>12, <3>2
      <4> QED BY <1>12, <3>1, <3>2, <4>1
    <3>3. CASE ~(k <= done - a)
      <4>1. k - (done - a) \in 1..(end - done) /\ (k - (done - a)) + done = a + k
        BY <1>2, <1>3, <1>12, <3>3
      <4>2. chunk[k - (done - a)] = us[(k - (done - a)) + done]
        BY <1>5, <4>1
      <4> QED BY <3>1, <3>3, <4>1, <4>2
    <3> QED BY <3>2, <3>3
  <2>4. /\ \A k \in 1..(end - a) : a + k \in 1..end
        /\ a > 0 => a \in 1..end
        /\ \A i \in a + 1..end : i \in 1..end /\ (i \in a + 1..done \/ i \in done + 1..end)
    BY <1>2, <1>3, <1>12
  <2>5. /\ a > 0 => summary[a][2] # day
        /\ \A k \in 1..(end - a) : text[k] = summary[a + k]
        /\ \A i \in a + 1..end : summary[i][2] = day
    BY <1>8, <1>11, <1>12, <2>3, <2>4
  <2>6. text # <<>>
    BY <2>1, <2>2, EmptySeq
  <2>7. Len(e.summary) - Len(e.text) = a /\ Len(e.text) = end - a /\ Len(e.summary) = end
    BY <1>4, <1>8, <2>1, <2>2
  <2>8. /\ \A k \in 1..Len(e.text) : e.text[k] = e.summary[a + k]
        /\ \A i \in a + 1..Len(e.summary) : e.summary[i][2] = e.day
        /\ a > 0 => e.summary[a][2] # e.day
    BY <1>4, <2>5, <2>7
  <2>9. /\ e.covered \in Seq(Message) /\ e.done \in Nat /\ e.done <= 2 * Len(e.covered)
        /\ e.summary \in Seq(Piece) /\ e.text \in Seq(Piece)
        /\ e.summary = SubSeq(Units(e.covered), 1, e.done)
        /\ a >= 0 /\ e.text # <<>>
    BY <1>3, <1>4, <1>6, <1>8, <1>9, <2>1, <2>6
  <2> QED BY <2>7, <2>8, <2>9 DEF Drawn
<1>13. CASE c.day = day
  <2>1. old = c.text /\ n <= done /\ Len(old) = done - n
    BY <1>2, <1>10, <1>13 DEF old
  <2> HIDE DEF old, day
  <2>2. \A k \in 1..(done - n) : old[k] = us[n + k]
    BY <1>10, <2>1
  <2> QED BY <1>10, <1>12, <1>13, <2>1, <2>2
<1>14. CASE c.day # day
  <2>1. old = <<>> /\ <<>> \in Seq(Piece) /\ Len(<<>>) = 0
    BY <1>14, EmptySeq DEF old
  <2> HIDE DEF old
  <2>2. Len(old) = done - done /\ done <= done
    BY <1>2, <2>1
  <2>3. /\ \A k \in 1..(done - done) : FALSE
        /\ \A i \in done + 1..done : FALSE
    BY <1>2
  <2>4. done > 0 => us[done][2] = c.day
    <3>1. done > 0 => done \in n + 1..done
      BY <1>2, <1>10
    <3> QED BY <1>10, <3>1
  <2> HIDE DEF day
  <2> QED BY <1>2, <1>12, <1>14, <2>1, <2>2, <2>3, <2>4
<1> QED BY <1>13, <1>14

(* What is drawn as a checkpoint is what MemoryFaithful says it is.        *)
LEMMA DrawnFaithful == Drawn(checkpoint) => MemoryFaithful
<1> SUFFICES ASSUME Drawn(checkpoint) PROVE MemoryFaithful
  OBVIOUS
<1> DEFINE s == checkpoint.summary
           t == checkpoint.text
           n == Len(s) - Len(t)
           p == SubSeq(s, n + 1, Len(s))
<1>1. /\ s \in Seq(Piece) /\ t \in Seq(Piece) /\ n >= 0
      /\ s = SubSeq(Units(checkpoint.covered), 1, checkpoint.done)
      /\ n > 0 => s[n][2] # checkpoint.day
      /\ \A k \in 1..Len(t) : t[k] = s[n + k]
      /\ \A i \in n + 1..Len(s) : s[i][2] = checkpoint.day
  BY Zenon DEF Drawn
<1>2. Len(s) \in Nat /\ Len(t) \in Nat
  BY <1>1, LenProperties
<1>3. t = p
  <2>1. /\ n \in Nat /\ n + 1 \in Nat /\ 1 <= n + 1 /\ n + 1 <= Len(s) + 1 /\ Len(s) <= Len(s)
        /\ Len(s) + 1 - (n + 1) = Len(t) /\ \A k \in 1..Len(t) : k + (n + 1) - 1 = n + k
    <3>1. n = Len(s) - Len(t) /\ n >= 0
      BY <1>1
    <3> HIDE DEF n, s, t
    <3> QED BY <1>2, <3>1
  <2> HIDE DEF n, s, t
  <2>2. /\ p \in Seq(Piece) /\ Len(p) = Len(s) + 1 - (n + 1)
        /\ \A k \in 1..(Len(s) + 1 - (n + 1)) : p[k] = s[k + (n + 1) - 1]
    BY <1>1, <1>2, <2>1, Part, SMTT(20)
  <2> HIDE DEF p
  <2>3. Len(p) = Len(t) /\ \A k \in 1..Len(t) : p[k] = t[k]
    BY <1>1, <2>1, <2>2
  <2> QED BY <1>1, <2>2, <2>3, SeqEqual
<1> QED BY <1>1, <1>3, Zenon DEF MemoryFaithful

LEMMA NothingBegins ==
  ASSUME NEW ms \in Seq(Message)
  PROVE  IsPrefix(NoCheckpoint.covered, ms)
<1>1. NoCheckpoint.covered = <<>> /\ Len(<<>>) = 0 /\ Len(ms) \in Nat
  BY EmptySeq, LenProperties DEF NoCheckpoint
<1>2. SubSeq(<<>>, 1, 0) = <<>> /\ SubSeq(ms, 1, 0) = <<>>
  BY SubSeqEmpty
<1> QED BY <1>1, <1>2 DEF IsPrefix

LEMMA MemoryInitInv == MemoryInit => MemoryInv
<1> SUFFICES ASSUME MemoryInit PROVE MemoryInv
  OBVIOUS
<1>1. file = <<>> /\ written = 0 /\ today = 1 /\ checkpoint = NoCheckpoint
      /\ update.next = NoCheckpoint
  BY DEF MemoryInit, NoUpdate
<1>2. <<>> \in Seq(Message)
  BY EmptySeq
<1> QED BY <1>1, <1>2, NoCheckpointDrawn DEF MemoryInv

(* The file goes on as a sequence of messages.                             *)
LEMMA FileStep ==
  ASSUME MemoryInv, Converse \/ Midnight \/ Rewrite
  PROVE  MemoryInv'
<1>1. /\ file \in Seq(Message) /\ written \in Nat /\ today \in Nat /\ NewMessage \in Message
      /\ Drawn(checkpoint) /\ Drawn(update.next) /\ Len(file) \in Nat
  BY LenProperties DEF MemoryInv, NewMessage, Message
<1>2. UNCHANGED <<checkpoint, update>>
  BY DEF Converse, Midnight, Rewrite
<1>3. Drawn(checkpoint)' /\ Drawn(update.next)'
  <2>1. checkpoint' = checkpoint /\ update'.next = update.next
    BY <1>2
  <2> QED BY <1>1, <2>1
<1>4. CASE Converse
  <2>1. file' \in Seq(Message) /\ written' \in Nat /\ today' = today
    BY <1>1, <1>4, AppendProperties DEF Converse
  <2> QED BY <1>1, <1>3, <2>1 DEF MemoryInv
<1>5. CASE Midnight
  <2>1. file' = file /\ written' = written /\ today' \in Nat
    BY <1>1, <1>5 DEF Midnight
  <2> QED BY <1>1, <1>3, <2>1 DEF MemoryInv
<1>6. CASE Rewrite
  <2>1. \A k \in 1..Len(file) :
          /\ SubSeq(file, 1, k - 1) \in Seq(Message)
          /\ SubSeq(file, k + 1, Len(file)) \in Seq(Message)
    <3>1. TAKE k \in 1..Len(file)
    <3>2. /\ 1 \in Nat /\ k - 1 \in Nat /\ 1 <= 1 /\ 1 <= (k - 1) + 1 /\ k - 1 <= Len(file)
          /\ k + 1 \in Nat /\ 1 <= k + 1 /\ k + 1 <= Len(file) + 1 /\ Len(file) <= Len(file)
      BY <1>1
    <3>3. SubSeq(file, 1, k - 1) \in Seq(Message)
      BY <1>1, <3>2, Part
    <3>4. SubSeq(file, k + 1, Len(file)) \in Seq(Message)
      BY <1>1, <3>2, Part
    <3> QED BY <3>3, <3>4
  <2>2. file' \in Seq(Message) /\ written' \in Nat /\ today' = today
    <3>1. <<NewMessage>> \in Seq(Message)
      BY <1>1
    <3>2. \A r \in Seq(Message) : <<NewMessage>> \o r \in Seq(Message)
      BY <3>1, ConcatProperties
    <3>3. today' = today /\ written' \in {written, written + 1}
      BY <1>6 DEF Rewrite
    <3>4. \/ \E k \in 1..Len(file) : file' = SubSeq(file, 1, k - 1)
          \/ \E k \in 1..Len(file) : file' = <<NewMessage>> \o SubSeq(file, k + 1, Len(file))
      BY <1>6 DEF Rewrite
    <3>5. file' \in Seq(Message)
      BY <2>1, <3>2, <3>4
    <3> QED BY <1>1, <3>3, <3>5
  <2> QED BY <1>1, <1>3, <2>2 DEF MemoryInv
<1> QED BY <1>4, <1>5, <1>6

(* An update that begins draws the next checkpoint from the last, if the   *)
(* file still begins with what it covers, and from nothing otherwise.      *)
LEMMA UpdateStep ==
  ASSUME MemoryInv, NEW proceeds \in BOOLEAN, BeginUpdate(proceeds)
  PROVE  MemoryInv'
<1> DEFINE prior == IF Matches(checkpoint, file) THEN checkpoint ELSE NoCheckpoint
<1>1. /\ file \in Seq(Message) /\ written \in Nat /\ today \in Nat
      /\ Drawn(checkpoint) /\ Drawn(update.next)
  BY DEF MemoryInv
<1>2. UNCHANGED <<file, written, today, checkpoint>>
  BY DEF BeginUpdate
<1>3. \/ update'.next = NoCheckpoint
      \/ prior.done < Len(Units(file)) /\ update'.next = Extended(prior, file)
  BY DEF BeginUpdate, NoUpdate
<1>4. Drawn(prior) /\ IsPrefix(prior.covered, file)
  BY <1>1, NoCheckpointDrawn, NothingBegins DEF Matches
<1> HIDE DEF prior
<1>5. Drawn(update'.next)
  BY <1>1, <1>3, <1>4, NoCheckpointDrawn, ExtendedDrawn
<1> QED BY <1>1, <1>2, <1>5 DEF MemoryInv

LEMMA MemoryStep == MemoryInv /\ [MemoryNext]_memoryVars => MemoryInv'
<1> SUFFICES ASSUME MemoryInv, [MemoryNext]_memoryVars PROVE MemoryInv'
  OBVIOUS
<1> DEFINE same == UNCHANGED <<file, written, today>>
           keeps(v) == same /\ checkpoint' = checkpoint /\ update'.next = v
<1>1. /\ file \in Seq(Message) /\ written \in Nat /\ today \in Nat
      /\ Drawn(checkpoint) /\ Drawn(update.next)
  BY DEF MemoryInv
<1>2. ASSUME keeps(update.next) \/ keeps(NoCheckpoint) PROVE MemoryInv'
  BY <1>1, <1>2, NoCheckpointDrawn DEF MemoryInv
<1>3. ASSUME same, checkpoint' = update.next, update'.next = NoCheckpoint PROVE MemoryInv'
  BY <1>1, <1>3, NoCheckpointDrawn DEF MemoryInv
<1>4. CASE Converse \/ Midnight \/ Rewrite
  BY <1>4, FileStep
<1>5. ASSUME NEW proceeds \in BOOLEAN, BeginUpdate(proceeds) PROVE MemoryInv'
  BY <1>5, UpdateStep
<1>6. CASE CheckSource
  <2>1. keeps(update.next) \/ keeps(NoCheckpoint)
    BY <1>6 DEF CheckSource, NoUpdate
  <2> QED BY <1>2, <2>1
<1>7. CASE SummaryFails
  BY <1>2, <1>7 DEF SummaryFails, NoUpdate
<1>8. CASE Commit \/ CommitUnprojected
  BY <1>3, <1>8 DEF Commit, CommitUnprojected, NoUpdate
<1>9. ASSUME NEW by, BeginMerge(by) \/ EndMerge(by) \/ MergeFails(by) PROVE MemoryInv'
  BY <1>2, <1>9 DEF BeginMerge, EndMerge, MergeFails
<1>10. CASE MemoryCrash
  BY <1>2, <1>10 DEF MemoryCrash, NoUpdate
<1>11. CASE UNCHANGED memoryVars
  BY <1>2, <1>11 DEF memoryVars
<1> QED BY <1>4, <1>5, <1>6, <1>7, <1>8, <1>9, <1>10, <1>11 DEF MemoryNext

(* The summary of a conversation is drawn once and in order from the text  *)
(* it covers, and a day's entry from the last of it: through chunks,       *)
(* rewinds, compactions, failures and crashes in any order.                *)
THEOREM MemoryIsFaithful == MemorySpec => []MemoryFaithful
<1>1. MemoryInv => MemoryFaithful
  BY DrawnFaithful DEF MemoryInv
<1> QED BY <1>1, MemoryInitInv, MemoryStep, PTL DEF MemorySpec

-----------------------------------------------------------------------------
(* The types of the memory.  A log is written later than each that was     *)
(* written before, so that the mark of a consolidation never passes what   *)
(* was written last.                                                       *)

Numbered == (1..MaxMessages) \X Days
Unit == (1..MaxMessages) \X Days \X {0, 1}
Consolidating == {"scheduler", "client"}

Rising ==
  /\ mtime \in [Days -> Nat] /\ mark \in Nat
  /\ \E n \in Nat : \A d \in Days : mtime[d] <= n
  /\ mark <= Latest
  /\ \A by \in Consolidating : merging[by].latest \in Nat /\ merging[by].latest <= Latest

Logged ==
  /\ daily \in [Days -> Texts] /\ global \in [Days -> Texts]
  /\ \A by \in Consolidating : merging[by].result \in [Days -> Texts]

Conversed ==
  /\ written \in 0..MaxMessages /\ today \in Days
  /\ file \in Seq((1..written) \X (1..today))

Updated ==
  /\ checkpoint \in Checkpoints /\ update.next \in Checkpoints
  /\ update.stage \in {"none", "asked", "checked"}
  /\ update = [stage |-> update.stage, source |-> update.source, next |-> update.next]

MergesShaped ==
  merging = [by \in Consolidating |-> [on |-> merging[by].on, latest |-> merging[by].latest,
                                       result |-> merging[by].result]]

MemoryTyped == Conversed /\ Updated /\ Rising /\ Logged /\ MergesShaped

LEMMA Widened ==
  ASSUME NEW S, NEW T, S \subseteq T, NEW s \in Seq(S)
  PROVE  s \in Seq(T)
<1>1. Len(s) \in Nat /\ s = [i \in 1..Len(s) |-> s[i]] /\ \A i \in 1..Len(s) : s[i] \in T
  BY ElementOfSeq, LenProperties
<1> QED BY <1>1

LEMMA FileNumbered ==
  ASSUME Conversed
  PROVE  file \in Seq(Numbered) /\ file \in Seq(Message)
<1>1. (1..written) \X (1..today) \subseteq Numbered
  BY MemoryAssumption DEF Conversed, Numbered, Days
<1>2. Numbered \subseteq Message
  BY MemoryAssumption DEF Numbered, Days, Message
<1>3. file \in Seq((1..written) \X (1..today))
  BY DEF Conversed
<1>4. file \in Seq(Numbered)
  BY <1>1, <1>3, Widened
<1> QED BY <1>2, <1>4, Widened

LEMMA UnitsTyped ==
  ASSUME NEW ms \in Seq(Numbered)
  PROVE  Units(ms) \in Texts /\ Len(Units(ms)) = 2 * Len(ms) /\ Len(ms) \in Nat
<1>1. ms \in Seq(Message)
  <2>1. Numbered \subseteq Message
    BY MemoryAssumption DEF Numbered, Days, Message
  <2> QED BY <2>1, Widened
<1> DEFINE l == 2 * Len(ms)
<1>2. /\ Units(ms) \in Seq(Piece) /\ Len(Units(ms)) = l
      /\ \A k \in 1..l : /\ Units(ms)[k] = ms[(k + 1) \div 2] \o <<k % 2>>
                         /\ (k + 1) \div 2 \in 1..Len(ms)
  BY <1>1, UnitsOf
<1>3. Len(ms) \in Nat /\ l \in Nat /\ \A j \in 1..Len(ms) : ms[j] \in Numbered
  BY LenProperties, ElementOfSeq
<1> HIDE DEF l
<1>4. \A m \in Numbered, b \in {0, 1} : m \o <<b>> \in Unit
  <2>1. TAKE m \in Numbered, b \in {0, 1}
  <2>2. m = <<m[1], m[2]>> /\ m[1] \in 1..MaxMessages /\ m[2] \in Days
    BY DEF Numbered
  <2>3. m \o <<b>> = <<m[1], m[2], b>>
    <3> DEFINE p == <<m[1], m[2]>>
               q == <<b>>
               r == <<m[1], m[2], b>>
    <3>1. p \in Seq(Nat) /\ q \in Seq(Nat) /\ r \in Seq(Nat)
      BY <2>2, MemoryAssumption DEF Days
    <3>2. Len(p) = 2 /\ Len(q) = 1 /\ Len(r) = 3 /\ p[1] = r[1] /\ p[2] = r[2] /\ q[1] = r[3]
      OBVIOUS
    <3> HIDE DEF p, q, r
    <3>3. /\ p \o q \in Seq(Nat) /\ Len(p \o q) = 2 + 1
          /\ \A k \in 1..2 + 1 : (p \o q)[k] = IF k <= 2 THEN p[k] ELSE q[k - 2]
      <4>1. /\ p \o q \in Seq(Nat) /\ Len(p \o q) = Len(p) + Len(q)
            /\ \A k \in 1..Len(p) + Len(q) :
                 (p \o q)[k] = IF k <= Len(p) THEN p[k] ELSE q[k - Len(p)]
        BY <3>1, ConcatProperties
      <4> QED BY <3>2, <4>1
    <3>4. Len(p \o q) = Len(r) /\ \A k \in 1..3 : (p \o q)[k] = r[k]
      <4>1. \A k \in 1..3 : k = 1 \/ k = 2 \/ k = 3
        OBVIOUS
      <4> QED BY <3>2, <3>3, <4>1, SMTT(20)
    <3>5. p \o q = r
      BY <3>1, <3>2, <3>3, <3>4, SeqEqual
    <3> QED BY <2>2, <3>5 DEF p, q, r
  <2> QED BY <2>2, <2>3 DEF Unit
<1>5. \A k \in 1..l : k % 2 \in {0, 1}
  BY <1>3
<1>6. \A k \in 1..l : Units(ms)[k] \in Unit
  BY <1>2, <1>3, <1>4, <1>5, ZenonT(40)
<1>7. Units(ms) = [k \in 1..l |-> Units(ms)[k]]
  BY <1>2
<1>8. Units(ms) \in [1..l -> Unit]
  BY <1>6, <1>7
<1>9. Units(ms) \in Seq(Unit)
  BY <1>3, <1>8
<1> QED BY <1>2, <1>3, <1>9 DEF l, Texts, Unit

(* A checkpoint that is extended is a checkpoint.                          *)
LEMMA ExtendedTyped ==
  ASSUME NEW c \in Checkpoints, NEW ms \in Seq(Numbered), c.done < Len(Units(ms))
  PROVE  Extended(c, ms) \in Checkpoints
<1> DEFINE us == Units(ms)
           done == c.done
           end == ChunkEnd(us, done)
           chunk == SubSeq(us, done + 1, end)
           day == chunk[1][2]
           old == IF c.day = day THEN c.text ELSE <<>>
           covered == SubSeq(ms, 1, (end + 1) \div 2)
<1>1. /\ done \in Nat /\ c.summary \in Texts /\ c.text \in Texts /\ c.day \in Days
  BY DEF Checkpoints
<1>2. us \in Seq(Unit) /\ Len(us) = 2 * Len(ms) /\ Len(us) \in Nat /\ Len(ms) \in Nat
  BY UnitsTyped DEF Texts, Unit
<1>3. Extended(c, ms) = [covered |-> covered, done |-> end, summary |-> c.summary \o chunk,
                         day |-> day, text |-> old \o chunk]
  BY DEF Extended
<1>4. end \in Nat /\ done < end /\ end <= Len(us)
  <2>1. done < Len(us) /\ end = ChunkEnd(us, done)
    OBVIOUS
  <2> HIDE DEF us, done, end
  <2> QED BY <1>1, <1>2, <2>1, ChunkEnds
<1> HIDE DEF us, done, end
<1>5. /\ chunk \in Seq(Unit) /\ Len(chunk) = end + 1 - (done + 1)
      /\ \A k \in 1..(end + 1 - (done + 1)) : chunk[k] = us[k + (done + 1) - 1]
  <2>1. done + 1 \in Nat /\ 1 <= done + 1 /\ done + 1 <= end + 1 /\ end <= Len(us)
    BY <1>1, <1>4
  <2> QED BY <1>2, <1>4, <2>1, Part, SMTT(30)
<1>6. day \in Days
  <2>1. 1 \in 1..Len(chunk)
    BY <1>1, <1>4, <1>5
  <2> HIDE DEF chunk
  <2>2. chunk[1] \in Unit
    BY <1>5, <2>1, ElementOfSeq
  <2> QED BY <2>2 DEF Unit
<1>7. covered \in Seq(Numbered)
  <2>1. (end + 1) \div 2 \in Nat /\ (end + 1) \div 2 <= Len(ms)
    BY <1>2, <1>4
  <2>2. 1 \in Nat /\ 1 <= 1 /\ 1 <= (end + 1) \div 2 + 1
    BY <2>1
  <2> QED BY <2>1, <2>2, Part
<1> HIDE DEF chunk, day, covered
<1>8. c.summary \o chunk \in Texts /\ old \o chunk \in Texts
  <2>1. <<>> \in Texts /\ Texts = Seq(Unit)
    BY EmptySeq DEF Texts, Unit
  <2>2. old \in Seq(Unit) /\ c.summary \in Seq(Unit)
    BY <1>1, <2>1
  <2> HIDE DEF old
  <2> QED BY <1>5, <2>1, <2>2, ConcatProperties
<1> HIDE DEF old
<1>9. covered \in Seq((1..MaxMessages) \X Days)
  BY <1>7 DEF Numbered
<1> QED BY <1>3, <1>4, <1>6, <1>8, <1>9 DEF Checkpoints

(* The time of the log that was written last                               *)
LEMMA LatestIs ==
  ASSUME NEW f \in [Days -> Nat], NEW n \in Nat, \A d \in Days : f[d] <= n
  PROVE  LET latest == Max({f[d] : d \in Days})
         IN  /\ latest \in Nat /\ \A d \in Days : f[d] <= latest
             /\ \E d \in Days : f[d] = latest
<1> DEFINE S == {f[d] : d \in Days}
<1>1. S \subseteq 0..n
  OBVIOUS
<1>2. S # {}
  <2>1. 1 \in Days
    BY MemoryAssumption DEF Days
  <2> QED BY <2>1
<1>3. Max(S) \in S /\ \A y \in S : Max(S) >= y
  <2> HIDE DEF S
  <2>1. \E x \in S : \A y \in S : x >= y
    BY <1>1, <1>2, Greatest
  <2> QED BY <2>1 DEF Max
<1>4. PICK d \in Days : f[d] = Max(S)
  BY <1>3
<1>5. \A e \in Days : f[e] \in S
  OBVIOUS
<1> HIDE DEF S
<1>6. Max(S) \in Nat /\ \A e \in Days : f[e] <= Max(S)
  BY <1>3, <1>4, <1>5
<1> QED BY <1>4, <1>6 DEF S

LEMMA RisingStays ==
  ASSUME Rising, UNCHANGED <<mtime, mark, merging>>
  PROVE  Rising'
<1>1. Latest' = Latest
  BY DEF Latest
<1> QED BY <1>1 DEF Rising

(* What writes a log writes it last.                                       *)
LEMMA ProjectRises ==
  ASSUME Rising, Logged, NEW c \in Checkpoints, Project(c), UNCHANGED <<mark, merging, global>>
  PROVE  Rising' /\ Logged'
<1>1. c.day \in Days /\ c.text \in Texts
  BY DEF Checkpoints
<1>2. PICK n \in Nat : \A d \in Days : mtime[d] <= n
  BY DEF Rising
<1>3. mtime \in [Days -> Nat] /\ daily \in [Days -> Texts]
  BY DEF Rising, Logged
<1>4. Latest \in Nat /\ \A d \in Days : mtime[d] <= Latest
  BY <1>2, <1>3, LatestIs DEF Latest
<1>5. CASE UNCHANGED <<daily, mtime>>
  <2>1. Rising'
    BY <1>5, RisingStays
  <2> QED BY <1>5, <2>1 DEF Logged
<1>6. CASE daily' = [daily EXCEPT ![c.day] = c.text] /\ mtime' = [mtime EXCEPT ![c.day] = 1 + Latest]
  <2>1. daily' \in [Days -> Texts]
    BY <1>1, <1>3, <1>6
  <2>2. mtime' \in [Days -> Nat] /\ \A d \in Days : mtime'[d] <= 1 + Latest
    BY <1>1, <1>3, <1>4, <1>6
  <2>3. mtime'[c.day] = 1 + Latest /\ 1 + Latest \in Nat
    BY <1>1, <1>3, <1>4, <1>6
  <2>4. Latest' = Max({mtime'[d] : d \in Days})
    BY DEF Latest, Days
  <2> DEFINE l == Max({mtime'[d] : d \in Days})
  <2>5. l \in Nat /\ \A d \in Days : mtime'[d] <= l
    BY <2>2, <2>3, LatestIs
  <2> HIDE DEF l
  <2>6. Latest' = l
    BY <2>4 DEF l
  <2>7. Latest <= Latest'
    <3>1. 1 + Latest <= l
      BY <1>1, <2>3, <2>5
    <3> QED BY <1>4, <2>5, <2>6, <3>1
  <2>8. /\ mark \in Nat /\ mark <= Latest
        /\ \A by \in Consolidating : merging[by].latest \in Nat /\ merging[by].latest <= Latest
    BY DEF Rising
  <2>9. /\ mark <= Latest'
        /\ \A by \in Consolidating : merging[by].latest <= Latest'
    BY <1>4, <2>5, <2>6, <2>7, <2>8
  <2>10. Rising'
    BY <2>2, <2>3, <2>8, <2>9 DEF Rising
  <2>11. Logged'
    BY <2>1 DEF Logged
  <2> QED BY <2>10, <2>11
<1> QED BY <1>5, <1>6 DEF Project, Latest

LEMMA NoCheckpointTyped == NoCheckpoint \in Checkpoints
<1>1. 1 \in Days
  BY MemoryAssumption DEF Days
<1>2. <<>> \in Texts /\ <<>> \in Seq((1..MaxMessages) \X Days)
  BY EmptySeq DEF Texts
<1> QED BY <1>1, <1>2 DEF NoCheckpoint, Checkpoints

LEMMA MemoryInitTyped == MemoryInit => MemoryTyped
<1> SUFFICES ASSUME MemoryInit PROVE MemoryTyped
  OBVIOUS
<1>1. 1 \in Days /\ <<>> \in Texts
  BY MemoryAssumption, EmptySeq DEF Days, Texts
<1>2. Conversed
  <2>1. file = <<>> /\ written = 0 /\ today = 1
    BY DEF MemoryInit
  <2>2. MaxMessages \in Nat
    BY MemoryAssumption
  <2> QED BY <1>1, <2>1, <2>2, EmptySeq DEF Conversed
<1>3. Updated
  <2>1. checkpoint = NoCheckpoint
        /\ update = [stage |-> "none", source |-> <<>>, next |-> NoCheckpoint]
    BY DEF MemoryInit, NoUpdate
  <2> QED BY <2>1, NoCheckpointTyped DEF Updated
<1>4. Logged /\ MergesShaped
  BY <1>1 DEF MemoryInit, Logged, MergesShaped, Consolidating, NoMerge
<1>5. Rising
  <2>1. mtime = [d \in Days |-> 0] /\ mark = 0 /\ \A by \in Consolidating : merging[by].latest = 0
    BY DEF MemoryInit, Consolidating, NoMerge
  <2>2. mtime \in [Days -> Nat] /\ \A d \in Days : mtime[d] <= 0
    BY <2>1
  <2>3. Latest \in Nat
    BY <2>2, LatestIs DEF Latest
  <2> QED BY <2>1, <2>2, <2>3 DEF Rising
<1> QED BY <1>2, <1>3, <1>4, <1>5 DEF MemoryTyped

LEMMA FileTyped ==
  ASSUME Conversed, Converse \/ Midnight \/ Rewrite
  PROVE  Conversed'
<1> DEFINE ms(w, t) == (1..w) \X (1..t)
<1>1. /\ written \in Nat /\ today \in 1..MaxDays /\ written <= MaxMessages
      /\ file \in Seq(ms(written, today)) /\ Len(file) \in Nat
      /\ MaxMessages \in Nat /\ MaxDays \in Nat
  BY MemoryAssumption, LenProperties DEF Conversed, Days
<1>2. NewMessage \in ms(written + 1, today)
  BY <1>1 DEF NewMessage
<1>3. ms(written, today) \subseteq ms(written + 1, today)
      /\ ms(written, today) \subseteq ms(written, today + 1)
  BY <1>1
<1> HIDE DEF ms
<1>4. file \in Seq(ms(written + 1, today)) /\ file \in Seq(ms(written, today + 1))
  BY <1>1, <1>3, Widened
<1>5. ASSUME written' = written + 1, written < MaxMessages, today' = today,
             file' \in Seq(ms(written + 1, today))
      PROVE  Conversed'
  <2>1. file' \in Seq(ms(written', today'))
    BY <1>5
  <2>2. written' \in 0..MaxMessages /\ today' \in Days
    BY <1>1, <1>5 DEF Days
  <2>3. Days' = Days
    BY DEF Days
  <2> QED BY <2>1, <2>2, <2>3 DEF Conversed, ms
<1>6. CASE Converse
  <2>1. written' = written + 1 /\ written < MaxMessages /\ today' = today
        /\ file' = Append(file, NewMessage)
    BY <1>6 DEF Converse
  <2> QED BY <1>2, <1>4, <1>5, <2>1, AppendProperties
<1>7. CASE Midnight
  <2>1. written' = written /\ today' = today + 1 /\ file' = file /\ today < MaxDays
    BY <1>7 DEF Midnight
  <2>2. file' \in Seq(ms(written', today'))
    BY <1>4, <2>1
  <2>3. written' \in 0..MaxMessages /\ today' \in 1..MaxDays
    BY <1>1, <2>1
  <2> QED BY <2>2, <2>3 DEF Conversed, ms, Days
<1>8. CASE Rewrite
  <2>1. today' = today
    BY <1>8 DEF Rewrite
  <2>2. ASSUME NEW n \in 1..Len(file), file' = SubSeq(file, 1, n - 1), written' = written
        PROVE  Conversed'
    <3>1. 1 \in Nat /\ n - 1 \in Nat /\ 1 <= 1 /\ 1 <= (n - 1) + 1 /\ n - 1 <= Len(file)
      BY <1>1
    <3>2. file' \in Seq(ms(written', today'))
      BY <1>1, <2>1, <2>2, <3>1, Part
    <3>3. written' \in 0..MaxMessages /\ today' \in 1..MaxDays
      BY <1>1, <2>1, <2>2
    <3> QED BY <3>2, <3>3 DEF Conversed, ms, Days
  <2>3. ASSUME NEW n \in 1..Len(file), file' = <<NewMessage>> \o SubSeq(file, n + 1, Len(file)),
               written' = written + 1, written < MaxMessages
        PROVE  Conversed'
    <3>1. /\ n + 1 \in Nat /\ 1 <= n + 1 /\ n + 1 <= Len(file) + 1 /\ Len(file) <= Len(file)
      BY <1>1
    <3>2. SubSeq(file, n + 1, Len(file)) \in Seq(ms(written + 1, today))
      BY <1>1, <1>4, <3>1, Part
    <3>3. <<NewMessage>> \in Seq(ms(written + 1, today))
      BY <1>2
    <3>4. file' \in Seq(ms(written + 1, today))
      BY <2>3, <3>2, <3>3, ConcatProperties
    <3> QED BY <1>5, <2>1, <2>3, <3>4
  <2> QED BY <1>8, <2>2, <2>3 DEF Rewrite
<1> QED BY <1>6, <1>7, <1>8

(* An update, from its beginning to its end                                *)
LEMMA UpdateTyped ==
  ASSUME MemoryTyped,
         \/ \E proceeds \in BOOLEAN : BeginUpdate(proceeds)
         \/ CheckSource \/ SummaryFails \/ Commit \/ CommitUnprojected
  PROVE  MemoryTyped'
<1>1. Conversed /\ Updated /\ Rising /\ Logged /\ MergesShaped
  BY DEF MemoryTyped
<1>2. UNCHANGED <<file, written, today, global, mark, merging>>
  BY DEF BeginUpdate, CheckSource, SummaryFails, Commit, CommitUnprojected
<1>3. Conversed' /\ MergesShaped'
  BY <1>1, <1>2 DEF Conversed, MergesShaped, Days
<1>4. ASSUME UNCHANGED <<daily, mtime>> PROVE Rising' /\ Logged'
  BY <1>1, <1>2, <1>4, RisingStays DEF Logged
<1>5. /\ checkpoint \in Checkpoints /\ update.next \in Checkpoints
      /\ update.stage \in {"none", "asked", "checked"}
      /\ update = [stage |-> update.stage, source |-> update.source, next |-> update.next]
  BY <1>1 DEF Updated
<1>6. /\ NoUpdate.stage = "none" /\ NoUpdate.next \in Checkpoints
      /\ NoUpdate = [stage |-> NoUpdate.stage, source |-> NoUpdate.source, next |-> NoUpdate.next]
  BY NoCheckpointTyped DEF NoUpdate
<1>7. ASSUME NEW c \in Checkpoints, checkpoint' = c, update' = NoUpdate PROVE Updated'
  BY <1>6, <1>7 DEF Updated
<1>8. ASSUME NEW proceeds \in BOOLEAN, BeginUpdate(proceeds) PROVE MemoryTyped'
  <2> DEFINE prior == IF Matches(checkpoint, file) THEN checkpoint ELSE NoCheckpoint
  <2>1. prior \in Checkpoints
    BY <1>5, NoCheckpointTyped
  <2>2. /\ Project(prior) /\ checkpoint' = checkpoint
        /\ \/ update' = NoUpdate
           \/ /\ prior.done < Len(Units(file))
              /\ update' = [stage |-> "asked", source |-> file, next |-> Extended(prior, file)]
    BY <1>8 DEF BeginUpdate
  <2> HIDE DEF prior
  <2>3. Rising' /\ Logged'
    BY <1>1, <1>2, <2>1, <2>2, ProjectRises
  <2>4. Updated'
    <3>1. CASE update' = NoUpdate
      BY <1>5, <1>7, <2>2, <3>1
    <3>2. CASE /\ prior.done < Len(Units(file))
               /\ update' = [stage |-> "asked", source |-> file, next |-> Extended(prior, file)]
      <4>1. Extended(prior, file) \in Checkpoints
        BY <1>1, <2>1, <3>2, FileNumbered, ExtendedTyped
      <4>2. /\ update'.stage = "asked" /\ update'.next = Extended(prior, file)
            /\ update' = [stage |-> update'.stage, source |-> update'.source, next |-> update'.next]
        BY <3>2
      <4> QED BY <1>5, <2>2, <4>1, <4>2 DEF Updated
    <3> QED BY <2>2, <3>1, <3>2
  <2> QED BY <1>3, <2>3, <2>4 DEF MemoryTyped
<1>9. CASE CheckSource
  <2>1. UNCHANGED <<checkpoint, daily, mtime>>
        /\ (update' = NoUpdate \/ update' = [update EXCEPT !.stage = "checked"])
    BY <1>9 DEF CheckSource
  <2>2. ASSUME update' = [update EXCEPT !.stage = "checked"] PROVE Updated'
    <3>1. update' = [stage |-> "checked", source |-> update.source, next |-> update.next]
      BY <1>5, <2>2
    <3> QED BY <1>5, <2>1, <3>1 DEF Updated
  <2> QED BY <1>3, <1>4, <1>5, <1>7, <2>1, <2>2 DEF MemoryTyped
<1>10. CASE SummaryFails
  <2>1. UNCHANGED <<checkpoint, daily, mtime>> /\ update' = NoUpdate
    BY <1>10 DEF SummaryFails
  <2> QED BY <1>3, <1>4, <1>5, <1>7, <2>1 DEF MemoryTyped
<1>11. CASE Commit
  <2>1. checkpoint' = update.next /\ update' = NoUpdate /\ Project(update.next)
    BY <1>11 DEF Commit
  <2>2. Rising' /\ Logged'
    BY <1>1, <1>2, <1>5, <2>1, ProjectRises
  <2> QED BY <1>3, <1>5, <1>7, <2>1, <2>2 DEF MemoryTyped
<1>12. CASE CommitUnprojected
  <2>1. checkpoint' = update.next /\ update' = NoUpdate /\ UNCHANGED <<daily, mtime>>
    BY <1>12 DEF CommitUnprojected
  <2> QED BY <1>3, <1>4, <1>5, <1>7, <2>1 DEF MemoryTyped
<1> QED BY <1>8, <1>9, <1>10, <1>11, <1>12

(* A consolidation, from its beginning to its end                          *)
LEMMA MergeTyped ==
  ASSUME MemoryTyped,
         \/ \E by \in Consolidating : BeginMerge(by) \/ EndMerge(by) \/ MergeFails(by)
         \/ MemoryCrash
  PROVE  MemoryTyped'
<1> DEFINE M == [on |-> TRUE, latest |-> Latest,
                 result |-> [d \in Days |-> IF d \in Recent THEN daily[d] ELSE global[d]]]
           Fit(r) == /\ r = [on |-> r.on, latest |-> r.latest, result |-> r.result]
                     /\ r.latest \in Nat /\ r.latest <= Latest /\ r.result \in [Days -> Texts]
<1>1. Conversed /\ Updated /\ Rising /\ Logged /\ MergesShaped
  BY DEF MemoryTyped
<1>2. UNCHANGED <<file, written, today, checkpoint, daily, mtime>>
      /\ (UNCHANGED update \/ update' = NoUpdate)
  BY DEF BeginMerge, EndMerge, MergeFails, MemoryCrash
<1>3. Conversed' /\ Updated'
  <2>1. CASE UNCHANGED update
    BY <1>1, <1>2, <2>1 DEF Conversed, Updated, Days
  <2>2. CASE update' = NoUpdate
    BY <1>1, <1>2, <2>2, NoCheckpointTyped DEF Conversed, Updated, Days, NoUpdate
  <2> QED BY <1>2, <2>1, <2>2
<1>4. PICK n \in Nat : \A d \in Days : mtime[d] <= n
  BY <1>1 DEF Rising
<1>5. mtime \in [Days -> Nat] /\ daily \in [Days -> Texts] /\ global \in [Days -> Texts]
  BY <1>1 DEF Rising, Logged
<1>6. Latest \in Nat /\ Latest' = Latest
  BY <1>2, <1>4, <1>5, LatestIs DEF Latest
<1>7. NoMerge = [on |-> FALSE, latest |-> 0, result |-> [d \in Days |-> <<>>]]
      /\ NoMerge.result \in [Days -> Texts]
  BY EmptySeq DEF NoMerge, Texts
<1>8. M.latest = Latest /\ M.result \in [Days -> Texts]
  BY <1>5
<1>9. \A by \in Consolidating : /\ merging[by].latest \in Nat /\ merging[by].latest <= Latest
                                /\ merging[by].result \in [Days -> Texts]
  BY <1>1 DEF Rising, Logged
<1>10. Fit(M) /\ Fit(NoMerge)
  <2>1. M = [on |-> M.on, latest |-> M.latest, result |-> M.result]
    OBVIOUS
  <2>2. /\ NoMerge.latest = 0
        /\ NoMerge = [on |-> NoMerge.on, latest |-> NoMerge.latest, result |-> NoMerge.result]
    BY <1>7
  <2> HIDE DEF M
  <2> QED BY <1>6, <1>7, <1>8, <2>1, <2>2
<1> HIDE DEF M, Fit
<1>11. ASSUME NEW r, NEW a \in Consolidating, merging' = [merging EXCEPT ![a] = r], Fit(r),
              mark' \in Nat, mark' <= Latest, global' \in [Days -> Texts]
       PROVE  MemoryTyped'
  <2>1. \A by \in Consolidating : merging'[by] = IF by = a THEN r ELSE merging[by]
    BY <1>1, <1>11 DEF MergesShaped
  <2>2. DOMAIN merging = Consolidating /\ DOMAIN merging' = Consolidating
    BY <1>1, <1>11 DEF MergesShaped
  <2>3. MergesShaped'
    <3>1. \A by \in Consolidating : merging'[by] = [on |-> merging'[by].on,
                                     latest |-> merging'[by].latest, result |-> merging'[by].result]
      BY <1>1, <1>11, <2>1 DEF MergesShaped, Fit
    <3>2. merging' = [by \in Consolidating |-> merging'[by]]
      BY <1>1, <1>11 DEF MergesShaped
    <3> QED BY <3>1, <3>2 DEF MergesShaped
  <2>4. \A by \in Consolidating : /\ merging'[by].latest \in Nat /\ merging'[by].latest <= Latest
                                  /\ merging'[by].result \in [Days -> Texts]
    BY <1>9, <1>11, <2>1 DEF Fit
  <2>5. Days' = Days /\ Texts' = Texts
    BY DEF Days, Texts
  <2>6. Rising'
    <3>1. \A d \in Days : mtime'[d] <= n
      BY <1>2, <1>4
    <3> QED BY <1>2, <1>4, <1>5, <1>6, <1>11, <2>4, <3>1 DEF Rising
  <2>7. Logged'
    BY <1>2, <1>5, <1>11, <2>4 DEF Logged
  <2> QED BY <1>3, <2>3, <2>6, <2>7 DEF MemoryTyped
<1>12. mark \in Nat /\ mark <= Latest
  BY <1>1 DEF Rising
<1>13. ASSUME NEW by \in Consolidating, BeginMerge(by) PROVE MemoryTyped'
  <2>1. merging' = [merging EXCEPT ![by] = M] /\ UNCHANGED <<mark, global>>
    BY <1>13 DEF BeginMerge, M
  <2> QED BY <1>5, <1>10, <1>11, <1>12, <2>1
<1>14. ASSUME NEW by \in Consolidating, EndMerge(by) PROVE MemoryTyped'
  <2>1. /\ merging' = [merging EXCEPT ![by] = NoMerge]
        /\ global' = merging[by].result /\ mark' \in {mark, merging[by].latest}
    BY <1>14 DEF EndMerge
  <2> QED BY <1>6, <1>9, <1>10, <1>11, <1>12, <2>1
<1>15. ASSUME NEW by \in Consolidating, MergeFails(by) PROVE MemoryTyped'
  <2>1. merging' = [merging EXCEPT ![by] = NoMerge] /\ UNCHANGED <<mark, global>>
    BY <1>15 DEF MergeFails
  <2> QED BY <1>5, <1>10, <1>11, <1>12, <2>1
<1>16. CASE MemoryCrash
  <2>1. merging' = [by \in Consolidating |-> NoMerge] /\ UNCHANGED <<mark, global>>
    BY <1>1, <1>16 DEF MemoryCrash, MergesShaped
  <2>2. MergesShaped'
    BY <1>7, <2>1 DEF MergesShaped
  <2>3. Rising'
    <3>1. \A by \in Consolidating : merging'[by].latest = 0
      BY <1>7, <2>1
    <3>2. \A d \in Days : mtime'[d] <= n
      BY <1>2, <1>4
    <3>3. Days' = Days
      BY DEF Days
    <3> QED BY <1>2, <1>4, <1>5, <1>6, <1>12, <2>1, <3>1, <3>2, <3>3 DEF Rising
  <2>4. Logged'
    BY <1>2, <1>5, <1>7, <2>1 DEF Logged
  <2> QED BY <1>3, <2>2, <2>3, <2>4 DEF MemoryTyped
<1> QED BY <1>13, <1>14, <1>15, <1>16

LEMMA MemoryTypedStep == MemoryTyped /\ [MemoryNext]_memoryVars => MemoryTyped'
<1> SUFFICES ASSUME MemoryTyped, [MemoryNext]_memoryVars PROVE MemoryTyped'
  OBVIOUS
<1>1. Conversed /\ Updated /\ Rising /\ Logged /\ MergesShaped
  BY DEF MemoryTyped
<1>2. ASSUME UNCHANGED <<checkpoint, update, daily, mtime, global, mark, merging>>
      PROVE  Updated' /\ Rising' /\ Logged' /\ MergesShaped'
  <2>1. Rising'
    BY <1>1, <1>2, RisingStays
  <2>2. Updated'
    BY <1>1, <1>2 DEF Updated
  <2>3. Logged' /\ MergesShaped'
    BY <1>1, <1>2 DEF Logged, MergesShaped
  <2> QED BY <2>1, <2>2, <2>3
<1>3. CASE Converse \/ Midnight \/ Rewrite
  <2>1. UNCHANGED <<checkpoint, update, daily, mtime, global, mark, merging>>
    BY <1>3 DEF Converse, Midnight, Rewrite
  <2> QED BY <1>1, <1>2, <1>3, <2>1, FileTyped DEF MemoryTyped
<1>4. CASE \/ \E proceeds \in BOOLEAN : BeginUpdate(proceeds)
           \/ CheckSource \/ SummaryFails \/ Commit \/ CommitUnprojected
  BY <1>4, UpdateTyped
<1>5. CASE \/ \E by \in Consolidating : BeginMerge(by) \/ EndMerge(by) \/ MergeFails(by)
           \/ MemoryCrash
  BY <1>5, MergeTyped
<1>6. CASE UNCHANGED memoryVars
  <2>1. UNCHANGED <<checkpoint, update, daily, mtime, global, mark, merging>>
        /\ UNCHANGED <<file, written, today>>
    BY <1>6 DEF memoryVars
  <2>2. Conversed'
    BY <1>1, <2>1 DEF Conversed
  <2> QED BY <1>2, <2>1, <2>2 DEF MemoryTyped
<1> QED BY <1>3, <1>4, <1>5, <1>6 DEF MemoryNext, Consolidating

(* What the memory holds has its type, and the mark of the consolidations  *)
(* is never later than the log that was written last: whatever is written  *)
(* after it is seen.                                                       *)
THEOREM MemoryIsTyped == MemorySpec => []MemoryTypeOK
<1>1. MemoryTyped => MemoryTypeOK
  BY DEF MemoryTyped, Conversed, Updated, Rising, Logged, MemoryTypeOK
<1> QED BY <1>1, MemoryInitTyped, MemoryTypedStep, PTL DEF MemorySpec

-----------------------------------------------------------------------------
(* The history of a session.  Until something changes the messages beside  *)
(* the lane, the file is the memory of the loop as it was before the turn, *)
(* and each call of tools is followed by its result.                       *)

Good(ms) ==
  \A i \in 1..Len(ms) :
    /\ Kind(ms[i]) = "call" => i < Len(ms) /\ ms[i + 1] = <<"result", ms[i][2]>>
    /\ Kind(ms[i]) = "result" => i > 1 /\ ms[i - 1] = <<"call", ms[i][2]>>

TurnUnderWay ==
  /\ memory \in Seq(Messages)
  /\ holder.from = Len(disk) /\ Len(disk) < Len(memory)
  /\ \A k \in 1..Len(disk) : memory[k] = disk[k]
  /\ memory[Len(disk) + 1] = <<"user", holder.turn>>
  /\ Good(IF holder.stage = "tools" THEN Append(memory, <<"result", holder.turn>>) ELSE memory)

Undisturbed ==
  /\ disk \in Seq(Messages) /\ Good(disk) /\ ended \ given \subseteq TurnsIn(disk)
  /\ holder = Free => memory = disk
  /\ holder.op = "compact" => memory = disk /\ holder.kept = disk
  /\ holder.op = "flush" => holder.kept = disk
  /\ holder.op = "chat" => TurnUnderWay

LaneInv ==
  /\ begun \in 0..MaxTurns /\ ended \subseteq 1..begun /\ disturbed \in BOOLEAN
  /\ holder = [op |-> holder.op, turn |-> holder.turn, stage |-> holder.stage,
               from |-> holder.from, kept |-> holder.kept]
  /\ holder.op \in {"free", "chat", "flush", "compact"}
  /\ holder.op = "free" => holder = Free
  /\ holder.op = "chat" => /\ holder.turn \in 1..begun
                           /\ holder.stage \in {"asked", "tools", "again", "done"}
  /\ rewind # NoRewind => Kind(rewind.message) = "user"

HistoryInv == LaneInv /\ (~disturbed => Undisturbed)

LEMMA KindOf == \A k, t : Kind(<<k, t>>) = k /\ <<k, t>>[2] = t
BY DEF Kind

LEMMA GoodAppend ==
  ASSUME NEW ms \in Seq(Messages), Good(ms), NEW m, m \in Messages,
         Kind(m) # "call", Kind(m) # "result"
  PROVE  Good(Append(ms, m))
<1> DEFINE a == Append(ms, m)
<1>1. /\ Len(ms) \in Nat /\ Len(a) = Len(ms) + 1 /\ a[Len(ms) + 1] = m
      /\ \A i \in 1..Len(ms) : a[i] = ms[i]
  BY LenProperties, AppendProperties
<1> HIDE DEF a
<1>2. ASSUME NEW i \in 1..Len(a)
      PROVE  /\ Kind(a[i]) = "call" => i < Len(a) /\ a[i + 1] = <<"result", a[i][2]>>
             /\ Kind(a[i]) = "result" => i > 1 /\ a[i - 1] = <<"call", a[i][2]>>
  <2>1. CASE i = Len(ms) + 1
    BY <1>1, <2>1
  <2>2. CASE i # Len(ms) + 1
    <3>1. i \in 1..Len(ms) /\ a[i] = ms[i] /\ i < Len(a)
      BY <1>1, <2>2
    <3>2. /\ Kind(ms[i]) = "call" => i < Len(ms) /\ ms[i + 1] = <<"result", ms[i][2]>>
          /\ Kind(ms[i]) = "result" => i > 1 /\ ms[i - 1] = <<"call", ms[i][2]>>
      BY <3>1 DEF Good
    <3>3. /\ i < Len(ms) => a[i + 1] = ms[i + 1]
          /\ i > 1 => a[i - 1] = ms[i - 1]
      BY <1>1, <3>1
    <3> QED BY <3>1, <3>2, <3>3
  <2> QED BY <2>1, <2>2
<1> QED BY <1>2 DEF Good, a

LEMMA GoodCall ==
  ASSUME NEW ms \in Seq(Messages), Good(ms), NEW t \in 0..MaxTurns
  PROVE  Good(Append(Append(ms, <<"call", t>>), <<"result", t>>))
<1> DEFINE c == Append(ms, <<"call", t>>)
           a == Append(c, <<"result", t>>)
<1>1. <<"call", t>> \in Messages /\ <<"result", t>> \in Messages
  BY DEF Messages
<1>2. /\ c \in Seq(Messages) /\ Len(ms) \in Nat /\ Len(c) = Len(ms) + 1
      /\ c[Len(ms) + 1] = <<"call", t>> /\ \A i \in 1..Len(ms) : c[i] = ms[i]
  BY <1>1, LenProperties, AppendProperties
<1> HIDE DEF c
<1>3. /\ Len(a) = Len(c) + 1 /\ a[Len(c) + 1] = <<"result", t>>
      /\ \A i \in 1..Len(c) : a[i] = c[i]
  BY <1>1, <1>2, AppendProperties
<1> HIDE DEF a
<1>4. /\ Len(a) = Len(ms) + 2 /\ a[Len(ms) + 1] = <<"call", t>>
      /\ a[Len(ms) + 2] = <<"result", t>> /\ \A i \in 1..Len(ms) : a[i] = ms[i]
  <2>1. \A i \in 1..Len(ms) : i \in 1..Len(c)
    BY <1>2
  <2>2. Len(ms) + 1 \in 1..Len(c) /\ Len(c) + 1 = Len(ms) + 2
    BY <1>2
  <2> QED BY <1>2, <1>3, <2>1, <2>2
<1>5. ASSUME NEW i \in 1..Len(a)
      PROVE  /\ Kind(a[i]) = "call" => i < Len(a) /\ a[i + 1] = <<"result", a[i][2]>>
             /\ Kind(a[i]) = "result" => i > 1 /\ a[i - 1] = <<"call", a[i][2]>>
  <2>1. CASE i = Len(ms) + 1
    <3>1. i < Len(a) /\ i + 1 = Len(ms) + 2
      BY <1>2, <1>4, <2>1
    <3>2. a[i] = <<"call", t>> /\ a[i + 1] = <<"result", t>>
      BY <1>4, <2>1, <3>1
    <3>3. Kind(<<"call", t>>) = "call" /\ <<"call", t>>[2] = t
      BY DEF Kind
    <3> QED BY <3>1, <3>2, <3>3
  <2>2. CASE i = Len(ms) + 2
    <3>1. i > 1 /\ i - 1 = Len(ms) + 1
      BY <1>2, <2>2
    <3>2. a[i] = <<"result", t>> /\ a[i - 1] = <<"call", t>>
      BY <1>4, <2>2, <3>1
    <3>3. Kind(<<"result", t>>) = "result" /\ <<"result", t>>[2] = t
      BY DEF Kind
    <3>4. Kind(a[i]) = "result" /\ a[i][2] = t
      BY <3>2, <3>3
    <3> QED BY <3>1, <3>2, <3>4
  <2>3. CASE i # Len(ms) + 1 /\ i # Len(ms) + 2
    <3>1. i \in 1..Len(ms) /\ a[i] = ms[i] /\ i < Len(a)
      BY <1>2, <1>4, <2>3
    <3>2. /\ Kind(ms[i]) = "call" => i < Len(ms) /\ ms[i + 1] = <<"result", ms[i][2]>>
          /\ Kind(ms[i]) = "result" => i > 1 /\ ms[i - 1] = <<"call", ms[i][2]>>
      BY <3>1 DEF Good
    <3>3. /\ i < Len(ms) => a[i + 1] = ms[i + 1]
          /\ i > 1 => a[i - 1] = ms[i - 1]
      <4>1. /\ i < Len(ms) => i + 1 \in 1..Len(ms)
            /\ i > 1 => i - 1 \in 1..Len(ms)
        BY <1>2, <3>1
      <4> QED BY <1>4, <4>1
    <3> QED BY <3>1, <3>2, <3>3
  <2> QED BY <2>1, <2>2, <2>3
<1> QED BY <1>5 DEF Good, a, c

LEMMA GoodHead ==
  ASSUME NEW ms \in Seq(Messages), Good(ms), NEW n \in Nat, n < Len(ms), Kind(ms[n + 1]) # "result"
  PROVE  SubSeq(ms, 1, n) \in Seq(Messages) /\ Good(SubSeq(ms, 1, n))
<1> DEFINE a == SubSeq(ms, 1, n)
<1>1. Len(ms) \in Nat
  BY LenProperties
<1>2. /\ a \in Seq(Messages) /\ Len(a) = n + 1 - 1
      /\ \A k \in 1..(n + 1 - 1) : a[k] = ms[k + 1 - 1]
  <2>1. 1 \in Nat /\ 1 <= 1 /\ 1 <= n + 1 /\ n <= Len(ms)
    BY <1>1
  <2> QED BY <2>1, Part
<1> HIDE DEF a
<1>3. Len(a) = n /\ \A k \in 1..n : a[k] = ms[k]
  <2>1. n + 1 - 1 = n /\ \A k \in 1..n : k + 1 - 1 = k
    OBVIOUS
  <2> QED BY <1>2, <2>1
<1>4. ASSUME NEW i \in 1..Len(a)
      PROVE  /\ Kind(a[i]) = "call" => i < Len(a) /\ a[i + 1] = <<"result", a[i][2]>>
             /\ Kind(a[i]) = "result" => i > 1 /\ a[i - 1] = <<"call", a[i][2]>>
  <2>1. i \in 1..Len(ms) /\ a[i] = ms[i] /\ i <= n
    BY <1>1, <1>3
  <2>2. /\ Kind(ms[i]) = "call" => i < Len(ms) /\ ms[i + 1] = <<"result", ms[i][2]>>
        /\ Kind(ms[i]) = "result" => i > 1 /\ ms[i - 1] = <<"call", ms[i][2]>>
    BY <2>1 DEF Good
  <2>3. i = n => Kind(ms[i]) # "call"
    BY <2>2, KindOf
  <2>4. /\ i # n => i < n /\ a[i + 1] = ms[i + 1]
        /\ i > 1 => a[i - 1] = ms[i - 1]
    BY <1>3, <2>1
  <2> QED BY <1>3, <2>1, <2>2, <2>3, <2>4
<1> QED BY <1>2, <1>4 DEF Good, a

LEMMA GoodTail ==
  ASSUME NEW ms \in Seq(Messages), Good(ms), NEW n \in 0..Len(ms),
         n < Len(ms) => Kind(ms[n + 1]) # "result",
         NEW m \in Messages, Kind(m) # "call", Kind(m) # "result",
         NEW a, a = <<m>> \o SubSeq(ms, n + 1, Len(ms))
  PROVE  /\ a \in Seq(Messages) /\ Good(a) /\ Len(a) = Len(ms) - n + 1
         /\ \A k \in n + 1..Len(ms) : a[k - n + 1] = ms[k]
<1> DEFINE b == SubSeq(ms, n + 1, Len(ms))
<1>1. Len(ms) \in Nat /\ n \in Nat
  BY LenProperties
<1>2. /\ b \in Seq(Messages) /\ Len(b) = Len(ms) + 1 - (n + 1)
      /\ \A k \in 1..(Len(ms) + 1 - (n + 1)) : b[k] = ms[k + (n + 1) - 1]
  <2>1. n + 1 \in Nat /\ 1 <= n + 1 /\ n + 1 <= Len(ms) + 1 /\ Len(ms) <= Len(ms)
    BY <1>1
  <2> QED BY <1>1, <2>1, Part
<1> HIDE DEF b
<1>3. Len(b) = Len(ms) - n /\ \A k \in 1..(Len(ms) - n) : b[k] = ms[n + k]
  <2>1. /\ Len(ms) + 1 - (n + 1) = Len(ms) - n
        /\ \A k \in 1..(Len(ms) - n) : k + (n + 1) - 1 = n + k
    BY <1>1
  <2> QED BY <1>2, <2>1
<1>4. /\ a \in Seq(Messages) /\ Len(a) = 1 + Len(b)
      /\ \A i \in 1..1 + Len(b) : a[i] = IF i <= 1 THEN <<m>>[i] ELSE b[i - 1]
  <2>1. <<m>> \in Seq(Messages) /\ Len(<<m>>) = 1 /\ a = <<m>> \o b
    BY DEF b
  <2> QED BY SMTT(20), <1>2, <2>1, ConcatProperties
<1>5. Len(a) = Len(ms) - n + 1 /\ a[1] = m /\ \A i \in 2..Len(a) : a[i] = ms[n + i - 1]
  <2>1. Len(a) = Len(ms) - n + 1 /\ Len(a) \in Nat
    BY <1>1, <1>3, <1>4
  <2>2. a[1] = m
    <3>1. 1 \in 1..1 + Len(b)
      BY <1>1, <1>3
    <3> QED BY <1>4, <3>1
  <2>3. ASSUME NEW i \in 2..Len(a) PROVE a[i] = ms[n + i - 1]
    <3>1. i \in 1..1 + Len(b) /\ ~(i <= 1) /\ i - 1 \in 1..(Len(ms) - n) /\ n + (i - 1) = n + i - 1
      BY <1>1, <1>3, <1>4, <2>1
    <3>2. a[i] = b[i - 1]
      BY <1>4, <3>1
    <3> QED BY <1>3, <3>1, <3>2
  <2> QED BY <2>1, <2>2, <2>3
<1>6. ASSUME NEW k \in n + 1..Len(ms) PROVE a[k - n + 1] = ms[k]
  <2>1. k - n + 1 \in 2..Len(a) /\ n + (k - n + 1) - 1 = k
    BY <1>1, <1>5
  <2> QED BY <1>5, <2>1
<1>7. ASSUME NEW i \in 1..Len(a)
      PROVE  /\ Kind(a[i]) = "call" => i < Len(a) /\ a[i + 1] = <<"result", a[i][2]>>
             /\ Kind(a[i]) = "result" => i > 1 /\ a[i - 1] = <<"call", a[i][2]>>
  <2>1. CASE i = 1
    BY <1>5, <2>1
  <2>2. CASE i # 1
    <3> DEFINE j == n + i - 1
    <3>0. j \in Nat /\ j = n + i - 1 /\ i \in Nat
      BY <1>1, <1>5, <2>2
    <3>1. i \in 2..Len(a) /\ j \in 1..Len(ms) /\ i > 1 /\ j > n
      <4> HIDE DEF j
      <4> QED BY <1>1, <1>5, <2>2, <3>0
    <3>2. a[i] = ms[j]
      BY <1>5, <3>1
    <3>3. j < Len(ms) => i < Len(a) /\ a[i + 1] = ms[j + 1]
      <4>1. j < Len(ms) => i < Len(a) /\ i + 1 \in 2..Len(a) /\ n + (i + 1) - 1 = j + 1
        <5> HIDE DEF j
        <5> QED BY <1>1, <1>5, <3>0, <3>1
      <4> QED BY <1>5, <4>1
    <3>4. j > n + 1 => a[i - 1] = ms[j - 1]
      <4>1. j > n + 1 => i - 1 \in 2..Len(a) /\ n + (i - 1) - 1 = j - 1
        <5> HIDE DEF j
        <5> QED BY <1>1, <1>5, <3>0, <3>1
      <4> QED BY <1>5, <4>1
    <3>5. Kind(ms[j]) = "result" => j > n + 1
      <4>1. j > n + 1 \/ (j = n + 1 /\ n < Len(ms))
        BY <1>1, <3>1
      <4> QED BY <4>1
    <3> HIDE DEF j
    <3>6. /\ Kind(ms[j]) = "call" => j < Len(ms) /\ ms[j + 1] = <<"result", ms[j][2]>>
          /\ Kind(ms[j]) = "result" => j > 1 /\ ms[j - 1] = <<"call", ms[j][2]>>
      BY <3>1 DEF Good
    <3> QED BY <3>1, <3>2, <3>3, <3>4, <3>5, <3>6
  <2> QED BY <2>1, <2>2
<1> QED BY <1>4, <1>5, <1>6, <1>7 DEF Good

LEMMA GoodRepaired ==
  ASSUME NEW ms \in Seq(Messages), Good(ms)
  PROVE  Repaired(ms) = ms
<1>1. DOMAIN ms = 1..Len(ms)
  BY LenProperties
<1>2. \A i \in DOMAIN ms : ~Orphan(ms, i)
  BY <1>1 DEF Good, Orphan, Paired
<1> QED BY <1>2 DEF Repaired

(* What is summarised never ends between a call and its result.            *)
LEMMA SplitIsClean ==
  ASSUME NEW ms \in Seq(Messages), Good(ms)
  PROVE  /\ Summarized(ms) \in 0..Len(ms)
         /\ Summarized(ms) < Len(ms) => Kind(ms[Summarized(ms) + 1]) # "result"
<1> DEFINE kf == KeepFrom(ms)
           clean == {i \in 1..kf : ByUser(ms[i + 1]) /\ Kind(ms[i + 1]) # "result"}
           split == CHOOSE i \in clean \union {0} : \A k \in clean : k <= i
<1>1. Len(ms) \in Nat /\ kf \in Nat /\ kf <= Len(ms)
  BY LenProperties, HistoryAssumption DEF KeepFrom
<1>2. Summarized(ms) = IF split < 4 THEN 0 ELSE split
  BY DEF Summarized
<1> HIDE DEF kf
<1>3. clean \union {0} \in SUBSET (0..kf) /\ clean \union {0} # {}
  BY <1>1
<1>4. split \in clean \union {0}
  <2> HIDE DEF clean
  <2>1. \E x \in clean \union {0} : \A y \in clean \union {0} : x >= y
    BY <1>1, <1>3, Greatest
  <2>2. \A x, y \in clean \union {0} : x >= y => y <= x
    BY <1>1, <1>3
  <2> QED BY <2>1, <2>2
<1> HIDE DEF split
<1>5. split = 0 \/ (split \in 1..kf /\ Kind(ms[split + 1]) # "result")
  BY <1>4
<1>6. Len(ms) > 0 => Kind(ms[1]) # "result"
  <2>1. Len(ms) > 0 => 1 \in 1..Len(ms) /\ ~(1 > 1)
    BY <1>1
  <2> QED BY <2>1 DEF Good
<1>7. CASE Summarized(ms) = 0
  BY <1>1, <1>6, <1>7
<1>8. CASE Summarized(ms) # 0
  BY <1>1, <1>2, <1>5, <1>8
<1> QED BY <1>7, <1>8

(* A compaction gives a turn to the summary or keeps it.                   *)
LEMMA CompactionKeeps ==
  ASSUME NEW ms \in Seq(Messages), Good(ms)
  PROVE  /\ Compacted(ms) \in Seq(Messages) /\ Good(Compacted(ms))
         /\ TurnsIn(ms) \subseteq TurnsIn(SubSeq(ms, 1, Summarized(ms))) \union TurnsIn(Compacted(ms))
<1> DEFINE n == Summarized(ms)
           m == <<"summary", 0>>
           a == Compacted(ms)
           h == SubSeq(ms, 1, n)
<1>1. n \in 0..Len(ms) /\ (n < Len(ms) => Kind(ms[n + 1]) # "result")
  BY SplitIsClean
<1>2. m \in Messages /\ Kind(m) # "call" /\ Kind(m) # "result"
  BY HistoryAssumption DEF Messages, Kind
<1>3. a = <<m>> \o SubSeq(ms, n + 1, Len(ms))
  BY DEF Compacted
<1>4. Len(ms) \in Nat /\ DOMAIN ms = 1..Len(ms)
  BY LenProperties
<1> HIDE DEF n, m, a
<1>5. /\ a \in Seq(Messages) /\ Good(a) /\ Len(a) = Len(ms) - n + 1
      /\ \A k \in n + 1..Len(ms) : a[k - n + 1] = ms[k]
  BY <1>1, <1>2, <1>3, GoodTail, ZenonT(40)
<1>6. Len(h) = n /\ DOMAIN h = 1..n /\ \A k \in 1..n : h[k] = ms[k]
  <2>1. /\ 1 \in Nat /\ n \in Nat /\ 1 <= 1 /\ 1 <= n + 1 /\ n <= Len(ms) /\ n + 1 - 1 = n
        /\ \A k \in 1..n : k + 1 - 1 = k
    BY <1>1, <1>4
  <2>2. /\ h \in Seq(Messages) /\ Len(h) = n + 1 - 1
        /\ \A k \in 1..(n + 1 - 1) : h[k] = ms[k + 1 - 1]
    BY <2>1, Part
  <2> HIDE DEF h
  <2> QED BY <2>1, <2>2, LenProperties
<1> HIDE DEF h
<1>7. ASSUME NEW i \in DOMAIN ms, ms[i][2] # 0
      PROVE  ms[i][2] \in TurnsIn(h) \union TurnsIn(a)
  <2>1. CASE i <= n
    <3>1. i \in DOMAIN h /\ h[i] = ms[i]
      BY <1>1, <1>4, <1>6, <2>1
    <3> QED BY <1>7, <3>1 DEF TurnsIn
  <2>2. CASE ~(i <= n)
    <3>1. i \in n + 1..Len(ms) /\ i - n + 1 \in 1..Len(a)
      BY <1>1, <1>4, <1>5, <2>2
    <3>2. i - n + 1 \in DOMAIN a /\ a[i - n + 1] = ms[i]
      BY <1>5, <3>1, LenProperties
    <3> QED BY <1>7, <3>2 DEF TurnsIn
  <2> QED BY <2>1, <2>2
<1>8. TurnsIn(ms) \subseteq TurnsIn(h) \union TurnsIn(a)
  BY <1>7 DEF TurnsIn
<1> QED BY <1>5, <1>8 DEF a, h, n

(* A rewind gives the turns from its message on, and keeps the rest.       *)
LEMMA RewindKeeps ==
  ASSUME NEW ms \in Seq(Messages), Good(ms), NEW i \in DOMAIN ms, Kind(ms[i]) = "user"
  PROVE  /\ SubSeq(ms, 1, i - 1) \in Seq(Messages) /\ Good(SubSeq(ms, 1, i - 1))
         /\ TurnsIn(ms) \subseteq TurnsIn(SubSeq(ms, i, Len(ms))) \union TurnsIn(SubSeq(ms, 1, i - 1))
<1> DEFINE h == SubSeq(ms, 1, i - 1)
           r == SubSeq(ms, i, Len(ms))
<1>1. Len(ms) \in Nat /\ DOMAIN ms = 1..Len(ms) /\ i \in 1..Len(ms)
  BY LenProperties
<1>2. i - 1 \in Nat /\ i - 1 < Len(ms) /\ (i - 1) + 1 = i /\ i \in Nat
  BY <1>1
<1>3. h \in Seq(Messages) /\ Good(h)
  BY <1>2, GoodHead
<1>4. Len(h) = i - 1 /\ DOMAIN h = 1..i - 1 /\ \A k \in 1..i - 1 : h[k] = ms[k]
  <2>1. /\ 1 \in Nat /\ 1 <= 1 /\ 1 <= (i - 1) + 1 /\ i - 1 <= Len(ms) /\ (i - 1) + 1 - 1 = i - 1
        /\ \A k \in 1..i - 1 : k + 1 - 1 = k
    BY <1>1
  <2>2. /\ Len(h) = (i - 1) + 1 - 1
        /\ \A k \in 1..((i - 1) + 1 - 1) : h[k] = ms[k + 1 - 1]
    BY <1>2, <2>1, Part
  <2> HIDE DEF h
  <2> QED BY <1>3, <2>1, <2>2, LenProperties
<1>5. DOMAIN r = 1..(Len(ms) + 1 - i) /\ \A k \in 1..(Len(ms) + 1 - i) : r[k] = ms[k + i - 1]
  <2>1. i \in Nat /\ Len(ms) \in Nat /\ 1 <= i /\ i <= Len(ms) + 1 /\ Len(ms) <= Len(ms)
    BY <1>1
  <2>2. /\ r \in Seq(Messages) /\ Len(r) = Len(ms) + 1 - i
        /\ \A k \in 1..(Len(ms) + 1 - i) : r[k] = ms[k + i - 1]
    BY <2>1, Part, ZenonT(40)
  <2> HIDE DEF r
  <2> QED BY <2>2, LenProperties
<1> HIDE DEF h, r
<1>6. ASSUME NEW k \in DOMAIN ms, ms[k][2] # 0
      PROVE  ms[k][2] \in TurnsIn(r) \union TurnsIn(h)
  <2>1. CASE k < i
    <3>1. k \in DOMAIN h /\ h[k] = ms[k]
      BY <1>1, <1>4, <2>1
    <3> QED BY <1>6, <3>1 DEF TurnsIn
  <2>2. CASE ~(k < i)
    <3>1. k - i + 1 \in 1..(Len(ms) + 1 - i) /\ (k - i + 1) + i - 1 = k
      BY <1>1, <2>2
    <3>2. k - i + 1 \in DOMAIN r /\ r[k - i + 1] = ms[k]
      BY <1>5, <3>1
    <3> QED BY <1>6, <3>2 DEF TurnsIn
  <2> QED BY <2>1, <2>2
<1>7. TurnsIn(ms) \subseteq TurnsIn(r) \union TurnsIn(h)
  BY <1>6 DEF TurnsIn
<1> QED BY <1>3, <1>7 DEF h, r

(* The lane is given back, with the same messages on both sides.           *)
LEMMA AtRest ==
  ASSUME NEW ms \in Seq(Messages), Good(ms), disk' = ms, memory' = ms, holder' = Free,
         ended' \ given' \subseteq TurnsIn(ms)
  PROVE  Undisturbed'
<1>1. holder'.op = "free"
  BY DEF Free
<1> QED BY <1>1 DEF Undisturbed

(* Nothing but what waits for the lane is changed.                         *)
LEMMA LaneUntouched ==
  ASSUME HistoryInv, UNCHANGED <<memory, disk, holder, begun, ended, given, disturbed>>,
         rewind' # NoRewind => Kind(rewind'.message) = "user"
  PROVE  HistoryInv'
<1>1. LaneInv'
  BY DEF HistoryInv, LaneInv
<1>2. ~disturbed' => Undisturbed'
  BY DEF HistoryInv, Undisturbed, TurnUnderWay
<1> QED BY <1>1, <1>2 DEF HistoryInv

LEMMA HistoryInitInv == HistoryInit => HistoryInv
<1> SUFFICES ASSUME HistoryInit PROVE HistoryInv
  OBVIOUS
<1>1. /\ memory = <<>> /\ disk = <<>> /\ holder = Free /\ rewind = NoRewind
      /\ begun = 0 /\ ended = {} /\ disturbed = FALSE
  BY DEF HistoryInit
<1>2. LaneInv
  <2>1. /\ holder.op = "free" /\ holder.turn = 0 /\ holder.stage = "" /\ holder.from = 0
        /\ holder.kept = <<>>
    BY <1>1 DEF Free
  <2>2. Free = [op |-> "free", turn |-> 0, stage |-> "", from |-> 0, kept |-> <<>>]
    BY DEF Free
  <2>3. 0 \in 0..MaxTurns
    BY HistoryAssumption
  <2> QED BY <1>1, <2>1, <2>2, <2>3 DEF LaneInv
<1>3. <<>> \in Seq(Messages) /\ Len(<<>>) = 0
  BY EmptySeq
<1>4. Good(<<>>)
  BY <1>3 DEF Good
<1>5. Undisturbed
  BY <1>1, <1>3, <1>4 DEF Undisturbed, Free
<1> QED BY <1>2, <1>5 DEF HistoryInv

(* A turn begins with its message, after those of the file.                *)
LEMMA BeginTurnStep ==
  ASSUME HistoryInv, BeginTurn
  PROVE  HistoryInv'
<1> DEFINE m == <<"user", begun + 1>>
<1>1. /\ begun' = begun + 1 /\ begun < MaxTurns /\ holder = Free
      /\ holder' = [op |-> "chat", turn |-> begun + 1, stage |-> "asked", from |-> Len(memory),
                    kept |-> <<>>]
      /\ memory' = Append(memory, m)
      /\ UNCHANGED <<disk, rewind, ended, given, disturbed>>
  BY DEF BeginTurn, Free
<1>2. /\ begun \in 0..MaxTurns /\ ended \subseteq 1..begun /\ disturbed \in BOOLEAN
      /\ rewind # NoRewind => Kind(rewind.message) = "user"
  BY DEF HistoryInv, LaneInv
<1>3. begun + 1 \in 0..MaxTurns /\ begun + 1 \in 1..begun + 1 /\ ended \subseteq 1..begun + 1
  BY <1>1, <1>2, HistoryAssumption
<1>4. LaneInv'
  <2>1. /\ holder'.op = "chat" /\ holder'.turn = begun + 1 /\ holder'.stage = "asked"
        /\ holder'.from = Len(memory) /\ holder'.kept = <<>>
    BY <1>1
  <2> QED BY <1>1, <1>2, <1>3, <2>1 DEF LaneInv
<1>5. ASSUME ~disturbed' PROVE Undisturbed'
  <2>1. /\ disk \in Seq(Messages) /\ Good(disk) /\ ended \ given \subseteq TurnsIn(disk)
        /\ memory = disk
    BY <1>1, <1>5 DEF HistoryInv, Undisturbed
  <2>2. m \in Messages /\ Kind(m) # "call" /\ Kind(m) # "result"
    BY <1>3 DEF Messages, Kind
  <2> HIDE DEF m
  <2>3. Good(memory')
    BY <1>1, <2>1, <2>2, GoodAppend
  <2>4. /\ memory' \in Seq(Messages) /\ Len(disk) \in Nat /\ Len(memory') = Len(disk) + 1
        /\ memory'[Len(disk) + 1] = m /\ \A k \in 1..Len(disk) : memory'[k] = disk[k]
    BY <1>1, <2>1, <2>2, AppendProperties, LenProperties
  <2>5. holder'.from = Len(disk) /\ holder'.turn = begun + 1 /\ holder'.stage = "asked"
        /\ holder'.op = "chat"
    BY <1>1, <2>1
  <2>6. TurnUnderWay'
    <3>1. Good(IF holder'.stage = "tools" THEN Append(memory', <<"result", holder'.turn>>)
               ELSE memory')
      BY <2>3, <2>5
    <3>2. Len(disk) < Len(memory') /\ memory'[Len(disk) + 1] = <<"user", holder'.turn>>
      BY <2>4, <2>5 DEF m
    <3> QED BY <1>1, <2>4, <2>5, <3>1, <3>2 DEF TurnUnderWay
  <2>7. holder' # Free
    <3>1. Free.op = "free"
      BY DEF Free
    <3> QED BY <2>5, <3>1
  <2> QED BY <1>1, <2>1, <2>5, <2>6, <2>7 DEF Undisturbed
<1> QED BY <1>4, <1>5 DEF HistoryInv

(* What the turn under way says follows what it said.                      *)
LEMMA TurnSpeaks ==
  ASSUME HistoryInv, holder.op = "chat",
         NEW s \in {"asked", "tools", "again", "done"}, MovesTo(s),
         NEW m \in Messages, memory' \in {memory, Append(memory, m)},
         UNCHANGED <<disk, rewind, begun, ended, given, disturbed>>,
         ~disturbed => Good(IF s = "tools" THEN Append(memory', <<"result", holder.turn>>) ELSE memory')
  PROVE  HistoryInv'
<1>1. /\ holder = [op |-> holder.op, turn |-> holder.turn, stage |-> holder.stage,
                   from |-> holder.from, kept |-> holder.kept]
      /\ begun \in 0..MaxTurns /\ holder.turn \in 1..begun
  BY DEF HistoryInv, LaneInv
<1>2. holder' = [op |-> "chat", turn |-> holder.turn, stage |-> s, from |-> holder.from,
                 kept |-> holder.kept]
  BY <1>1 DEF MovesTo
<1>3. /\ holder'.op = "chat" /\ holder'.turn = holder.turn /\ holder'.stage = s
      /\ holder'.from = holder.from /\ holder'.kept = holder.kept
  BY <1>2
<1>4. LaneInv'
  BY <1>2, <1>3 DEF HistoryInv, LaneInv
<1>5. ASSUME ~disturbed' PROVE Undisturbed'
  <2>1. /\ disk \in Seq(Messages) /\ Good(disk) /\ ended \ given \subseteq TurnsIn(disk)
        /\ memory \in Seq(Messages)
        /\ holder.from = Len(disk) /\ Len(disk) < Len(memory)
        /\ \A k \in 1..Len(disk) : memory[k] = disk[k]
        /\ memory[Len(disk) + 1] = <<"user", holder.turn>>
    BY <1>5 DEF HistoryInv, Undisturbed, TurnUnderWay
  <2>2. Len(disk) \in Nat /\ Len(memory) \in Nat
    BY <2>1, LenProperties
  <2>3. /\ memory' \in Seq(Messages) /\ Len(memory') >= Len(memory)
        /\ \A k \in 1..Len(memory) : memory'[k] = memory[k]
    <3>1. CASE memory' = memory
      BY <2>1, <2>2, <3>1
    <3>2. CASE memory' = Append(memory, m)
      BY <2>1, <2>2, <3>2, AppendProperties
    <3> QED BY <3>1, <3>2
  <2>4. /\ Len(disk) < Len(memory') /\ Len(disk) + 1 \in 1..Len(memory)
        /\ \A k \in 1..Len(disk) : k \in 1..Len(memory)
    <3>1. Len(memory') \in Nat
      BY <2>3, LenProperties
    <3> QED BY <2>1, <2>2, <2>3, <3>1
  <2>5. TurnUnderWay'
    <3>1. Good(IF holder'.stage = "tools" THEN Append(memory', <<"result", holder'.turn>>)
               ELSE memory')
      BY <1>3, <1>5
    <3>2. memory'[Len(disk) + 1] = <<"user", holder'.turn>> /\ holder'.from = Len(disk)
      BY <1>3, <2>1, <2>3, <2>4
    <3>3. \A k \in 1..Len(disk) : memory'[k] = disk[k]
      BY <2>1, <2>3, <2>4
    <3> QED BY <2>3, <2>4, <3>1, <3>2, <3>3 DEF TurnUnderWay
  <2>6. holder' # Free
    <3>1. Free.op = "free"
      BY DEF Free
    <3> QED BY <1>3, <3>1
  <2> QED BY <1>3, <2>1, <2>5, <2>6 DEF Undisturbed
<1> QED BY <1>4, <1>5 DEF HistoryInv

LEMMA TurnStep ==
  ASSUME HistoryInv, CallTools \/ ToolsReturn \/ Reply
  PROVE  HistoryInv'
<1> DEFINE t == holder.turn
<1>1. holder.op = "chat"
  BY DEF CallTools, ToolsReturn, Reply, ChatTurn
<1>2. t \in 1..begun /\ t \in 0..MaxTurns
  <2>1. t \in 1..begun /\ begun \in 0..MaxTurns
    BY <1>1 DEF HistoryInv, LaneInv
  <2> QED BY <2>1, HistoryAssumption
<1>3. /\ <<"call", t>> \in Messages /\ <<"result", t>> \in Messages /\ <<"reply", t>> \in Messages
      /\ Kind(<<"reply", t>>) # "call" /\ Kind(<<"reply", t>>) # "result"
  BY <1>2 DEF Messages, Kind
<1>4. /\ UNCHANGED <<disk, rewind, begun, ended, given, disturbed>>
  BY DEF CallTools, ToolsReturn, Reply
<1>5. ~disturbed => /\ memory \in Seq(Messages)
                    /\ Good(IF holder.stage = "tools" THEN Append(memory, <<"result", t>>) ELSE memory)
  BY <1>1 DEF HistoryInv, Undisturbed, TurnUnderWay
<1> HIDE DEF t
<1>6. CASE CallTools
  <2>1. MovesTo("tools") /\ memory' = Append(memory, <<"call", t>>) /\ holder.stage = "asked"
    BY <1>6 DEF CallTools, ChatTurn, Says, t
  <2>2. ~disturbed => Good(Append(memory', <<"result", t>>))
    BY <1>2, <1>5, <2>1, GoodCall
  <2> QED BY <1>1, <1>3, <1>4, <2>1, <2>2, TurnSpeaks DEF t
<1>7. CASE ToolsReturn
  <2>1. MovesTo("again") /\ memory' = Append(memory, <<"result", t>>) /\ holder.stage = "tools"
    BY <1>7 DEF ToolsReturn, ChatTurn, Says, t
  <2>2. ~disturbed => Good(memory')
    BY <1>5, <2>1
  <2> QED BY <1>1, <1>3, <1>4, <2>1, <2>2, TurnSpeaks DEF t
<1>8. CASE Reply
  <2>1. /\ MovesTo("done") /\ memory' \in {memory, Append(memory, <<"reply", t>>)}
        /\ holder.stage \in {"asked", "again"}
    BY <1>8 DEF Reply, ChatTurn, Says, t
  <2>2. ~disturbed => Good(memory) /\ Good(Append(memory, <<"reply", t>>))
    BY <1>3, <1>5, <2>1, GoodAppend
  <2> QED BY <1>1, <1>3, <1>4, <2>1, <2>2, TurnSpeaks DEF t
<1> QED BY <1>6, <1>7, <1>8

(* A turn that ends makes the file what the memory is.                     *)
LEMMA EndTurnStep ==
  ASSUME HistoryInv, EndTurn
  PROVE  HistoryInv'
<1> DEFINE from == holder.from
           w == SubSeq(memory, from + 1, Len(memory))
<1>1. /\ holder.op = "chat" /\ holder.stage = "done" /\ disk' = disk \o w /\ holder' = Free
      /\ ended' = ended \union {holder.turn}
      /\ UNCHANGED <<memory, rewind, begun, given, disturbed>>
  BY DEF EndTurn, ChatTurn, Written
<1>2. holder.turn \in 1..begun /\ begun \in 0..MaxTurns /\ ended \subseteq 1..begun
  BY <1>1 DEF HistoryInv, LaneInv
<1>3. /\ Free = [op |-> "free", turn |-> 0, stage |-> "", from |-> 0, kept |-> <<>>]
      /\ Free.op = "free" /\ Free.turn = 0 /\ Free.stage = "" /\ Free.from = 0 /\ Free.kept = <<>>
  BY DEF Free
<1>4. LaneInv'
  BY <1>1, <1>2, <1>3 DEF HistoryInv, LaneInv
<1>5. ASSUME ~disturbed' PROVE Undisturbed'
  <2>1. /\ disk \in Seq(Messages) /\ ended \ given \subseteq TurnsIn(disk)
        /\ memory \in Seq(Messages) /\ from = Len(disk) /\ Len(disk) < Len(memory)
        /\ \A k \in 1..Len(disk) : memory[k] = disk[k]
        /\ memory[Len(disk) + 1] = <<"user", holder.turn>> /\ Good(memory)
    <3>1. TurnUnderWay /\ Undisturbed /\ holder.stage # "tools"
      BY <1>1, <1>5 DEF HistoryInv, Undisturbed
    <3> QED BY <3>1 DEF Undisturbed, TurnUnderWay
  <2>2. Len(disk) \in Nat /\ Len(memory) \in Nat /\ DOMAIN disk = 1..Len(disk)
        /\ DOMAIN memory = 1..Len(memory)
    BY <2>1, LenProperties
  <2> HIDE DEF from
  <2>3. /\ w \in Seq(Messages) /\ Len(w) = Len(memory) - Len(disk)
        /\ \A k \in 1..(Len(memory) - Len(disk)) : w[k] = memory[Len(disk) + k]
    <3>1. /\ from + 1 \in Nat /\ 1 <= from + 1 /\ from + 1 <= Len(memory) + 1
          /\ Len(memory) <= Len(memory)
          /\ Len(memory) + 1 - (from + 1) = Len(memory) - Len(disk)
          /\ \A k \in 1..(Len(memory) - Len(disk)) : k + (from + 1) - 1 = Len(disk) + k
      <4>1. /\ from = Len(disk) /\ Len(disk) < Len(memory)
            /\ Len(disk) \in Nat /\ Len(memory) \in Nat
        BY <2>1, <2>2
      <4> QED BY ONLY <4>1
    <3>2. /\ w \in Seq(Messages) /\ Len(w) = Len(memory) + 1 - (from + 1)
          /\ \A k \in 1..(Len(memory) + 1 - (from + 1)) : w[k] = memory[k + (from + 1) - 1]
      BY <2>1, <2>2, <3>1, Part
    <3> HIDE DEF w
    <3> QED BY <3>1, <3>2
  <2> HIDE DEF w
  <2>4. disk' = memory
    <3>1. /\ disk \o w \in Seq(Messages) /\ Len(disk \o w) = Len(memory)
          /\ \A k \in 1..Len(memory) :
               (disk \o w)[k] = IF k <= Len(disk) THEN disk[k] ELSE w[k - Len(disk)]
      <4>1. Len(disk) + Len(w) = Len(memory)
        BY <2>2, <2>3
      <4> QED BY <2>1, <2>3, <4>1, ConcatProperties
    <3>2. ASSUME NEW k \in 1..Len(memory) PROVE (disk \o w)[k] = memory[k]
      <4>1. CASE k <= Len(disk)
        <5>1. k \in 1..Len(disk)
          BY <4>1
        <5> QED BY <2>1, <3>1, <4>1, <5>1
      <4>2. CASE ~(k <= Len(disk))
        <5>1. k - Len(disk) \in 1..(Len(memory) - Len(disk)) /\ Len(disk) + (k - Len(disk)) = k
          BY <2>2, <4>2
        <5> QED BY <2>3, <3>1, <4>2, <5>1
      <4> QED BY <4>1, <4>2
    <3> QED BY <1>1, <2>1, <3>1, <3>2, SeqEqual
  <2>5. TurnsIn(disk) \subseteq TurnsIn(memory)
    <3>1. \A k \in DOMAIN disk : k \in DOMAIN memory /\ memory[k] = disk[k]
      BY <2>1, <2>2
    <3> QED BY <3>1 DEF TurnsIn
  <2>6. holder.turn \in TurnsIn(memory)
    <3>1. Len(disk) + 1 \in DOMAIN memory /\ holder.turn # 0
      BY <1>2, <2>1, <2>2
    <3>2. <<"user", holder.turn>>[2] = holder.turn
      OBVIOUS
    <3> QED BY <2>1, <3>1, <3>2 DEF TurnsIn
  <2>7. ended' \ given' \subseteq TurnsIn(memory)
    BY <1>1, <2>1, <2>5, <2>6
  <2> QED BY <1>1, <2>1, <2>4, <2>7, AtRest
<1> QED BY <1>4, <1>5 DEF HistoryInv

(* A flush puts back what it found, a compaction in the lane replaces what *)
(* it found.                                                               *)
LEMMA TakeLaneStep ==
  ASSUME HistoryInv, BeginFlush \/ BeginCompact
  PROVE  HistoryInv'
<1>1. /\ holder = Free /\ UNCHANGED <<disk, rewind, begun, ended, given, disturbed>>
      /\ \/ holder' = [Free EXCEPT !.op = "flush", !.kept = memory]
         \/ holder' = [Free EXCEPT !.op = "compact", !.kept = memory] /\ memory' = memory
  BY DEF BeginFlush, BeginCompact
<1>2. PICK op \in {"flush", "compact"} :
        /\ holder' = [op |-> op, turn |-> 0, stage |-> "", from |-> 0, kept |-> memory]
        /\ op = "compact" => memory' = memory
  BY <1>1 DEF Free
<1>3. /\ holder'.op = op /\ holder'.turn = 0 /\ holder'.stage = "" /\ holder'.from = 0
      /\ holder'.kept = memory /\ Free.op = "free"
  BY <1>2 DEF Free
<1>4. LaneInv'
  BY <1>1, <1>2, <1>3 DEF HistoryInv, LaneInv
<1>5. ASSUME ~disturbed' PROVE Undisturbed'
  <2>1. /\ disk \in Seq(Messages) /\ Good(disk) /\ ended \ given \subseteq TurnsIn(disk)
        /\ memory = disk
    BY <1>1, <1>5 DEF HistoryInv, Undisturbed
  <2>2. holder' # Free
    BY <1>3
  <2> QED BY <1>1, <1>2, <1>3, <2>1, <2>2 DEF Undisturbed
<1> QED BY <1>4, <1>5 DEF HistoryInv

LEMMA FreeIsLane ==
  ASSUME LaneInv, holder' = Free, begun' = begun, ended' = ended, disturbed' \in BOOLEAN,
         rewind' # NoRewind => rewind' = rewind
  PROVE  LaneInv'
<1>1. /\ Free = [op |-> "free", turn |-> 0, stage |-> "", from |-> 0, kept |-> <<>>]
      /\ Free.op = "free" /\ Free.turn = 0 /\ Free.stage = "" /\ Free.from = 0 /\ Free.kept = <<>>
  BY DEF Free
<1> QED BY <1>1 DEF LaneInv

LEMMA EndFlushStep ==
  ASSUME HistoryInv, EndFlush
  PROVE  HistoryInv'
<1>1. /\ holder.op = "flush" /\ holder' = Free /\ memory' = holder.kept
      /\ UNCHANGED <<disk, rewind, begun, ended, given, disturbed>>
  BY DEF EndFlush
<1>2. LaneInv'
  <2>1. LaneInv /\ disturbed \in BOOLEAN
    BY DEF HistoryInv, LaneInv
  <2> QED BY <1>1, <2>1, FreeIsLane
<1>3. ASSUME ~disturbed' PROVE Undisturbed'
  <2>1. /\ disk \in Seq(Messages) /\ Good(disk) /\ ended \ given \subseteq TurnsIn(disk)
        /\ holder.kept = disk
    BY <1>1, <1>3 DEF HistoryInv, Undisturbed
  <2> QED BY <1>1, <2>1, AtRest
<1> QED BY <1>2, <1>3 DEF HistoryInv

(* What a compaction leaves, of the messages of the file                   *)
LEMMA CompactionRests ==
  ASSUME Undisturbed, holder' = Free, ended' = ended, Replace(Compacted(disk)),
         given' = given \union TurnsIn(SubSeq(disk, 1, Summarized(disk)))
  PROVE  Undisturbed'
<1>1. disk \in Seq(Messages) /\ Good(disk) /\ ended \ given \subseteq TurnsIn(disk)
  BY DEF Undisturbed
<1>2. /\ Compacted(disk) \in Seq(Messages) /\ Good(Compacted(disk))
      /\ TurnsIn(disk) \subseteq TurnsIn(SubSeq(disk, 1, Summarized(disk)))
                                   \union TurnsIn(Compacted(disk))
  BY <1>1, CompactionKeeps
<1>3. ended' \ given' \subseteq TurnsIn(Compacted(disk))
  BY <1>1, <1>2
<1> QED BY <1>2, <1>3, AtRest DEF Replace

LEMMA EndCompactStep ==
  ASSUME HistoryInv, EndCompact
  PROVE  HistoryInv'
<1>1. /\ holder.op = "compact" /\ holder' = Free /\ UNCHANGED <<rewind, begun, ended, disturbed>>
      /\ \/ /\ Replace(Compacted(holder.kept))
            /\ given' = given \union TurnsIn(SubSeq(holder.kept, 1, Summarized(holder.kept)))
         \/ UNCHANGED <<memory, disk, given>>
  BY DEF EndCompact
<1>2. LaneInv'
  <2>1. LaneInv /\ disturbed \in BOOLEAN
    BY DEF HistoryInv, LaneInv
  <2> QED BY <1>1, <2>1, FreeIsLane
<1>3. ASSUME ~disturbed' PROVE Undisturbed'
  <2>1. Undisturbed /\ memory = disk /\ holder.kept = disk
    BY <1>1, <1>3 DEF HistoryInv, Undisturbed
  <2>2. CASE UNCHANGED <<memory, disk, given>>
    BY <1>1, <2>1, <2>2, AtRest DEF Undisturbed
  <2>3. CASE ~UNCHANGED <<memory, disk, given>>
    BY <1>1, <2>1, <2>3, CompactionRests
  <2> QED BY <2>2, <2>3
<1> QED BY <1>2, <1>3 DEF HistoryInv

(* What does not wait for the lane leaves the history undisturbed only     *)
(* when it finds the lane free.                                            *)
LEMMA Beside ==
  ASSUME HistoryInv, UNCHANGED <<holder, begun, ended>>, disturbed' \in BOOLEAN,
         ~disturbed' => ~disturbed /\ holder = Free,
         rewind' # NoRewind => rewind' = rewind,
         holder = Free /\ ~disturbed' => Undisturbed'
  PROVE  HistoryInv'
<1>1. LaneInv'
  BY DEF HistoryInv, LaneInv
<1> QED BY <1>1 DEF HistoryInv

LEMMA EndAutoCompactStep ==
  ASSUME HistoryInv, EndAutoCompact
  PROVE  HistoryInv'
<1>1. /\ UNCHANGED <<holder, rewind, begun, ended>>
      /\ \/ /\ Replace(Compacted(after.snap))
            /\ given' = given \union TurnsIn(SubSeq(after.snap, 1, Summarized(after.snap)))
            /\ disturbed' = (disturbed \/ holder # Free \/ memory # after.snap)
         \/ UNCHANGED <<memory, disk, given, disturbed>>
  BY DEF EndAutoCompact
<1>2. CASE UNCHANGED <<memory, disk, given, disturbed>>
  <2>1. rewind # NoRewind => Kind(rewind.message) = "user"
    BY DEF HistoryInv, LaneInv
  <2> QED BY <1>1, <1>2, <2>1, LaneUntouched
<1>3. CASE ~UNCHANGED <<memory, disk, given, disturbed>>
  <2>1. disturbed' = (disturbed \/ holder # Free \/ memory # after.snap)
    BY <1>1, <1>3
  <2>2. disturbed \in BOOLEAN
    BY DEF HistoryInv, LaneInv
  <2>3. ASSUME holder = Free, ~disturbed' PROVE Undisturbed'
    <3>1. Undisturbed /\ memory = disk /\ after.snap = disk
      BY <2>1, <2>3 DEF HistoryInv, Undisturbed
    <3> QED BY <1>1, <1>3, <2>3, <3>1, CompactionRests
  <2> QED BY <1>1, <2>1, <2>2, <2>3, Beside
<1> QED BY <1>2, <1>3

LEMMA RewindStep ==
  ASSUME HistoryInv, Rewind
  PROVE  HistoryInv'
<1> DEFINE at == rewind.at
           found == at \in DOMAIN memory /\ memory[at] = rewind.message
<1>1. /\ holder = Free /\ rewind # NoRewind /\ rewind' = NoRewind
      /\ disturbed' = (disturbed \/ ~found)
      /\ UNCHANGED <<holder, begun, ended>>
  BY DEF Rewind
<1>2. disturbed \in BOOLEAN /\ Kind(rewind.message) = "user"
  BY <1>1 DEF HistoryInv, LaneInv
<1>3. ASSUME ~disturbed' PROVE Undisturbed'
  <2>1. ~disturbed /\ found
    BY <1>1, <1>2, <1>3
  <2>2. /\ disk \in Seq(Messages) /\ Good(disk) /\ ended \ given \subseteq TurnsIn(disk)
        /\ memory = disk
    BY <1>1, <2>1 DEF HistoryInv, Undisturbed
  <2>3. at \in DOMAIN disk /\ Kind(disk[at]) = "user"
    BY <1>2, <2>1, <2>2
  <2>4. ByUser(memory[at])
    BY <2>2, <2>3 DEF ByUser
  <2>5. /\ Replace(SubSeq(disk, 1, at - 1))
        /\ given' = given \union TurnsIn(SubSeq(disk, at, Len(disk)))
    BY <2>1, <2>2, <2>4 DEF Rewind
  <2> HIDE DEF at
  <2>6. /\ SubSeq(disk, 1, at - 1) \in Seq(Messages) /\ Good(SubSeq(disk, 1, at - 1))
        /\ TurnsIn(disk) \subseteq TurnsIn(SubSeq(disk, at, Len(disk)))
                                     \union TurnsIn(SubSeq(disk, 1, at - 1))
    BY <2>2, <2>3, RewindKeeps
  <2>7. ended' \ given' \subseteq TurnsIn(SubSeq(disk, 1, at - 1))
    BY <1>1, <2>2, <2>5, <2>6
  <2> QED BY <1>1, <2>5, <2>6, <2>7, AtRest DEF Replace
<1> HIDE DEF found
<1> QED BY <1>1, <1>2, <1>3, Beside

LEMMA SpokenStep ==
  ASSUME HistoryInv, AppendSpoken
  PROVE  HistoryInv'
<1> DEFINE m == <<"spoken", 0>>
<1>1. /\ UNCHANGED <<holder, rewind, begun, ended, given>>
      /\ memory' = Append(memory, m) /\ disk' = Append(disk, m)
      /\ disturbed' = (disturbed \/ holder # Free)
  BY DEF AppendSpoken
<1>2. disturbed \in BOOLEAN
  BY DEF HistoryInv, LaneInv
<1>3. m \in Messages /\ Kind(m) # "call" /\ Kind(m) # "result"
  BY HistoryAssumption DEF Messages, Kind
<1> HIDE DEF m
<1>4. ASSUME holder = Free, ~disturbed' PROVE Undisturbed'
  <2>1. /\ disk \in Seq(Messages) /\ Good(disk) /\ ended \ given \subseteq TurnsIn(disk)
        /\ memory = disk
    BY <1>1, <1>2, <1>4 DEF HistoryInv, Undisturbed
  <2>2. Append(disk, m) \in Seq(Messages) /\ Good(Append(disk, m))
    BY <1>3, <2>1, GoodAppend, AppendProperties
  <2>3. TurnsIn(disk) \subseteq TurnsIn(Append(disk, m))
    <3> DEFINE a == Append(disk, m)
    <3>1. /\ a \in Seq(Messages) /\ Len(disk) \in Nat /\ Len(a) = Len(disk) + 1
          /\ \A k \in 1..Len(disk) : a[k] = disk[k]
      BY <1>3, <2>1, AppendProperties, LenProperties
    <3> HIDE DEF a
    <3>2. \A k \in DOMAIN disk : k \in DOMAIN a /\ a[k] = disk[k]
      BY <2>1, <3>1, LenProperties
    <3>3. TurnsIn(disk) \subseteq TurnsIn(a)
      BY <3>2 DEF TurnsIn
    <3> QED BY <3>3 DEF a
  <2> QED BY <1>1, <1>4, <2>1, <2>2, <2>3, AtRest
<1> QED BY <1>1, <1>2, <1>4, Beside

LEMMA NoMessages == <<>> \in Seq(Messages) /\ Good(<<>>)
<1>1. <<>> \in Seq(Messages) /\ Len(<<>>) = 0
  BY EmptySeq
<1> QED BY <1>1 DEF Good

LEMMA ClearStep ==
  ASSUME HistoryInv, Clear
  PROVE  HistoryInv'
<1>1. /\ UNCHANGED <<holder, rewind, begun, ended>> /\ Replace(<<>>) /\ given' = 1..begun
      /\ disturbed' = (disturbed \/ holder # Free)
  BY DEF Clear
<1>2. disturbed \in BOOLEAN /\ ended \subseteq 1..begun
  BY DEF HistoryInv, LaneInv
<1>3. ended' \ given' \subseteq TurnsIn(<<>>)
  BY <1>1, <1>2
<1>4. ASSUME holder = Free PROVE Undisturbed'
  BY <1>1, <1>3, <1>4, NoMessages, AtRest DEF Replace
<1> QED BY <1>1, <1>2, <1>4, Beside

(* The successor finds in the file no call without its result.             *)
LEMMA RestartStep ==
  ASSUME HistoryInv, Restart
  PROVE  HistoryInv'
<1>1. /\ memory' = Repaired(disk) /\ holder' = Free /\ rewind' = NoRewind
      /\ UNCHANGED <<disk, begun, ended, given, disturbed>>
  BY DEF Restart
<1>2. LaneInv'
  <2>1. LaneInv /\ disturbed \in BOOLEAN
    BY DEF HistoryInv, LaneInv
  <2> QED BY <1>1, <2>1, FreeIsLane
<1>3. ASSUME ~disturbed' PROVE Undisturbed'
  <2>1. disk \in Seq(Messages) /\ Good(disk) /\ ended \ given \subseteq TurnsIn(disk)
    BY <1>1, <1>3 DEF HistoryInv, Undisturbed
  <2>2. Repaired(disk) = disk
    BY <2>1, GoodRepaired
  <2> QED BY <1>1, <2>1, <2>2, AtRest
<1> QED BY <1>2, <1>3 DEF HistoryInv

LEMMA HistoryStep == HistoryInv /\ [HistoryNext]_historyVars => HistoryInv'
<1> SUFFICES ASSUME HistoryInv, [HistoryNext]_historyVars PROVE HistoryInv'
  OBVIOUS
<1>1. rewind # NoRewind => Kind(rewind.message) = "user"
  BY DEF HistoryInv, LaneInv
<1>2. CASE RequestFlush
  BY <1>1, <1>2, LaneUntouched DEF RequestFlush
<1>3. CASE BeginAutoCompact
  BY <1>1, <1>3, LaneUntouched DEF BeginAutoCompact
<1>4. ASSUME NEW i \in DOMAIN memory, RequestRewind(i) PROVE HistoryInv'
  <2>1. Kind(rewind'.message) = "user"
    BY <1>4 DEF RequestRewind
  <2> QED BY <1>4, <2>1, LaneUntouched DEF RequestRewind
<1>5. CASE UNCHANGED historyVars
  BY <1>1, <1>5, LaneUntouched DEF historyVars
<1> QED BY <1>2, <1>3, <1>4, <1>5, BeginTurnStep, TurnStep, EndTurnStep, TakeLaneStep,
           EndFlushStep, EndCompactStep, EndAutoCompactStep, RewindStep, SpokenStep, ClearStep,
           RestartStep DEF HistoryNext

(* When the lane is free the file and the memory of the loop are the same, *)
(* and a turn that was written is lost only to a summary, a rewind or a    *)
(* clear, unless the messages were changed beside the lane.                *)
THEOREM HistoryIsKept == HistorySpec => []HistoryKept
<1>1. HistoryInv => HistoryKept
  BY DEF HistoryInv, Undisturbed, HistoryKept, FileIsMemory, TurnsAreKept
<1> QED BY <1>1, HistoryInitInv, HistoryStep, PTL DEF HistorySpec

(* In each history the model is sent, a call of tools is followed by its   *)
(* result and a result preceded by its call.                               *)
THEOREM HistoryIsPaired == HistorySpec => []ToolsArePaired
<1>1. HistoryInv => ToolsArePaired
  <2> SUFFICES ASSUME HistoryInv, ChatTurn({"asked", "again"}), ~disturbed,
                      NEW i \in DOMAIN memory
               PROVE  /\ Kind(memory[i]) = "call" => Paired(memory, i)
                      /\ Kind(memory[i]) = "result" =>
                           i > 1 /\ memory[i - 1] = <<"call", memory[i][2]>>
    BY DEF ToolsArePaired
  <2>1. memory \in Seq(Messages) /\ Good(memory)
    BY DEF HistoryInv, Undisturbed, TurnUnderWay, ChatTurn
  <2>2. i \in 1..Len(memory)
    BY <2>1, LenProperties
  <2> QED BY <2>1, <2>2 DEF Good, Paired
<1> QED BY <1>1, HistoryInitInv, HistoryStep, PTL DEF HistorySpec

-----------------------------------------------------------------------------
(* The types of the history, whatever changes the messages beside the      *)
(* lane: no message is of a turn that has not begun.                       *)

Said(b) == {"user", "call", "result", "reply", "spoken", "summary"} \X (0..b)
Histories(b) == Seq(Said(b))
LaneStages == {"", "asked", "tools", "again", "done"}
AfterStages == {"", "flush", "flushing", "compact", "summarizing"}

AfterTyped ==
  /\ after = [stage |-> after.stage, snap |-> after.snap, then |-> after.then]
  /\ after.stage \in AfterStages
  /\ after.snap \in Histories(begun)

Recorded ==
  /\ begun \in Nat
  /\ memory \in Histories(begun) /\ disk \in Histories(begun) /\ given \subseteq 1..begun
  /\ holder.stage \in LaneStages
  /\ holder.from \in Nat /\ holder.kept \in Histories(begun)
  /\ rewind.at \in Nat

HistoryTyped == Recorded /\ AfterTyped

LEMMA Cut ==
  ASSUME NEW S, NEW s \in Seq(S), NEW m \in Nat, m > 0, NEW n \in Int, n <= Len(s)
  PROVE  SubSeq(s, m, n) \in Seq(S)
<1>1. Len(s) \in Nat /\ \A k \in 1..Len(s) : s[k] \in S
  BY LenProperties, ElementOfSeq
<1>2. m \in Int /\ \A k \in m..n : s[k] \in S
  BY <1>1
<1> QED BY <1>2, SubSeqProperties

LEMMA TurnsSaid ==
  ASSUME NEW b \in Nat, NEW ms \in Histories(b)
  PROVE  TurnsIn(ms) \subseteq 1..b
<1>1. \A i \in DOMAIN ms : ms[i][2] \in 0..b
  <2>1. \A i \in DOMAIN ms : ms[i] \in Said(b)
    BY ElementOfSeq, LenProperties DEF Histories
  <2> QED BY <2>1 DEF Said
<1> QED BY <1>1 DEF TurnsIn

(* What is said is added to a history, and part of it is cut from it.      *)
LEMMA SaidNothing == \A b : <<>> \in Histories(b)
  BY EmptySeq DEF Histories

LEMMA SaidLength ==
  ASSUME NEW b, NEW ms \in Histories(b)
  PROVE  Len(ms) \in Nat /\ DOMAIN ms = 1..Len(ms)
  BY LenProperties DEF Histories

LEMMA SaidMore ==
  ASSUME NEW b, NEW ms \in Histories(b), NEW m \in Said(b)
  PROVE  Append(ms, m) \in Histories(b)
  BY AppendProperties DEF Histories

LEMMA SaidOn ==
  ASSUME NEW b, NEW ms \in Histories(b), NEW r \in Histories(b)
  PROVE  ms \o r \in Histories(b)
  BY ConcatProperties DEF Histories

LEMMA SaidPart ==
  ASSUME NEW b, NEW ms \in Histories(b), NEW m \in Nat, m > 0, NEW n \in Int, n <= Len(ms)
  PROVE  SubSeq(ms, m, n) \in Histories(b)
  BY Cut DEF Histories

(* What is summarised is a part of the messages, wherever it ends.         *)
LEMMA SplitWithin ==
  ASSUME NEW S, NEW ms \in Seq(S)
  PROVE  Summarized(ms) \in 0..Len(ms)
<1> DEFINE kf == KeepFrom(ms)
           clean == {i \in 1..kf : ByUser(ms[i + 1]) /\ Kind(ms[i + 1]) # "result"}
           split == CHOOSE i \in clean \union {0} : \A k \in clean : k <= i
<1>1. Len(ms) \in Nat /\ kf \in Nat /\ kf <= Len(ms)
  BY LenProperties, HistoryAssumption DEF KeepFrom
<1>2. Summarized(ms) = IF split < 4 THEN 0 ELSE split
  BY DEF Summarized
<1> HIDE DEF kf
<1>3. clean \union {0} \in SUBSET (0..kf) /\ clean \union {0} # {}
  BY <1>1
<1>4. split \in clean \union {0}
  <2> HIDE DEF clean
  <2>1. \E x \in clean \union {0} : \A y \in clean \union {0} : x >= y
    BY <1>1, <1>3, Greatest
  <2>2. \A x, y \in clean \union {0} : x >= y => y <= x
    BY <1>1, <1>3
  <2> QED BY <2>1, <2>2
<1> HIDE DEF split, clean
<1> QED BY <1>1, <1>2, <1>3, <1>4

(* A compaction leaves messages, and gives turns that have begun.          *)
LEMMA CompactedSaid ==
  ASSUME NEW b \in Nat, NEW ms \in Histories(b)
  PROVE  /\ Compacted(ms) \in Histories(b)
         /\ TurnsIn(SubSeq(ms, 1, Summarized(ms))) \subseteq 1..b
<1>1. Summarized(ms) \in 0..Len(ms) /\ Len(ms) \in Nat
  BY SplitWithin, SaidLength DEF Histories
<1>2. SubSeq(ms, Summarized(ms) + 1, Len(ms)) \in Histories(b)
  BY <1>1, SaidPart
<1>3. SubSeq(ms, 1, Summarized(ms)) \in Histories(b)
  BY <1>1, SaidPart
<1>4. <<<<"summary", 0>>>> \in Histories(b)
  BY DEF Said, Histories
<1>5. Compacted(ms) \in Histories(b)
  BY <1>2, <1>4, SaidOn DEF Compacted
<1> QED BY <1>3, <1>5, TurnsSaid

(* What is repaired is messages of turns that have begun.                  *)
LEMMA RepairedSaid ==
  ASSUME NEW b \in Nat, NEW ms \in Histories(b)
  PROVE  Repaired(ms) \in Histories(b)
<1> DEFINE piece(i) == IF Orphan(ms, i) THEN <<ms[i], <<"result", ms[i][2]>>>> ELSE <<ms[i]>>
           pieces == [i \in DOMAIN ms |-> piece(i)]
<1>1. Len(ms) \in Nat /\ DOMAIN ms = 1..Len(ms)
  BY SaidLength
<1>2. ASSUME NEW i \in 1..Len(ms) PROVE piece(i) \in Seq(Said(b))
  <2>1. ms[i] \in Said(b)
    BY <1>2, ElementOfSeq DEF Histories
  <2>2. <<"result", ms[i][2]>> \in Said(b)
    BY <2>1 DEF Said
  <2> QED BY <2>1, <2>2
<1> HIDE DEF piece
<1>3. pieces \in [1..Len(ms) -> Seq(Said(b))]
  BY <1>1, <1>2
<1> HIDE DEF pieces
<1>4. FlattenSeq(pieces) \in Histories(b)
  BY <1>1, <1>3, Flattened DEF Histories
<1>5. Repaired(ms) = ms \/ Repaired(ms) = FlattenSeq(pieces)
  BY DEF Repaired, pieces, piece
<1> QED BY <1>4, <1>5

LEMMA Stages ==
  /\ "" \in LaneStages /\ "asked" \in LaneStages /\ "tools" \in LaneStages
  /\ "again" \in LaneStages /\ "done" \in LaneStages
  /\ "" \in AfterStages /\ "flush" \in AfterStages /\ "flushing" \in AfterStages
  /\ "compact" \in AfterStages /\ "summarizing" \in AfterStages
  BY DEF LaneStages, AfterStages

LEMMA HistoryInitTyped == HistoryInit => HistoryTyped
<1> SUFFICES ASSUME HistoryInit PROVE HistoryTyped
  OBVIOUS
<1>a. <<>> \in Histories(begun)
  BY SaidNothing
<1>1. /\ memory = <<>> /\ disk = <<>> /\ given = {} /\ rewind.at = 0 /\ begun = 0
      /\ holder.stage = "" /\ holder.from = 0 /\ holder.kept = <<>>
  BY DEF HistoryInit, Free, NoRewind
<1>2. AfterTyped
  BY <1>a, Stages DEF HistoryInit, Nothing, AfterTyped
<1>3. Recorded
  <2>1. holder.stage \in LaneStages
    BY <1>1, Stages, Zenon
  <2>2. holder.from = 0 /\ holder.kept = <<>>
    BY <1>1
  <2>3. /\ memory = <<>> /\ disk = <<>> /\ given = {} /\ rewind.at = 0 /\ begun = 0
    BY <1>1
  <2> QED BY <1>a, <2>1, <2>2, <2>3 DEF Recorded
<1> QED BY <1>2, <1>3 DEF HistoryTyped

(* A turn begins with a message of its own, and ends with what it said.    *)
LEMMA TurnTyped ==
  ASSUME HistoryInv, HistoryTyped, BeginTurn \/ CallTools \/ ToolsReturn \/ Reply \/ EndTurn
  PROVE  HistoryTyped'
<1>a. <<>> \in Histories(begun)
  BY SaidNothing
<1>0. /\ after = [stage |-> after.stage, snap |-> after.snap, then |-> after.then]
      /\ after.stage \in AfterStages
      /\ after.snap \in Histories(begun)
  BY DEF HistoryTyped, AfterTyped
<1>1. /\ begun \in Nat
      /\ holder.op = "chat" => holder.turn \in 1..begun
      /\ holder = [op |-> holder.op, turn |-> holder.turn, stage |-> holder.stage,
                   from |-> holder.from, kept |-> holder.kept]
  BY DEF HistoryInv, LaneInv
<1>2. /\ memory \in Histories(begun) /\ disk \in Histories(begun) /\ given \subseteq 1..begun
      /\ holder.stage \in LaneStages
      /\ holder.from \in Nat /\ holder.kept \in Histories(begun)
      /\ rewind.at \in Nat
  BY DEF HistoryTyped, Recorded
<1>3. CASE BeginTurn
  <2> DEFINE b == begun + 1
  <2>1. /\ begun' = b /\ memory' = Append(memory, <<"user", b>>)
        /\ UNCHANGED <<disk, after, rewind, given>>
        /\ holder' = [op |-> "chat", turn |-> b, stage |-> "asked", from |-> Len(memory),
                      kept |-> <<>>]
    BY <1>3 DEF BeginTurn, Free
  <2>2. b \in Nat /\ Said(begun) \subseteq Said(b) /\ <<"user", b>> \in Said(b) /\ 1..begun \subseteq 1..b
    BY <1>1 DEF Said
  <2> HIDE DEF b
  <2>3. /\ memory \in Histories(b) /\ disk \in Histories(b) /\ after.snap \in Histories(b)
    BY <1>0, <1>2, <2>2, Widened DEF Histories
  <2>4. memory' \in Histories(b) /\ Len(memory) \in Nat /\ <<>> \in Histories(b)
    <3>1. Append(memory, <<"user", b>>) \in Histories(b)
      BY <2>2, <2>3, SaidMore
    <3>2. Len(memory) \in Nat
      BY <2>3, SaidLength
    <3> QED BY <2>1, <3>1, <3>2, SaidNothing
  <2>5. holder'.stage = "asked" /\ holder'.from = Len(memory) /\ holder'.kept = <<>>
    BY <2>1
  <2>6. AfterTyped'
    BY <1>0, <1>1, <1>2, <2>1, <2>3 DEF AfterTyped
  <2>20. Recorded'
    BY <1>1, <1>2, <2>1, <2>2, <2>3, <2>4, <2>5, <1>a, Stages DEF Recorded
  <2> QED BY <2>6, <2>20 DEF HistoryTyped
<1>4. CASE CallTools \/ ToolsReturn \/ Reply
  <2>1. /\ holder.op = "chat" /\ UNCHANGED <<disk, after, rewind, begun, given>>
        /\ \E kind \in {"call", "result", "reply"} : memory' \in {memory, Append(memory, <<kind, holder.turn>>)}
        /\ \E stage \in {"tools", "again", "done"} : holder' = [holder EXCEPT !.stage = stage]
    BY <1>4 DEF CallTools, ToolsReturn, Reply, ChatTurn, Says, MovesTo
  <2>2. memory' \in Histories(begun)
    <3>1. \A kind \in {"call", "result", "reply"} : <<kind, holder.turn>> \in Said(begun)
      BY <1>1, <2>1 DEF Said
    <3>2. memory \in Histories(begun)
      BY <1>2
    <3>3. \A kind \in {"call", "result", "reply"} :
            Append(memory, <<kind, holder.turn>>) \in Histories(begun)
      BY <3>1, <3>2, SaidMore
    <3>4. \E kind \in {"call", "result", "reply"} :
            memory' \in {memory, Append(memory, <<kind, holder.turn>>)}
      BY <2>1
    <3> QED BY <3>2, <3>3, <3>4
  <2>3. /\ holder'.stage \in {"tools", "again", "done"} /\ holder'.from = holder.from
        /\ holder'.kept = holder.kept
    BY <1>1, <2>1
  <2>4. AfterTyped'
    BY <1>0, <1>1, <1>2, <2>1 DEF AfterTyped
  <2>20. Recorded'
    BY <1>1, <1>2, <2>1, <2>2, <2>3, Stages DEF Recorded
  <2> QED BY <2>4, <2>20 DEF HistoryTyped
<1>5. CASE EndTurn
  <2>1. /\ disk' = disk \o SubSeq(memory, holder.from + 1, Len(memory)) /\ holder' = Free
        /\ UNCHANGED <<memory, rewind, begun, given>>
        /\ \/ UNCHANGED after
           \/ \E then \in BOOLEAN : after' = [stage |-> "flush", snap |-> memory, then |-> then]
           \/ after' = [stage |-> "compact", snap |-> <<>>, then |-> FALSE]
    BY <1>5 DEF EndTurn, Written, Nothing
  <2>2. disk' \in Histories(begun)
    <3>1. memory \in Histories(begun) /\ disk \in Histories(begun) /\ holder.from \in Nat
      BY <1>2
    <3>2. Len(memory) \in Nat /\ holder.from + 1 \in Nat /\ holder.from + 1 > 0
      BY <3>1, SaidLength
    <3>3. SubSeq(memory, holder.from + 1, Len(memory)) \in Histories(begun)
      BY <3>1, <3>2, SaidPart
    <3>4. disk \o SubSeq(memory, holder.from + 1, Len(memory)) \in Histories(begun)
      BY <3>1, <3>3, SaidOn
    <3> QED BY <2>1, <3>4
  <2>3. AfterTyped'
    <3>1. CASE UNCHANGED after
      BY <1>0, <2>1, <3>1 DEF AfterTyped
    <3>2. ASSUME NEW then \in BOOLEAN,
                 after' = [stage |-> "flush", snap |-> memory, then |-> then]
          PROVE  AfterTyped'
      BY <1>2, <2>1, <3>2, Stages DEF AfterTyped
    <3>3. CASE after' = [stage |-> "compact", snap |-> <<>>, then |-> FALSE]
      BY <1>a, <2>1, <3>3, Stages DEF AfterTyped
    <3> QED BY <2>1, <3>1, <3>2, <3>3
  <2>20. Recorded'
    BY <1>1, <1>2, <2>1, <2>2, <1>a, Stages DEF Recorded, Free
  <2> QED BY <2>3, <2>20 DEF HistoryTyped
<1> QED BY <1>3, <1>4, <1>5

(* A flush ends with the history as it was.                                *)
LEMMA FlushTyped ==
  ASSUME HistoryInv, HistoryTyped, RequestFlush \/ BeginFlush \/ EndFlush
  PROVE  HistoryTyped'
<1>a. <<>> \in Histories(begun)
  BY SaidNothing
<1>0. /\ after = [stage |-> after.stage, snap |-> after.snap, then |-> after.then]
      /\ after.stage \in AfterStages
      /\ after.snap \in Histories(begun)
  BY DEF HistoryTyped, AfterTyped
<1>1. /\ begun \in Nat
      /\ memory \in Histories(begun) /\ disk \in Histories(begun) /\ given \subseteq 1..begun
      /\ holder.stage \in LaneStages
      /\ holder.from \in Nat /\ holder.kept \in Histories(begun) /\ rewind.at \in Nat
  BY DEF HistoryTyped, Recorded
<1>2. UNCHANGED <<disk, rewind, begun, given>>
  BY DEF RequestFlush, BeginFlush, EndFlush
<1>3. CASE RequestFlush
  <2>1. UNCHANGED <<memory, holder>> /\ after' = [stage |-> "flush", snap |-> memory, then |-> FALSE]
    BY <1>3 DEF RequestFlush
  <2>2. AfterTyped'
    BY <1>0, <1>1, <1>2, <2>1, Stages DEF AfterTyped
  <2>20. Recorded'
    BY <1>1, <1>2, <2>1 DEF Recorded
  <2> QED BY <2>2, <2>20 DEF HistoryTyped
<1>4. CASE BeginFlush
  <2>1. /\ holder' = [op |-> "flush", turn |-> 0, stage |-> "", from |-> 0, kept |-> memory]
        /\ memory' = Append(after.snap, <<"user", 0>>)
        /\ after' = [after EXCEPT !.stage = "flushing"]
    BY <1>4 DEF BeginFlush, Free
  <2>2. <<"user", 0>> \in Said(begun)
    BY <1>1 DEF Said
  <2>3. memory' \in Histories(begun)
    <3>1. after.snap \in Histories(begun)
      BY <1>0
    <3>2. Append(after.snap, <<"user", 0>>) \in Histories(begun)
      BY <2>2, <3>1, SaidMore
    <3> QED BY <2>1, <3>2
  <2>4. AfterTyped'
    <3>1. after' = [stage |-> "flushing", snap |-> after.snap, then |-> after.then]
      BY <1>0, <1>1, <2>1 DEF AfterTyped
    <3> QED BY <1>0, <1>1, <1>2, <3>1, Stages DEF AfterTyped
  <2>5. holder'.stage = "" /\ holder'.from = 0 /\ holder'.kept = memory
    BY <2>1
  <2>20. Recorded'
    <3>1. holder'.stage \in LaneStages
      BY <2>5, Stages, Zenon
    <3>2. holder'.from = 0 /\ holder'.kept = memory
      BY <2>5
    <3> QED BY <1>1, <1>2, <2>3, <3>1, <3>2 DEF Recorded
  <2> QED BY <2>4, <2>20 DEF HistoryTyped
<1>5. CASE EndFlush
  <2>1. /\ memory' = holder.kept /\ holder' = Free
        /\ after' \in {[stage |-> "compact", snap |-> <<>>, then |-> FALSE], Nothing}
    BY <1>5 DEF EndFlush, Nothing
  <2>2. AfterTyped'
    <3>1. CASE after' = [stage |-> "compact", snap |-> <<>>, then |-> FALSE]
      BY <1>a, <1>2, <3>1, Stages DEF AfterTyped
    <3>2. CASE after' = Nothing
      BY <1>a, <1>2, <3>2, Stages DEF AfterTyped, Nothing
    <3> QED BY <2>1, <3>1, <3>2
  <2>20. Recorded'
    BY <1>1, <1>2, <2>1, <1>a, Stages DEF Recorded, Free
  <2> QED BY <2>2, <2>20 DEF HistoryTyped
<1> QED BY <1>3, <1>4, <1>5

(* A compaction, in the lane or beside it                                  *)
LEMMA CompactTyped ==
  ASSUME HistoryInv, HistoryTyped, BeginCompact \/ EndCompact \/ BeginAutoCompact \/ EndAutoCompact
  PROVE  HistoryTyped'
<1>a. <<>> \in Histories(begun)
  BY SaidNothing
<1>0. /\ after = [stage |-> after.stage, snap |-> after.snap, then |-> after.then]
      /\ after.stage \in AfterStages
      /\ after.snap \in Histories(begun)
  BY DEF HistoryTyped, AfterTyped
<1>1. /\ begun \in Nat
      /\ memory \in Histories(begun) /\ disk \in Histories(begun) /\ given \subseteq 1..begun
      /\ holder.stage \in LaneStages
      /\ holder.from \in Nat /\ holder.kept \in Histories(begun) /\ rewind.at \in Nat
  BY DEF HistoryTyped, Recorded
<1>2. UNCHANGED <<rewind, begun>>
  BY DEF BeginCompact, EndCompact, BeginAutoCompact, EndAutoCompact
<1>3. after.snap \in Histories(begun)
  BY <1>0, <1>1 DEF AfterTyped
<1>4. /\ Free.stage = "" /\ Free.from = 0 /\ Free.kept = <<>>
      /\ Nothing = [stage |-> "", snap |-> <<>>, then |-> FALSE]
  BY DEF Free, Nothing
<1>5. CASE BeginCompact
  <2>1. /\ UNCHANGED <<memory, disk, after, given>>
        /\ holder' = [op |-> "compact", turn |-> 0, stage |-> "", from |-> 0, kept |-> memory]
    BY <1>5 DEF BeginCompact, Free
  <2>2. AfterTyped'
    BY <1>0, <1>1, <1>2, <2>1 DEF AfterTyped
  <2>3. holder'.stage = "" /\ holder'.from = 0 /\ holder'.kept = memory
    BY <2>1
  <2>20. Recorded'
    BY <1>1, <1>2, <2>1, <2>3, Stages DEF Recorded
  <2> QED BY <2>2, <2>20 DEF HistoryTyped
<1>6. CASE EndCompact
  <2>1. /\ UNCHANGED after /\ holder' = Free
        /\ \/ /\ memory' = Compacted(holder.kept) /\ disk' = Compacted(holder.kept)
              /\ given' = given \union TurnsIn(SubSeq(holder.kept, 1, Summarized(holder.kept)))
           \/ UNCHANGED <<memory, disk, given>>
    BY <1>6 DEF EndCompact, Replace
  <2>2. AfterTyped'
    BY <1>0, <1>1, <1>2, <2>1 DEF AfterTyped
  <2>3. memory' \in Histories(begun) /\ disk' \in Histories(begun) /\ given' \subseteq 1..begun
    BY <1>1, <2>1, CompactedSaid
  <2>20. Recorded'
    <3>1. holder'.stage \in LaneStages
      BY <1>4, <2>1, Stages, Zenon
    <3>2. holder'.from = 0 /\ holder'.kept = <<>>
      BY <1>4, <2>1
    <3> QED BY <1>1, <1>2, <2>1, <2>3, <1>a, <3>1, <3>2 DEF Recorded
  <2> QED BY <2>2, <2>20 DEF HistoryTyped
<1>7. CASE BeginAutoCompact
  <2>1. /\ UNCHANGED <<memory, disk, holder, given>>
        /\ \/ after' = Nothing
           \/ after' = [after EXCEPT !.stage = "summarizing", !.snap = memory]
    BY <1>7 DEF BeginAutoCompact
  <2>2. AfterTyped'
    <3>1. CASE after' = Nothing
      BY <1>0, <1>2, <1>4, <3>1, <1>a, Stages DEF AfterTyped
    <3>2. CASE after' = [after EXCEPT !.stage = "summarizing", !.snap = memory]
      <4>1. after' = [stage |-> "summarizing", snap |-> memory, then |-> after.then]
        BY <1>0, <1>1, <3>2 DEF AfterTyped
      <4> QED BY <1>0, <1>1, <1>2, <4>1, Stages DEF AfterTyped
    <3> QED BY <2>1, <3>1, <3>2
  <2>20. Recorded'
    BY <1>1, <1>2, <2>1 DEF Recorded
  <2> QED BY <2>2, <2>20 DEF HistoryTyped
<1>8. CASE EndAutoCompact
  <2>1. /\ UNCHANGED holder /\ after' = Nothing
        /\ \/ /\ memory' = Compacted(after.snap) /\ disk' = Compacted(after.snap)
              /\ given' = given \union TurnsIn(SubSeq(after.snap, 1, Summarized(after.snap)))
           \/ UNCHANGED <<memory, disk, given>>
    BY <1>8 DEF EndAutoCompact, Replace
  <2>2. AfterTyped'
    BY <1>0, <1>2, <1>4, <2>1, <1>a, Stages DEF AfterTyped
  <2>3. memory' \in Histories(begun) /\ disk' \in Histories(begun) /\ given' \subseteq 1..begun
    BY <1>1, <1>3, <2>1, CompactedSaid
  <2>20. Recorded'
    BY <1>1, <1>2, <2>1, <2>3 DEF Recorded
  <2> QED BY <2>2, <2>20 DEF HistoryTyped
<1> QED BY <1>5, <1>6, <1>7, <1>8

(* What changes the history besides turns, flushes and compactions         *)
LEMMA BesideTyped ==
  ASSUME HistoryInv, HistoryTyped,
         \/ \E i \in DOMAIN memory : RequestRewind(i)
         \/ Rewind \/ AppendSpoken \/ Clear \/ Restart
  PROVE  HistoryTyped'
<1>a. <<>> \in Histories(begun)
  BY SaidNothing
<1>0. /\ after = [stage |-> after.stage, snap |-> after.snap, then |-> after.then]
      /\ after.stage \in AfterStages
      /\ after.snap \in Histories(begun)
  BY DEF HistoryTyped, AfterTyped
<1>1. /\ begun \in Nat
      /\ memory \in Histories(begun) /\ disk \in Histories(begun) /\ given \subseteq 1..begun
      /\ holder.stage \in LaneStages
      /\ holder.from \in Nat /\ holder.kept \in Histories(begun) /\ rewind.at \in Nat
      /\ Len(memory) \in Nat /\ DOMAIN memory = 1..Len(memory)
  BY SaidLength DEF HistoryTyped, Recorded
<1>2. begun' = begun
  BY DEF RequestRewind, Rewind, AppendSpoken, Clear, Restart
<1>3. ASSUME UNCHANGED after PROVE AfterTyped'
  BY <1>0, <1>1, <1>2, <1>3 DEF AfterTyped
<1>4. ASSUME NEW i \in DOMAIN memory, RequestRewind(i) PROVE HistoryTyped'
  <2>1. /\ UNCHANGED <<memory, disk, holder, after, given>>
        /\ rewind' = [at |-> i, message |-> memory[i]]
    BY <1>4 DEF RequestRewind
  <2>2. rewind'.at = i /\ i \in Nat
    BY <1>1, <2>1
  <2>20. Recorded'
    BY <1>1, <1>2, <2>1, <2>2 DEF Recorded
  <2> QED BY <1>3, <2>1, <2>20 DEF HistoryTyped
<1>5. CASE Rewind
  <2>1. /\ UNCHANGED <<holder, after>> /\ rewind' = NoRewind
        /\ \/ /\ rewind.at \in DOMAIN memory
              /\ memory' = SubSeq(memory, 1, rewind.at - 1) /\ disk' = SubSeq(memory, 1, rewind.at - 1)
              /\ given' = given \union TurnsIn(SubSeq(memory, rewind.at, Len(memory)))
           \/ UNCHANGED <<memory, disk, given>>
    BY <1>5 DEF Rewind, Replace
  <2>2. memory' \in Histories(begun) /\ disk' \in Histories(begun) /\ given' \subseteq 1..begun
    <3>1. ASSUME rewind.at \in 1..Len(memory)
          PROVE  /\ SubSeq(memory, 1, rewind.at - 1) \in Histories(begun)
                 /\ TurnsIn(SubSeq(memory, rewind.at, Len(memory))) \subseteq 1..begun
      <4>1. rewind.at > 0 /\ rewind.at - 1 \in Int /\ rewind.at - 1 <= Len(memory) /\ Len(memory) \in Int
        BY <1>1, <3>1
      <4>2. SubSeq(memory, 1, rewind.at - 1) \in Histories(begun)
        BY <1>1, <4>1, SaidPart
      <4>3. SubSeq(memory, rewind.at, Len(memory)) \in Histories(begun)
        BY <1>1, <4>1, SaidPart
      <4> QED BY <1>1, <4>2, <4>3, TurnsSaid
    <3> QED BY <1>1, <2>1, <3>1
  <2>20. Recorded'
    BY <1>1, <1>2, <2>1, <2>2 DEF Recorded, NoRewind
  <2> QED BY <1>3, <2>1, <2>20 DEF HistoryTyped
<1>6. CASE AppendSpoken
  <2>1. /\ memory' = Append(memory, <<"spoken", 0>>) /\ disk' = Append(disk, <<"spoken", 0>>)
        /\ UNCHANGED <<holder, after, rewind, given>>
    BY <1>6 DEF AppendSpoken
  <2>2. <<"spoken", 0>> \in Said(begun)
    BY <1>1 DEF Said
  <2>3. memory' \in Histories(begun) /\ disk' \in Histories(begun)
    <3>1. memory \in Histories(begun) /\ disk \in Histories(begun)
      BY <1>1
    <3>2. Append(memory, <<"spoken", 0>>) \in Histories(begun)
          /\ Append(disk, <<"spoken", 0>>) \in Histories(begun)
      BY <2>2, <3>1, SaidMore
    <3> QED BY <2>1, <3>2
  <2>20. Recorded'
    BY <1>1, <1>2, <2>1, <2>3 DEF Recorded
  <2> QED BY <1>3, <2>1, <2>20 DEF HistoryTyped
<1>7. CASE Clear
  <2>1. memory' = <<>> /\ disk' = <<>> /\ given' = 1..begun /\ UNCHANGED <<holder, after, rewind>>
    BY <1>7 DEF Clear, Replace
  <2>20. Recorded'
    BY <1>1, <1>2, <2>1, <1>a DEF Recorded
  <2> QED BY <1>3, <2>1, <2>20 DEF HistoryTyped
<1>8. CASE Restart
  <2>1. /\ memory' = Repaired(disk) /\ holder' = Free /\ after' = Nothing /\ rewind' = NoRewind
        /\ UNCHANGED <<disk, given>>
    BY <1>8 DEF Restart
  <2>2. memory' \in Histories(begun)
    BY <1>1, <2>1, RepairedSaid
  <2>3. AfterTyped'
    BY <1>0, <1>2, <2>1, <1>a, Stages DEF AfterTyped, Nothing
  <2>20. Recorded'
    BY <1>1, <1>2, <2>1, <2>2, <1>a, Stages DEF Recorded, Free, NoRewind
  <2> QED BY <2>3, <2>20 DEF HistoryTyped
<1> QED BY <1>4, <1>5, <1>6, <1>7, <1>8

LEMMA HistoryTypedStep == HistoryInv /\ HistoryTyped /\ [HistoryNext]_historyVars => HistoryTyped'
<1> SUFFICES ASSUME HistoryInv, HistoryTyped, [HistoryNext]_historyVars PROVE HistoryTyped'
  OBVIOUS
<1>1. CASE UNCHANGED historyVars
  <2>1. Recorded'
    BY <1>1 DEF historyVars, HistoryTyped, Recorded
  <2>2. AfterTyped'
    BY <1>1 DEF historyVars, HistoryTyped, AfterTyped
  <2> QED BY <2>1, <2>2 DEF HistoryTyped
<1> QED BY <1>1, TurnTyped, FlushTyped, CompactTyped, BesideTyped DEF HistoryNext

(* What the history holds has its type, and the turns that were written,   *)
(* summarised, rewound or cleared are turns that have begun, whatever      *)
(* changed the messages beside the lane.                                   *)
THEOREM HistoryIsTyped == HistorySpec => []HistoryTypeOK
<1>1. HistoryInv /\ HistoryTyped => HistoryTypeOK
  <2> SUFFICES ASSUME HistoryInv, HistoryTyped PROVE HistoryTypeOK
    OBVIOUS
  <2>1. LaneInv
    BY DEF HistoryInv
  <2>2. begun \in 0..MaxTurns /\ MaxTurns \in Nat
    BY <2>1, HistoryAssumption DEF LaneInv
  <2>3. Said(begun) \subseteq Messages
    BY <2>2 DEF Said, Messages
  <2>4. {memory, disk, holder.kept, after.snap} \subseteq Seq(Messages)
    <3>1. memory \in Histories(begun) /\ disk \in Histories(begun) /\ holder.kept \in Histories(begun)
      BY DEF HistoryTyped, Recorded
    <3>2. after.snap \in Histories(begun)
      BY DEF HistoryTyped, AfterTyped
    <3> QED BY <2>3, <3>1, <3>2, Widened DEF Histories
  <2>5. ended \subseteq 1..begun /\ holder.op \in {"free", "chat", "flush", "compact"}
    BY <2>1 DEF LaneInv
  <2>6. given \subseteq 1..begun /\ holder.stage \in LaneStages
    BY DEF HistoryTyped, Recorded
  <2>7. after.stage \in AfterStages
    BY DEF HistoryTyped, AfterTyped
  <2> QED BY <2>4, <2>5, <2>6, <2>7, Zenon DEF HistoryTypeOK, LaneStages, AfterStages
<1> QED BY <1>1, HistoryInitInv, HistoryInitTyped, HistoryStep, HistoryTypedStep, PTL
        DEF HistorySpec

-----------------------------------------------------------------------------
(* Which step can lose a turn.  Only the compaction after a turn replaces  *)
(* messages without being in the lane: it is overtaken when it replaces    *)
(* others than the ones it summarised, or those of a lane at work.         *)
Overtaken ==
  /\ EndAutoCompact /\ ~UNCHANGED <<memory, disk>>
  /\ holder # Free \/ memory # after.snap

(* What must not be lost is in the file, and in what the loop goes on      *)
(* with: its own messages, or those that a flush puts back.  A turn in the *)
(* lane has its message behind those that are in the file already.         *)
Covers(ms) == ended \ given \subseteq TurnsIn(ms)
Saves == \E i \in DOMAIN memory : i > holder.from /\ memory[i][2] = holder.turn

Spared ==
  /\ Covers(disk)
  /\ holder.op # "flush" => Covers(memory)
  /\ holder.op \in {"flush", "compact"} => Covers(holder.kept)
  /\ holder.op = "chat" => holder.turn \in given \/ Saves

LEMMA HeldTurns ==
  ASSUME NEW a, NEW b, HoldsAll(a, b)
  PROVE  TurnsIn(b) \subseteq TurnsIn(a)
<1>1. ASSUME NEW i \in DOMAIN b, b[i][2] # 0 PROVE b[i][2] \in TurnsIn(a)
  <2>1. PICK k \in DOMAIN a : a[k] = b[i]
    BY DEF HoldsAll
  <2> QED BY <1>1, <2>1 DEF TurnsIn
<1> QED BY <1>1 DEF TurnsIn

(* What follows the first n messages.                                      *)
LEMMA TailIs ==
  ASSUME NEW S, NEW ms \in Seq(S), NEW n \in Nat, n <= Len(ms), NEW r,
         r = SubSeq(ms, n + 1, Len(ms))
  PROVE  /\ r \in Seq(S) /\ Len(ms) - n \in Nat /\ DOMAIN r = 1..(Len(ms) - n)
         /\ \A k \in 1..(Len(ms) - n) : r[k] = ms[n + k]
<1> DEFINE l == Len(ms)
<1>1. l \in Nat /\ n <= l
  BY LenProperties
<1>2. l = Len(ms)
  OBVIOUS
<1> HIDE DEF l
<1> DEFINE m == n + 1
<1>3. /\ m \in Nat /\ 1 <= m /\ m <= l + 1 /\ l <= Len(ms)
      /\ l + 1 - m = l - n /\ l - n \in Nat
      /\ \A k \in 1..(l - n) : k + m - 1 = n + k
  BY <1>1, <1>2
<1>4. r = SubSeq(ms, m, l)
  BY <1>2
<1> HIDE DEF m
<1>5. /\ r \in Seq(S) /\ Len(r) = l + 1 - m
      /\ \A k \in 1..(l + 1 - m) : r[k] = ms[k + m - 1]
  <2>1. /\ SubSeq(ms, m, l) \in Seq(S) /\ Len(SubSeq(ms, m, l)) = l + 1 - m
        /\ \A k \in 1..(l + 1 - m) : SubSeq(ms, m, l)[k] = ms[k + m - 1]
    BY <1>1, <1>3, Part, ZenonT(40)
  <2> QED BY <1>4, <2>1, Zenon
<1>6. DOMAIN r = 1..(l - n) /\ \A k \in 1..(l - n) : r[k] = ms[n + k]
  BY <1>3, <1>5, LenProperties
<1> QED BY <1>2, <1>3, <1>5, <1>6

(* A history that is cut in two loses no turn.                             *)
LEMMA CutTurns ==
  ASSUME NEW S, NEW ms \in Seq(S), NEW n \in 0..Len(ms)
  PROVE  TurnsIn(ms) \subseteq TurnsIn(SubSeq(ms, 1, n)) \union TurnsIn(SubSeq(ms, n + 1, Len(ms)))
<1> DEFINE h == SubSeq(ms, 1, n)
           r == SubSeq(ms, n + 1, Len(ms))
<1>1. Len(ms) \in Nat /\ DOMAIN ms = 1..Len(ms) /\ n \in Nat /\ n <= Len(ms)
  BY LenProperties
<1>2. DOMAIN h = 1..n /\ \A k \in 1..n : h[k] = ms[k]
  <2>1. /\ 1 \in Nat /\ 1 <= 1 /\ 1 <= n + 1 /\ n <= Len(ms) /\ n + 1 - 1 = n
        /\ \A k \in 1..n : k + 1 - 1 = k
    BY <1>1
  <2>2. /\ h \in Seq(S) /\ Len(h) = n + 1 - 1
        /\ \A k \in 1..(n + 1 - 1) : h[k] = ms[k + 1 - 1]
    BY <1>1, <2>1, Part
  <2> HIDE DEF h
  <2> QED BY <2>1, <2>2, LenProperties
<1>3. DOMAIN r = 1..(Len(ms) - n) /\ \A k \in 1..(Len(ms) - n) : r[k] = ms[n + k]
  BY <1>1, TailIs
<1> HIDE DEF h, r
<1>4. ASSUME NEW k \in DOMAIN ms, ms[k][2] # 0
      PROVE  ms[k][2] \in TurnsIn(h) \union TurnsIn(r)
  <2>1. CASE k <= n
    <3>1. k \in DOMAIN h /\ h[k] = ms[k]
      BY <1>1, <1>2, <2>1
    <3> QED BY <1>4, <3>1 DEF TurnsIn
  <2>2. CASE ~(k <= n)
    <3>1. k - n \in 1..(Len(ms) - n) /\ n + (k - n) = k
      BY <1>1, <2>2
    <3>2. k - n \in DOMAIN r /\ r[k - n] = ms[k]
      BY <1>3, <3>1
    <3> QED BY <1>4, <3>2 DEF TurnsIn
  <2> QED BY <2>1, <2>2
<1>5. TurnsIn(ms) \subseteq TurnsIn(h) \union TurnsIn(r)
  BY <1>4 DEF TurnsIn
<1> QED BY <1>5 DEF h, r

(* Wherever a compaction splits, and whatever it finds, a turn is given to *)
(* the summary or kept.                                                    *)
LEMMA CompactedTurns ==
  ASSUME NEW b \in Nat, NEW ms \in Histories(b)
  PROVE  TurnsIn(ms) \subseteq TurnsIn(SubSeq(ms, 1, Summarized(ms))) \union TurnsIn(Compacted(ms))
<1> DEFINE n == Summarized(ms)
           m == <<<<"summary", 0>>>>
           r == SubSeq(ms, n + 1, Len(ms))
<1>1. n \in 0..Len(ms) /\ Len(ms) \in Nat
  BY SplitWithin, SaidLength DEF Histories
<1>2. m \in Histories(b) /\ r \in Histories(b)
  BY <1>1, SaidPart DEF Said, Histories
<1>3. Compacted(ms) = m \o r
  BY DEF Compacted
<1> HIDE DEF n, m, r
<1>4. TurnsIn(r) \subseteq TurnsIn(Compacted(ms))
  BY <1>2, <1>3, JoinedHold, HeldTurns DEF Histories
<1>5. TurnsIn(ms) \subseteq TurnsIn(SubSeq(ms, 1, n)) \union TurnsIn(r)
  BY <1>1, CutTurns DEF Histories, r
<1> QED BY <1>4, <1>5 DEF n

(* Every message that is repaired is still there.                          *)
LEMMA RepairedTurns ==
  ASSUME NEW b \in Nat, NEW ms \in Histories(b)
  PROVE  TurnsIn(ms) \subseteq TurnsIn(Repaired(ms))
<1> DEFINE piece(i) == IF Orphan(ms, i) THEN <<ms[i], <<"result", ms[i][2]>>>> ELSE <<ms[i]>>
           pieces == [i \in DOMAIN ms |-> piece(i)]
<1>1. Len(ms) \in Nat /\ DOMAIN ms = 1..Len(ms)
  BY SaidLength
<1>2. ASSUME NEW i \in 1..Len(ms)
      PROVE  piece(i) \in Seq(Said(b)) /\ 1 \in DOMAIN piece(i) /\ piece(i)[1] = ms[i]
  <2>1. ms[i] \in Said(b)
    BY <1>2, ElementOfSeq DEF Histories
  <2>2. <<"result", ms[i][2]>> \in Said(b)
    BY <2>1 DEF Said
  <2> QED BY <2>1, <2>2
<1> HIDE DEF piece
<1>3. /\ pieces \in [1..Len(ms) -> Seq(Said(b))]
      /\ \A i \in 1..Len(ms) : pieces[i] = piece(i)
  BY <1>1, <1>2
<1> HIDE DEF pieces
<1>4. \A i \in 1..Len(ms) : HoldsAll(FlattenSeq(pieces), pieces[i])
  BY <1>1, <1>3, Flattened
<1>5. HoldsAll(FlattenSeq(pieces), ms)
  BY <1>1, <1>2, <1>3, <1>4 DEF HoldsAll
<1>6. TurnsIn(ms) \subseteq TurnsIn(FlattenSeq(pieces))
  BY <1>5, HeldTurns
<1>7. Repaired(ms) = ms \/ Repaired(ms) = FlattenSeq(pieces)
  BY DEF Repaired, pieces, piece
<1> QED BY <1>6, <1>7

(* The lane is given back with messages that cover the same turns.         *)
LEMMA SparedAtRest ==
  ASSUME holder' = Free, Covers(disk)', Covers(memory)'
  PROVE  Spared'
<1>1. holder'.op = "free"
  BY DEF Free
<1> QED BY <1>1 DEF Spared

LEMMA CompactedCovers ==
  ASSUME NEW b \in Nat, NEW ms \in Histories(b), Covers(ms), ended' = ended,
         memory' = Compacted(ms), disk' = Compacted(ms),
         given' = given \union TurnsIn(SubSeq(ms, 1, Summarized(ms)))
  PROVE  Covers(disk)' /\ Covers(memory)'
<1>1. TurnsIn(ms) \subseteq TurnsIn(SubSeq(ms, 1, Summarized(ms))) \union TurnsIn(Compacted(ms))
  BY CompactedTurns
<1>2. ended' \ given' \subseteq TurnsIn(Compacted(ms))
  BY <1>1 DEF Covers
<1> QED BY <1>2 DEF Covers

(* A turn in the lane adds its messages to those of the loop, and leaves   *)
(* them in the file.                                                       *)
LEMMA TurnSpares ==
  ASSUME HistoryInv, HistoryTyped, Spared,
         BeginTurn \/ CallTools \/ ToolsReturn \/ Reply \/ EndTurn
  PROVE  Spared'
<1>1. /\ begun \in Nat /\ memory \in Histories(begun) /\ disk \in Histories(begun)
      /\ holder.from \in Nat
  BY DEF HistoryTyped, Recorded
<1>2. /\ holder = [op |-> holder.op, turn |-> holder.turn, stage |-> holder.stage,
                   from |-> holder.from, kept |-> holder.kept]
      /\ holder.op = "chat" => holder.turn \in 1..begun
  BY DEF HistoryInv, LaneInv
<1>3. CASE BeginTurn
  <2> DEFINE m == <<"user", begun + 1>>
  <2>1. /\ memory' = Append(memory, m) /\ UNCHANGED <<disk, ended, given>> /\ holder = Free
        /\ holder' = [op |-> "chat", turn |-> begun + 1, stage |-> "asked",
                      from |-> Len(memory), kept |-> <<>>]
    BY <1>3 DEF BeginTurn, Free
  <2>2. m \in Said(begun + 1) /\ memory \in Seq(Said(begun + 1)) /\ m[2] = begun + 1
    <3>1. Said(begun) \subseteq Said(begun + 1) /\ m \in Said(begun + 1)
      BY <1>1 DEF Said
    <3> QED BY <1>1, <3>1, Widened DEF Histories
  <2> HIDE DEF m
  <2>3. /\ HoldsAll(memory', memory) /\ Len(memory) \in Nat
        /\ DOMAIN memory' = 1..Len(memory) + 1 /\ memory'[Len(memory) + 1] = m
    BY <2>1, <2>2, AppendedHolds
  <2>4. /\ holder'.op = "chat" /\ holder'.turn = begun + 1 /\ holder'.from = Len(memory)
        /\ holder.op = "free"
    BY <2>1 DEF Free
  <2>5. Saves'
    <3>1. Len(memory) + 1 \in DOMAIN memory' /\ Len(memory) + 1 > Len(memory)
      BY <2>3
    <3> QED BY <2>2, <2>3, <2>4, <3>1 DEF Saves
  <2>6. Covers(memory)' /\ Covers(disk)'
    BY <2>1, <2>3, <2>4, HeldTurns DEF Spared, Covers
  <2> QED BY <2>4, <2>5, <2>6 DEF Spared
<1>4. CASE CallTools \/ ToolsReturn \/ Reply
  <2>1. /\ holder.op = "chat" /\ UNCHANGED <<disk, begun, ended, given>>
        /\ \E kind \in {"call", "result", "reply"} :
             memory' \in {memory, Append(memory, <<kind, holder.turn>>)}
        /\ \E stage : holder' = [holder EXCEPT !.stage = stage]
    BY <1>4 DEF CallTools, ToolsReturn, Reply, ChatTurn, Says, MovesTo
  <2>2. \A kind \in {"call", "result", "reply"} : <<kind, holder.turn>> \in Said(begun)
    BY <1>1, <1>2, <2>1 DEF Said
  <2>3. /\ HoldsAll(memory', memory)
        /\ \A i \in DOMAIN memory : i \in DOMAIN memory' /\ memory'[i] = memory[i]
    <3>1. CASE memory' = memory
      BY <3>1 DEF HoldsAll
    <3>2. ASSUME NEW m \in Said(begun), memory' = Append(memory, m) PROVE <2>3
      <4>1. /\ HoldsAll(memory', memory) /\ Len(memory) \in Nat /\ DOMAIN memory = 1..Len(memory)
            /\ DOMAIN memory' = 1..Len(memory) + 1
            /\ \A i \in 1..Len(memory) : memory'[i] = memory[i]
        BY <1>1, <3>2, AppendedHolds DEF Histories
      <4> QED BY <4>1
    <3> QED BY <2>1, <2>2, <3>1, <3>2
  <2>4. holder'.op = "chat" /\ holder'.turn = holder.turn /\ holder'.from = holder.from
    BY <1>2, <2>1
  <2>5. Covers(memory)' /\ Covers(disk)'
    BY <2>1, <2>3, HeldTurns DEF Spared, Covers
  <2>6. holder'.turn \in given' \/ Saves'
    BY <2>1, <2>3, <2>4 DEF Spared, Saves
  <2> QED BY <2>4, <2>5, <2>6 DEF Spared
<1>5. CASE EndTurn
  <2> DEFINE w == SubSeq(memory, holder.from + 1, Len(memory))
  <2>1. /\ holder.op = "chat" /\ holder' = Free /\ disk' = disk \o w
        /\ ended' = ended \union {holder.turn} /\ UNCHANGED <<memory, given>>
    BY <1>5 DEF EndTurn, ChatTurn, Written
  <2>2. Len(memory) \in Nat /\ DOMAIN memory = 1..Len(memory) /\ holder.turn # 0
    BY <1>1, <1>2, <2>1, SaidLength
  <2>3. w \in Histories(begun)
    BY <1>1, <2>2, SaidPart
  <2>4. Saves => holder.turn \in TurnsIn(memory) /\ holder.turn \in TurnsIn(w)
    <3> SUFFICES ASSUME NEW i \in DOMAIN memory, i > holder.from, memory[i][2] = holder.turn
                 PROVE  holder.turn \in TurnsIn(memory) /\ holder.turn \in TurnsIn(w)
      BY DEF Saves
    <3>1. holder.turn \in TurnsIn(memory)
      BY <2>2 DEF TurnsIn
    <3> DEFINE n == holder.from
    <3>2. n \in Nat /\ n < Len(memory) /\ i \in n + 1..Len(memory)
      BY <1>1, <2>2
    <3>3. memory \in Seq(Said(begun)) /\ n <= Len(memory) /\ w = SubSeq(memory, n + 1, Len(memory))
      BY <1>1, <3>2 DEF Histories
    <3> HIDE DEF w, n
    <3>4. /\ DOMAIN w = 1..(Len(memory) - n)
          /\ \A k \in 1..(Len(memory) - n) : w[k] = memory[n + k]
      BY <3>2, <3>3, TailIs
    <3>5. i - n \in 1..(Len(memory) - n) /\ n + (i - n) = i
      BY <2>2, <3>2
    <3>6. i - n \in DOMAIN w /\ w[i - n] = memory[i]
      BY <3>4, <3>5
    <3> QED BY <2>2, <3>1, <3>6 DEF TurnsIn
  <2> HIDE DEF w
  <2>5. TurnsIn(disk) \subseteq TurnsIn(disk') /\ TurnsIn(w) \subseteq TurnsIn(disk')
    BY <1>1, <2>1, <2>3, JoinedHold, HeldTurns DEF Histories
  <2>6. Covers(memory)' /\ Covers(disk)'
    BY <2>1, <2>4, <2>5 DEF Spared, Covers
  <2> QED BY <2>1, <2>6, SparedAtRest
<1> QED BY <1>3, <1>4, <1>5

(* What takes the lane keeps what it found; a flush puts it back, and a    *)
(* compaction, unless it is overtaken, replaces what it found.             *)
LEMMA UpkeepSpares ==
  ASSUME HistoryInv, HistoryTyped, Spared,
         \/ BeginFlush \/ EndFlush \/ BeginCompact \/ EndCompact
         \/ EndAutoCompact /\ ~Overtaken
  PROVE  Spared'
<1>1. /\ begun \in Nat /\ memory \in Histories(begun) /\ disk \in Histories(begun)
      /\ holder.kept \in Histories(begun)
  BY DEF HistoryTyped, Recorded
<1>2. ended' = ended
  BY DEF BeginFlush, EndFlush, BeginCompact, EndCompact, EndAutoCompact
<1>3. CASE BeginFlush \/ BeginCompact
  <2>1. /\ holder = Free /\ UNCHANGED <<disk, given>>
        /\ \/ holder' = [Free EXCEPT !.op = "flush", !.kept = memory]
           \/ holder' = [Free EXCEPT !.op = "compact", !.kept = memory] /\ memory' = memory
    BY <1>3 DEF BeginFlush, BeginCompact
  <2>2. /\ holder.op = "free" /\ holder'.kept = memory /\ holder'.op \in {"flush", "compact"}
        /\ holder'.op # "flush" => memory' = memory
    BY <2>1 DEF Free
  <2>3. Covers(memory) /\ Covers(disk)
    BY <2>2 DEF Spared
  <2> QED BY <1>2, <2>1, <2>2, <2>3 DEF Spared, Covers
<1>4. CASE EndFlush
  <2>1. holder.op = "flush" /\ memory' = holder.kept /\ holder' = Free /\ UNCHANGED <<disk, given>>
    BY <1>4 DEF EndFlush
  <2>2. Covers(memory)' /\ Covers(disk)'
    BY <1>2, <2>1 DEF Spared, Covers
  <2> QED BY <2>1, <2>2, SparedAtRest
<1>5. CASE EndCompact
  <2>1. /\ holder.op = "compact" /\ holder' = Free
        /\ \/ /\ memory' = Compacted(holder.kept) /\ disk' = Compacted(holder.kept)
              /\ given' = given \union TurnsIn(SubSeq(holder.kept, 1, Summarized(holder.kept)))
           \/ UNCHANGED <<memory, disk, given>>
    BY <1>5 DEF EndCompact, Replace
  <2>2. Covers(memory) /\ Covers(disk) /\ Covers(holder.kept)
    BY <2>1 DEF Spared
  <2>3. CASE UNCHANGED <<memory, disk, given>>
    BY <1>2, <2>1, <2>2, <2>3, SparedAtRest DEF Covers
  <2>4. CASE ~UNCHANGED <<memory, disk, given>>
    BY <1>1, <1>2, <2>1, <2>2, <2>4, CompactedCovers, SparedAtRest
  <2> QED BY <2>3, <2>4
<1>6. CASE EndAutoCompact /\ ~Overtaken
  <2>1. /\ UNCHANGED holder
        /\ \/ /\ memory' = Compacted(after.snap) /\ disk' = Compacted(after.snap)
              /\ given' = given \union TurnsIn(SubSeq(after.snap, 1, Summarized(after.snap)))
           \/ UNCHANGED <<memory, disk, given>>
    BY <1>6 DEF EndAutoCompact, Replace
  <2>2. given \subseteq given'
    BY <2>1
  <2>3. CASE UNCHANGED <<memory, disk>>
    BY <1>2, <2>1, <2>2, <2>3 DEF Spared, Covers, Saves
  <2>4. CASE ~UNCHANGED <<memory, disk>>
    <3>1. holder = Free /\ memory = after.snap
      BY <1>6, <2>4 DEF Overtaken
    <3>2. Covers(memory)
      BY <3>1 DEF Spared, Free
    <3> QED BY <1>1, <1>2, <2>1, <2>4, <3>1, <3>2, CompactedCovers, SparedAtRest
  <2> QED BY <2>3, <2>4
<1> QED BY <1>3, <1>4, <1>5, <1>6

(* A rewind and a clear give the turns they remove, what is said aloud     *)
(* removes none, and a restart loads all the file holds.                   *)
LEMMA RequestsSpare ==
  ASSUME HistoryInv, HistoryTyped, Spared, Rewind \/ AppendSpoken \/ Clear \/ Restart
  PROVE  Spared'
<1>1. /\ begun \in Nat /\ memory \in Histories(begun) /\ disk \in Histories(begun)
      /\ Len(memory) \in Nat /\ DOMAIN memory = 1..Len(memory)
  BY SaidLength DEF HistoryTyped, Recorded
<1>2. ended \subseteq 1..begun /\ (holder.op = "chat" => holder.turn \in 1..begun)
  BY DEF HistoryInv, LaneInv
<1>3. ended' = ended
  BY DEF Rewind, AppendSpoken, Clear, Restart
<1>4. CASE Rewind
  <2> DEFINE n == rewind.at - 1
  <2>1. /\ holder = Free /\ UNCHANGED holder
        /\ \/ /\ rewind.at \in DOMAIN memory
              /\ memory' = SubSeq(memory, 1, n) /\ disk' = SubSeq(memory, 1, n)
              /\ given' = given \union TurnsIn(SubSeq(memory, rewind.at, Len(memory)))
           \/ UNCHANGED <<memory, disk, given>>
    BY <1>4 DEF Rewind, Replace
  <2>2. Covers(memory) /\ Covers(disk)
    BY <2>1 DEF Spared, Free
  <2>3. CASE UNCHANGED <<memory, disk, given>>
    BY <1>3, <2>1, <2>2, <2>3, SparedAtRest DEF Covers
  <2>4. CASE ~UNCHANGED <<memory, disk, given>>
    <3>1. n \in 0..Len(memory) /\ n + 1 = rewind.at
      BY <1>1, <2>1, <2>4
    <3> HIDE DEF n
    <3>2. TurnsIn(memory) \subseteq TurnsIn(SubSeq(memory, 1, n))
                                      \union TurnsIn(SubSeq(memory, rewind.at, Len(memory)))
      <4>1. memory \in Seq(Said(begun))
        BY <1>1 DEF Histories
      <4>2. TurnsIn(memory) \subseteq TurnsIn(SubSeq(memory, 1, n))
                                        \union TurnsIn(SubSeq(memory, n + 1, Len(memory)))
        BY <3>1, <4>1, CutTurns
      <4> QED BY <3>1, <4>2
    <3>3. ended' \ given' \subseteq TurnsIn(SubSeq(memory, 1, n))
      BY <1>3, <2>1, <2>2, <2>4, <3>2 DEF Covers
    <3>4. Covers(memory)' /\ Covers(disk)'
      BY <2>1, <2>4, <3>3 DEF Covers
    <3> QED BY <2>1, <3>4, SparedAtRest
  <2> QED BY <2>3, <2>4
<1>5. CASE AppendSpoken
  <2> DEFINE m == <<"spoken", 0>>
  <2>1. memory' = Append(memory, m) /\ disk' = Append(disk, m) /\ UNCHANGED <<holder, given>>
    BY <1>5 DEF AppendSpoken
  <2>2. m \in Said(begun)
    BY <1>1 DEF Said
  <2> HIDE DEF m
  <2>3. /\ HoldsAll(memory', memory) /\ HoldsAll(disk', disk)
        /\ \A i \in DOMAIN memory : i \in DOMAIN memory' /\ memory'[i] = memory[i]
    <3>1. /\ HoldsAll(memory', memory) /\ DOMAIN memory' = 1..Len(memory) + 1
          /\ \A i \in 1..Len(memory) : memory'[i] = memory[i]
      BY <1>1, <2>1, <2>2, AppendedHolds DEF Histories
    <3>2. HoldsAll(disk', disk)
      BY <1>1, <2>1, <2>2, AppendedHolds DEF Histories
    <3> QED BY <1>1, <3>1, <3>2
  <2>4. Covers(disk)' /\ (Covers(memory) => Covers(memory)')
    BY <1>3, <2>1, <2>3, HeldTurns DEF Spared, Covers
  <2>5. (Covers(holder.kept) => Covers(holder.kept)') /\ (Saves => Saves')
    BY <1>3, <2>1, <2>3 DEF Covers, Saves
  <2> QED BY <2>1, <2>4, <2>5 DEF Spared
<1>6. CASE Clear
  <2>1. given' = 1..begun /\ UNCHANGED holder
    BY <1>6 DEF Clear
  <2> QED BY <1>2, <1>3, <2>1 DEF Spared, Covers
<1>7. CASE Restart
  <2>1. memory' = Repaired(disk) /\ holder' = Free /\ UNCHANGED <<disk, given>>
    BY <1>7 DEF Restart
  <2>2. TurnsIn(disk) \subseteq TurnsIn(Repaired(disk))
    BY <1>1, RepairedTurns
  <2>3. Covers(disk)' /\ Covers(memory)'
    BY <1>3, <2>1, <2>2 DEF Spared, Covers
  <2> QED BY <2>1, <2>3, SparedAtRest
<1> QED BY <1>4, <1>5, <1>6, <1>7

LEMMA SparedStep ==
  HistoryInv /\ HistoryTyped /\ Spared /\ [HistoryNext]_historyVars /\ [~Overtaken]_historyVars
    => Spared'
<1> SUFFICES ASSUME HistoryInv, HistoryTyped, Spared, [HistoryNext]_historyVars,
                    [~Overtaken]_historyVars
             PROVE  Spared'
  OBVIOUS
<1>1. ASSUME UNCHANGED <<memory, disk, holder, ended, given>> PROVE Spared'
  BY <1>1 DEF Spared, Covers, Saves
<1>2. CASE RequestFlush \/ BeginAutoCompact \/ UNCHANGED historyVars
  BY <1>1, <1>2 DEF RequestFlush, BeginAutoCompact, historyVars
<1>3. ASSUME NEW i \in DOMAIN memory, RequestRewind(i) PROVE Spared'
  BY <1>1, <1>3 DEF RequestRewind
<1>4. CASE EndAutoCompact
  <2>1. ~Overtaken \/ UNCHANGED historyVars
    OBVIOUS
  <2> QED BY <1>2, <1>4, <2>1, UpkeepSpares
<1> QED BY <1>2, <1>3, <1>4, TurnSpares, UpkeepSpares, RequestsSpare DEF HistoryNext

(* A turn that was written is lost by nothing but a compaction that was    *)
(* overtaken: not by a flush, a rewind, a clear, a crash, what is said     *)
(* aloud beside the lane, or any order of these.  The run lost_turn shows  *)
(* that the one step that is excepted here does lose one.                  *)
THEOREM OnlyOvertakenLoses ==
  HistorySpec /\ [][~Overtaken]_historyVars => []TurnsAreKept
<1>1. HistoryInit => Spared
  <2> SUFFICES ASSUME HistoryInit PROVE Spared
    OBVIOUS
  <2>1. holder.op = "free" /\ \A ms : Covers(ms)
    BY DEF HistoryInit, Free, Covers
  <2> QED BY <2>1 DEF Spared
<1>2. Spared => TurnsAreKept
  BY DEF Spared, Covers, TurnsAreKept
<1> QED BY <1>1, <1>2, HistoryInitInv, HistoryInitTyped, HistoryStep, HistoryTypedStep,
           SparedStep, PTL DEF HistorySpec
=============================================================================
