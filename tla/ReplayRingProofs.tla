-------------------------- MODULE ReplayRingProofs ---------------------------
(***************************************************************************)
(* What the operators of the replay ring do, for every size of ring, batch *)
(* and chunk: where a record is after the head wraps, which chunk of the   *)
(* saved copy it is in, and that no operation brings a record back that    *)
(* has left or gives one twice.                                            *)
(***************************************************************************)
EXTENDS ReplayRing, SequenceTheorems, WellFoundedInduction, TLAPS

(* Multiplication is monotonic.                                            *)
LEMMA TimesMono ==
  ASSUME NEW a \in Nat, NEW b \in Nat, NEW k \in Nat, a <= b
  PROVE  a * k <= b * k /\ a * k \in Nat /\ b * k \in Nat
<1>1. PICK d \in Nat : b = a + d
  <2>1. b - a \in Nat /\ b = a + (b - a)
    OBVIOUS
  <2>2. QED
    BY <2>1
<1>2. b * k = a * k + d * k /\ d * k \in Nat /\ a * k \in Nat
  BY <1>1
<1>3. QED
  BY <1>2

(* Division by a positive number, as a multiple and a remainder.           *)
LEMMA Division ==
  ASSUME NEW a \in Nat, NEW k \in Nat \ {0}
  PROVE  /\ a \div k \in Nat /\ a % k \in 0..k - 1
         /\ a = (a \div k) * k + (a % k)
<1>1. a \div k \in Int /\ a % k \in 0..k - 1 /\ a = k * (a \div k) + (a % k)
  OBVIOUS
<1>2. a \div k >= 0
  OBVIOUS
<1>3. k * (a \div k) = (a \div k) * k
  BY <1>1
<1>4. QED
  BY <1>1, <1>2, <1>3

(* A number of a piece and a place in it are determined by their sum.      *)
LEMMA SplitUnique ==
  ASSUME NEW k \in Nat \ {0}, NEW c \in Nat, NEW d \in Nat, NEW i \in 0..k - 1, NEW j \in 0..k - 1,
         c * k + i = d * k + j
  PROVE  c = d /\ i = j
<1>1. ASSUME NEW x \in Nat, NEW y \in Nat, x < y PROVE x * k + k <= y * k
  <2>1. (x + 1) * k <= y * k
    BY <1>1, TimesMono
  <2>2. (x + 1) * k = x * k + k
    OBVIOUS
  <2>3. QED
    BY <2>1, <2>2
<1>2. c * k \in Nat /\ d * k \in Nat
  BY TimesMono
<1>3. ~(c < d)
  BY <1>1, <1>2
<1>4. ~(d < c)
  BY <1>1, <1>2
<1>5. c = d
  BY <1>3, <1>4
<1>6. QED
  BY <1>2, <1>5

(* What is below twice the modulus wraps at most once.                     *)
LEMMA WrapOnce ==
  ASSUME NEW k \in Nat \ {0}, NEW x \in 0..2 * k - 1
  PROVE  x % k = IF x < k THEN x ELSE x - k
<1> DEFINE q == IF x < k THEN 0 ELSE 1
           r == IF x < k THEN x ELSE x - k
<1>1. x \in Nat /\ q \in Nat /\ r \in 0..k - 1 /\ q * k + r = x
  OBVIOUS
<1>2. x \div k \in Nat /\ x % k \in 0..k - 1 /\ x = (x \div k) * k + (x % k)
  BY <1>1, Division
<1> HIDE DEF q, r
<1>3. x % k = r
  BY <1>1, <1>2, SplitUnique
<1>4. QED
  BY <1>3 DEF r

(* Which pieces start at or before a place.                                *)
LEMMA Pieces ==
  ASSUME NEW a \in Nat, NEW k \in Nat \ {0}, NEW c \in Nat
  PROVE  c <= a \div k <=> c * k <= a
<1> DEFINE q == a \div k
<1>1. q \in Nat /\ a % k \in 0..k - 1 /\ a = q * k + (a % k)
  BY Division
<1> HIDE DEF q
<1>2. q * k \in Nat /\ c * k \in Nat
  BY <1>1, TimesMono
<1>3. ASSUME c <= q PROVE c * k <= a
  <2>1. c * k <= q * k
    BY <1>1, <1>3, TimesMono
  <2>2. QED
    BY <1>1, <1>2, <2>1
<1>4. ASSUME q < c PROVE a < c * k
  <2>1. (q + 1) * k <= c * k
    BY <1>1, <1>4, TimesMono
  <2>2. (q + 1) * k = q * k + k
    BY <1>1
  <2>3. QED
    BY <1>1, <1>2, <2>1, <2>2
<1>5. QED
  BY <1>1, <1>2, <1>3, <1>4 DEF q

(* A set of natural numbers that is not empty has a least element.         *)
LEMMA Least ==
  ASSUME NEW T, T \subseteq Nat, T # {}
  PROVE  \E x \in T : \A y \in T : x <= y
<1>1. PICK x \in T : \A y \in T : <<y, x>> \notin OpToRel(<, Nat)
  BY NatLessThanWellFounded, WFMin
<1>2. ASSUME NEW y \in T PROVE x <= y
  <2>1. <<y, x>> \in Nat \X Nat
    OBVIOUS
  <2>2. ~(y < x)
    BY <1>1, <2>1 DEF OpToRel
  <2>3. QED
    BY <2>1, <2>2
<1>3. QED
  BY <1>2

-----------------------------------------------------------------------------
(* The constants are positive numbers.                                     *)
LEMMA Sizes ==
  /\ RP_MAX \in Nat \ {0} /\ RP_PER_POST \in Nat \ {0} /\ RP_CHUNK_RECS \in Nat \ {0}
  /\ MaxRecords \in Nat \ {0}
  BY RingAssumption

(* A place below twice the size of the ring wraps at most once.            *)
LEMMA RingWraps ==
  \A x \in 0..2 * RP_MAX - 1 : x % RP_MAX = IF x < RP_MAX THEN x ELSE x - RP_MAX
<1>1. RP_MAX \in Nat \ {0}
  BY Sizes
<1>2. QED
  BY <1>1, WrapOnce

(* The slot of the n-th oldest of c records behind the head h.             *)
Place(h, c, n) == IF h - c + n >= 0 THEN h - c + n ELSE h - c + n + RP_MAX

(* rpOldestIdx and the step from it wrap as Place says.                    *)
LEMMA Places ==
  ASSUME NEW h \in Slots, NEW c \in 0..RP_MAX, NEW n \in 0..c - 1
  PROVE  /\ (((h + RP_MAX - c) % RP_MAX) + n) % RP_MAX = Place(h, c, n)
         /\ Place(h, c, n) \in Slots
<1> USE Sizes DEF Slots
<1> DEFINE old == (h + RP_MAX - c) % RP_MAX
<1>1. old = IF h < c THEN h + RP_MAX - c ELSE h - c
  <2>1. h + RP_MAX - c \in 0..2 * RP_MAX - 1
    OBVIOUS
  <2>2. old = IF h + RP_MAX - c < RP_MAX THEN h + RP_MAX - c ELSE h + RP_MAX - c - RP_MAX
    BY <2>1, RingWraps
  <2>3. QED
    BY <2>2
<1> HIDE DEF old
<1>2. old \in Nat /\ old + n \in 0..2 * RP_MAX - 1
  BY <1>1
<1>3. (old + n) % RP_MAX = IF old + n < RP_MAX THEN old + n ELSE old + n - RP_MAX
  BY <1>2, RingWraps
<1>4. (old + n) % RP_MAX = Place(h, c, n)
  BY <1>1, <1>3 DEF Place
<1>5. Place(h, c, n) \in Slots
  BY DEF Place
<1>6. QED
  BY <1>4, <1>5 DEF old

(* A record of the ring, by the slot it is in.                             *)
LEMMA AtPlace ==
  ASSUME RingTypeOK, NEW n \in 0..count - 1
  PROVE  /\ At(n) = slot[Place(head, count, n)] /\ Place(head, count, n) \in Slots
         /\ At(n) \in 0..MaxRecords
<1>1. head \in Slots /\ count \in 0..RP_MAX /\ slot \in [Slots -> 0..MaxRecords]
  BY DEF RingTypeOK
<1>2. At(n) = slot[Place(head, count, n)] /\ Place(head, count, n) \in Slots
  BY <1>1, Places DEF At, rpOldestIdx
<1>3. QED
  BY <1>1, <1>2

(* The same for the state after a step.                                    *)
LEMMA AtPlaceNext ==
  ASSUME RingTypeOK', NEW n \in 0..count' - 1
  PROVE  At(n)' = slot'[Place(head', count', n)] /\ Place(head', count', n) \in Slots
<1>1. head' \in Slots /\ count' \in 0..RP_MAX
  BY DEF RingTypeOK, Slots
<1>2. QED
  BY <1>1, Places DEF At, rpOldestIdx

(* Capturing keeps the records in order and adds the newest at the end.    *)
LEMMA CaptureShifts ==
  ASSUME RingTypeOK, Capture
  PROVE  /\ RingTypeOK'
         /\ count < RP_MAX => /\ count' = count + 1 /\ gone' = gone
                              /\ \A n \in 0..count - 1 : At(n)' = At(n)
         /\ count = RP_MAX => /\ count' = count /\ gone' = gone \cup {At(0)}
                              /\ \A n \in 0..count - 2 : At(n)' = At(n + 1)
         /\ top' = top + 1
         /\ \A n \in 0..RP_MAX - 1 : count' = n + 1 => At(n)' = top'
<1> USE Sizes
<1>1. /\ head \in Slots /\ count \in 0..RP_MAX /\ slot \in [Slots -> 0..MaxRecords]
      /\ top \in 0..MaxRecords /\ gone \subseteq 0..MaxRecords
  BY DEF RingTypeOK
<1>2. /\ top' = top + 1 /\ top' \in 0..MaxRecords /\ slot' = [slot EXCEPT ![head] = top']
      /\ UNCHANGED <<chunk, meta>>
  BY <1>1 DEF Capture, copy
<1>3. head' = (IF head + 1 < RP_MAX THEN head + 1 ELSE 0) /\ head' \in Slots
  <2>1. head + 1 \in 0..2 * RP_MAX - 1 /\ head + 1 <= RP_MAX
    BY <1>1 DEF Slots
  <2>2. head' = (head + 1) % RP_MAX /\ head \in Nat
    BY <1>1 DEF Slots, Capture, HeadAfterOne
  <2>3. (head + 1) % RP_MAX = IF head + 1 < RP_MAX THEN head + 1 ELSE head + 1 - RP_MAX
    BY <2>1, <2>2, RingWraps
  <2>4. QED
    BY <1>1, <2>1, <2>2, <2>3 DEF Slots
<1>4. /\ count < RP_MAX => count' = count + 1 /\ gone' = gone
      /\ count = RP_MAX => count' = count /\ gone' = gone \cup {At(0)}
      /\ count' \in 1..RP_MAX
  BY <1>1 DEF Capture
<1>5. gone' \subseteq 0..MaxRecords
  <2>1. count = RP_MAX => At(0) \in 0..MaxRecords
    BY <1>1, AtPlace
  <2>2. CASE count < RP_MAX
    BY <1>1, <1>4, <2>2
  <2>3. CASE count = RP_MAX
    BY <1>1, <1>4, <2>1, <2>3
  <2>4. QED
    BY <1>1, <2>2, <2>3
<1>6. RingTypeOK'
  BY <1>1, <1>2, <1>3, <1>4, <1>5 DEF RingTypeOK, Slots, Chunks
<1>7. ASSUME NEW n \in 0..count' - 1
      PROVE  At(n)' = slot'[Place(head', count', n)] /\ Place(head', count', n) \in Slots
  BY <1>6, AtPlaceNext
<1>8. ASSUME NEW n \in 0..RP_MAX - 1, count' = n + 1 PROVE At(n)' = top'
  <2>1. n \in 0..count' - 1
    BY <1>8
  <2>2. Place(head', count', n) = head
    BY <1>1, <1>3, <1>4, <1>8 DEF Place, Slots
  <2>3. QED
    BY <1>1, <1>2, <1>7, <2>1, <2>2
<1>9. ASSUME count < RP_MAX, NEW n \in 0..count - 1 PROVE At(n)' = At(n)
  <2>1. At(n) = slot[Place(head, count, n)] /\ Place(head, count, n) \in Slots
    BY AtPlace
  <2>2. Place(head', count', n) = Place(head, count, n) /\ Place(head, count, n) # head
    BY <1>1, <1>3, <1>4, <1>9 DEF Place, Slots
  <2>3. QED
    BY <1>1, <1>2, <1>4, <1>7, <1>9, <2>1, <2>2
<1>10. ASSUME count = RP_MAX, NEW n \in 0..count - 2 PROVE At(n)' = At(n + 1)
  <2>1. At(n + 1) = slot[Place(head, count, n + 1)] /\ Place(head, count, n + 1) \in Slots
    BY <1>1, AtPlace
  <2>2. Place(head', count', n) = Place(head, count, n + 1) /\ Place(head, count, n + 1) # head
    BY <1>1, <1>3, <1>4, <1>10 DEF Place, Slots
  <2>3. QED
    BY <1>1, <1>2, <1>4, <1>7, <1>10, <2>1, <2>2
<1>11. QED
  BY <1>2, <1>4, <1>6, <1>8, <1>9, <1>10

(* Taking the k oldest records off leaves the others in order.             *)
LEMMA DropShifts ==
  ASSUME RingTypeOK, NEW k \in 1..count, DropOldest(k)
  PROVE  /\ RingTypeOK' /\ count' = count - k /\ UNCHANGED <<top, chunk, meta>>
         /\ gone' = gone \cup {At(i) : i \in 0..k - 1}
         /\ \A n \in 0..count - k - 1 : At(n)' = At(n + k)
<1> USE Sizes
<1>1. /\ head \in Slots /\ count \in 0..RP_MAX /\ slot \in [Slots -> 0..MaxRecords]
      /\ top \in 0..MaxRecords /\ gone \subseteq 0..MaxRecords
  BY DEF RingTypeOK
<1>2. /\ count' = count - k /\ gone' = gone \cup {At(i) : i \in 0..k - 1}
      /\ UNCHANGED <<slot, head, chunk, meta, top>>
  BY DEF DropOldest, copy
<1>3. gone' \subseteq 0..MaxRecords
  <2>1. \A i \in 0..k - 1 : At(i) \in 0..MaxRecords
    BY <1>1, AtPlace
  <2>2. QED
    BY <1>1, <1>2, <2>1
<1>4. RingTypeOK'
  <2>1. count' \in 0..RP_MAX
    BY <1>1, <1>2
  <2>2. QED
    BY <1>2, <1>3, <2>1 DEF RingTypeOK, Slots, Chunks
<1>5. ASSUME NEW n \in 0..count - k - 1 PROVE At(n)' = At(n + k)
  <2>1. At(n)' = slot'[Place(head', count', n)]
    BY <1>1, <1>2, <1>4, AtPlaceNext
  <2>2. At(n + k) = slot[Place(head, count, n + k)]
    BY <1>1, AtPlace
  <2>3. Place(head', count', n) = Place(head, count, n + k)
    BY <1>1, <1>2 DEF Place, Slots
  <2>4. QED
    BY <1>2, <2>1, <2>2, <2>3
<1>6. QED
  BY <1>2, <1>4, <1>5

(* A function on 1..n is a sequence of length n.                           *)
LEMMA MakesSeq ==
  ASSUME NEW S, NEW n \in Nat, NEW f \in [1..n -> S]
  PROVE  f \in Seq(S) /\ Len(f) = n
  OBVIOUS

(* The ring, read oldest first, is a sequence of its count.                *)
LEMMA ContentSeq ==
  ASSUME RingTypeOK
  PROVE  /\ Content \in Seq(0..MaxRecords) /\ Len(Content) = count
         /\ \A i \in 1..count : Content[i] = At(i - 1)
<1>1. count \in 0..RP_MAX /\ RP_MAX \in Nat /\ count \in Nat
  BY Sizes DEF RingTypeOK
<1>2. \A i \in 1..count : At(i - 1) \in 0..MaxRecords
  BY <1>1, AtPlace
<1>3. Content \in [1..count -> 0..MaxRecords]
  BY <1>2 DEF Content
<1>4. Content \in Seq(0..MaxRecords) /\ Len(Content) = count
  BY <1>1, <1>3, MakesSeq
<1>5. QED
  BY <1>4 DEF Content

(* The same for the state after a step.                                    *)
LEMMA ContentNext ==
  ASSUME RingTypeOK'
  PROVE  /\ Content' \in Seq(0..MaxRecords) /\ Len(Content') = count'
         /\ \A i \in 1..count' : Content'[i] = At(i - 1)'
<1>1. count' \in Nat
  BY Sizes DEF RingTypeOK
<1>2. slot' \in [Slots -> 0..MaxRecords]
  BY Sizes DEF RingTypeOK, Slots
<1>3. \A i \in 1..count' : At(i - 1)' \in 0..MaxRecords
  <2>1. TAKE i \in 1..count'
  <2>2. i - 1 \in 0..count' - 1
    <3>1. \A k \in Nat : \A j \in 1..k : j - 1 \in 0..k - 1
      OBVIOUS
    <3>2. QED
      BY <1>1, <3>1
  <2>3. At(i - 1)' = slot'[Place(head', count', i - 1)] /\ Place(head', count', i - 1) \in Slots
    BY <2>2, AtPlaceNext
  <2>4. QED
    BY <1>2, <2>3
<1>4. Content' = [i \in 1..count' |-> At(i - 1)']
  BY DEF Content
<1>5. Content' \in [1..count' -> 0..MaxRecords]
  BY <1>3, <1>4
<1>6. Content' \in Seq(0..MaxRecords) /\ Len(Content') = count'
  BY <1>1, <1>5, MakesSeq
<1>7. QED
  BY <1>4, <1>6

-----------------------------------------------------------------------------
(* The chunks that the saved count covers.                                 *)
Loadable == {c \in Chunks : c * RP_CHUNK_RECS < meta}

(* A number is that of a chunk if its first record would fit the ring.     *)
LEMMA ChunkNumbers ==
  ASSUME NEW c \in Nat
  PROVE  c \in Chunks <=> c * RP_CHUNK_RECS < RP_MAX
<1> DEFINE q == (RP_MAX - 1) \div RP_CHUNK_RECS
<1>1. RP_MAX - 1 \in Nat /\ RP_CHUNK_RECS \in Nat \ {0} /\ RP_MAX \in Nat
  BY Sizes
<1>2. q \in Nat /\ (c <= q <=> c * RP_CHUNK_RECS <= RP_MAX - 1)
  BY <1>1, Division, Pieces
<1>3. c * RP_CHUNK_RECS \in Nat
  BY <1>1, TimesMono
<1>4. c \in Chunks <=> c <= q
  BY <1>2 DEF Chunks
<1> HIDE DEF q
<1>5. QED
  BY <1>1, <1>2, <1>3, <1>4

(* The last chunk of a save is the last that a record of the ring is in.   *)
LEMMA LastChunkIs ==
  ASSUME RingTypeOK, count > 0, NEW c \in Nat
  PROVE  /\ LastChunk \in Nat
         /\ c <= LastChunk <=> c * RP_CHUNK_RECS < count
<1>1. count - 1 \in Nat /\ RP_CHUNK_RECS \in Nat \ {0} /\ count \in Nat
  BY Sizes DEF RingTypeOK
<1>2. LastChunk \in Nat /\ (c <= LastChunk <=> c * RP_CHUNK_RECS <= count - 1)
  BY <1>1, Division, Pieces DEF LastChunk
<1>3. c * RP_CHUNK_RECS \in Nat
  BY <1>1, TimesMono
<1>4. QED
  BY <1>1, <1>2, <1>3

(* What replayPersist writes for a chunk.                                  *)
LEMMA ChunkOfFacts ==
  ASSUME RingTypeOK, NEW c \in Nat, c * RP_CHUNK_RECS < count
  PROVE  /\ ChunkOf(c) \in Seq(0..MaxRecords)
         /\ Len(ChunkOf(c)) = Smaller(RP_CHUNK_RECS, count - c * RP_CHUNK_RECS)
         /\ \A i \in 1..Len(ChunkOf(c)) :
              /\ c * RP_CHUNK_RECS + i - 1 \in 0..count - 1
              /\ ChunkOf(c)[i] = At(c * RP_CHUNK_RECS + i - 1)
<1> DEFINE from == c * RP_CHUNK_RECS
           size == Smaller(RP_CHUNK_RECS, count - from)
<1>1. from \in Nat /\ count \in 0..RP_MAX /\ RP_CHUNK_RECS \in Nat \ {0} /\ RP_MAX \in Nat
  BY Sizes, TimesMono DEF RingTypeOK
<1>2. ChunkOf(c) = [i \in 1..size |-> At(from + i - 1)]
  BY DEF ChunkOf, Part
<1> HIDE DEF from
<1>3. size \in Nat /\ size <= count - from
  BY <1>1 DEF Smaller, from
<1> HIDE DEF size
<1>4. \A i \in 1..size : from + i - 1 \in 0..count - 1
  BY <1>1, <1>3
<1>5. \A i \in 1..size : At(from + i - 1) \in 0..MaxRecords
  BY <1>4, AtPlace
<1>6. ChunkOf(c) \in [1..size -> 0..MaxRecords]
  BY <1>2, <1>5
<1>7. ChunkOf(c) \in Seq(0..MaxRecords) /\ Len(ChunkOf(c)) = size
  BY <1>3, <1>6, MakesSeq
<1>8. QED
  BY <1>2, <1>4, <1>7 DEF from, size

-----------------------------------------------------------------------------
(* The loop of replayLoad stops at the first chunk of the wrong length.    *)
LEMMA ReadFacts ==
  ASSUME RingTypeOK
  PROVE  /\ Needed \in Nat /\ Read \in 0..Needed
         /\ \A c \in 0..Read - 1 : Sized(c)
         /\ Read < Needed => ~Sized(Read)
<1>1. Needed \in Nat
  <2>1. meta \in Nat /\ RP_CHUNK_RECS \in Nat \ {0}
    BY Sizes DEF RingTypeOK
  <2>2. meta > 0 => (meta - 1) \div RP_CHUNK_RECS \in Nat
    BY <2>1, Division
  <2>3. QED
    BY <2>1, <2>2 DEF Needed
<1>2. \E n \in 0..Needed : (\A c \in 0..n - 1 : Sized(c)) /\ (n < Needed => ~Sized(n))
  <2> DEFINE T == {n \in 0..Needed : n = Needed \/ ~Sized(n)}
  <2>1. T \subseteq Nat /\ Needed \in T
    BY <1>1
  <2>2. PICK n \in T : \A y \in T : n <= y
    BY <2>1, Least
  <2>3. \A c \in 0..n - 1 : Sized(c)
    <3>1. TAKE c \in 0..n - 1
    <3>2. c \in 0..Needed /\ c # Needed /\ ~(n <= c)
      BY <1>1, <2>1
    <3>3. QED
      BY <2>2, <3>2
  <2>4. QED
    BY <1>1, <2>2, <2>3
<1>3. QED
  BY <1>1, <1>2 DEF Read

(* A chunk is needed if the count covers its first record.                 *)
LEMMA NeededCovers ==
  ASSUME RingTypeOK, NEW c \in Nat
  PROVE  c < Needed <=> c * RP_CHUNK_RECS < meta
<1>1. /\ meta \in Nat /\ RP_CHUNK_RECS \in Nat \ {0} /\ c * RP_CHUNK_RECS \in Nat
  BY Sizes, TimesMono DEF RingTypeOK
<1>2. CASE meta = 0
  BY <1>1, <1>2 DEF Needed
<1>3. CASE meta > 0
  <2> DEFINE q == (meta - 1) \div RP_CHUNK_RECS
  <2>1. q \in Nat /\ (c <= q <=> c * RP_CHUNK_RECS <= meta - 1)
    BY <1>1, <1>3, Division, Pieces
  <2>2. Needed = q + 1
    BY <1>3 DEF Needed
  <2> HIDE DEF q
  <2>3. QED
    BY <1>1, <2>1, <2>2
<1>4. QED
  BY <1>1, <1>2, <1>3

(* Where the i-th loaded record comes from: a chunk that was read whole.   *)
LEMMA LoadedFrom ==
  ASSUME RingTypeOK
  PROVE  /\ Loaded \in 0..meta
         /\ \A i \in 0..Loaded - 1 :
              /\ i \div RP_CHUNK_RECS \in Loadable
              /\ (i % RP_CHUNK_RECS) + 1 \in 1..Len(chunk[i \div RP_CHUNK_RECS])
              /\ i = (i \div RP_CHUNK_RECS) * RP_CHUNK_RECS + (i % RP_CHUNK_RECS)
<1>1. /\ meta \in 0..RP_MAX /\ RP_MAX \in Nat /\ RP_CHUNK_RECS \in Nat \ {0}
      /\ Read \in Nat /\ Needed \in Nat /\ Read <= Needed
  BY Sizes, ReadFacts DEF RingTypeOK
<1>2. Read * RP_CHUNK_RECS \in Nat
  BY <1>1, TimesMono
<1>3. Loaded \in 0..meta /\ Loaded <= Read * RP_CHUNK_RECS
  BY <1>1, <1>2 DEF Loaded, Smaller
<1>4. ASSUME NEW i \in 0..Loaded - 1
      PROVE  /\ i \div RP_CHUNK_RECS \in Loadable
             /\ (i % RP_CHUNK_RECS) + 1 \in 1..Len(chunk[i \div RP_CHUNK_RECS])
             /\ i = (i \div RP_CHUNK_RECS) * RP_CHUNK_RECS + (i % RP_CHUNK_RECS)
  <2> DEFINE c == i \div RP_CHUNK_RECS
             r == i % RP_CHUNK_RECS
  <2>1. i \in Nat /\ i < meta /\ i < Read * RP_CHUNK_RECS
    BY <1>1, <1>2, <1>3
  <2>2. c \in Nat /\ r \in 0..RP_CHUNK_RECS - 1 /\ i = c * RP_CHUNK_RECS + r
    BY <1>1, <2>1, Division
  <2>3. Read <= c <=> Read * RP_CHUNK_RECS <= i
    BY <1>1, <2>1, Pieces
  <2> HIDE DEF c, r
  <2>4. c * RP_CHUNK_RECS \in Nat
    BY <1>1, <2>2, TimesMono
  <2>5. c < Read
    BY <1>1, <1>2, <2>1, <2>2, <2>3
  <2>6. Sized(c)
    BY <1>1, <2>2, <2>5, ReadFacts
  <2>7. c * RP_CHUNK_RECS < meta /\ c * RP_CHUNK_RECS < RP_MAX
    BY <1>1, <2>1, <2>2, <2>4
  <2>8. c \in Loadable
    BY <2>2, <2>7, ChunkNumbers DEF Loadable
  <2>9. r + 1 \in 1..Len(chunk[c])
    <3>1. Len(chunk[c]) = Smaller(RP_CHUNK_RECS, meta - c * RP_CHUNK_RECS)
      BY <2>6 DEF Sized
    <3>2. r + 1 <= RP_CHUNK_RECS /\ r + 1 <= meta - c * RP_CHUNK_RECS
      BY <1>1, <2>1, <2>2, <2>4
    <3>3. QED
      BY <1>1, <2>2, <2>4, <3>1, <3>2 DEF Smaller
  <2>10. QED
    BY <2>2, <2>8, <2>9 DEF c, r
<1>5. QED
  BY <1>3, <1>4

(* Loading puts what was read into the ring in the order of the chunks.    *)
LEMMA LoadFills ==
  ASSUME RingTypeOK, replayLoad
  PROVE  /\ RingTypeOK' /\ count' = Loaded /\ UNCHANGED <<top, gone, chunk, meta>>
         /\ \A n \in 0..Loaded - 1 :
              At(n)' = chunk[n \div RP_CHUNK_RECS][(n % RP_CHUNK_RECS) + 1]
<1> DEFINE rec(n) == chunk[n \div RP_CHUNK_RECS][(n % RP_CHUNK_RECS) + 1]
<1>1. /\ meta \in 0..RP_MAX /\ RP_MAX \in Nat \ {0} /\ MaxRecords \in Nat
      /\ chunk \in [Chunks -> Seq(0..MaxRecords)]
  BY Sizes DEF RingTypeOK
<1>2. Loaded \in 0..RP_MAX
  BY <1>1, LoadedFrom
<1>3. \A n \in 0..Loaded - 1 : rec(n) \in 0..MaxRecords
  <2>1. TAKE n \in 0..Loaded - 1
  <2>2. n \div RP_CHUNK_RECS \in Chunks
    BY LoadedFrom DEF Loadable
  <2>3. chunk[n \div RP_CHUNK_RECS] \in Seq(0..MaxRecords)
    BY <1>1, <2>2
  <2>4. (n % RP_CHUNK_RECS) + 1 \in 1..Len(chunk[n \div RP_CHUNK_RECS])
    BY LoadedFrom
  <2>5. QED
    BY <2>3, <2>4, ElementOfSeq
<1>4. /\ slot' = [i \in Slots |-> IF i < Loaded THEN rec(i) ELSE 0]
      /\ count' = Loaded /\ head' = Loaded % RP_MAX /\ UNCHANGED <<top, gone, chunk, meta>>
  BY DEF replayLoad, copy, ringGhosts
<1> HIDE DEF rec
<1>5. slot' \in [Slots -> 0..MaxRecords]
  <2>1. \A i \in Slots : (IF i < Loaded THEN rec(i) ELSE 0) \in 0..MaxRecords
    BY <1>1, <1>2, <1>3 DEF Slots
  <2>2. QED
    BY <1>4, <2>1
<1>6. head' = (IF Loaded < RP_MAX THEN Loaded ELSE 0) /\ head' \in Slots
  <2>1. Loaded \in 0..2 * RP_MAX - 1
    BY <1>1, <1>2
  <2>2. head' = IF Loaded < RP_MAX THEN Loaded ELSE Loaded - RP_MAX
    BY <1>4, <2>1, RingWraps
  <2>3. QED
    BY <1>1, <1>2, <2>2 DEF Slots
<1>7. RingTypeOK'
  BY <1>2, <1>4, <1>5, <1>6 DEF RingTypeOK, Slots, Chunks
<1>8. ASSUME NEW n \in 0..Loaded - 1 PROVE At(n)' = rec(n)
  <2>1. At(n)' = slot'[Place(head', count', n)]
    BY <1>4, <1>7, AtPlaceNext
  <2>2. Place(head', count', n) = n /\ n \in Slots /\ n < Loaded
    BY <1>1, <1>2, <1>4, <1>6 DEF Place, Slots
  <2>3. QED
    BY <1>4, <2>1, <2>2
<1>9. QED
  BY <1>4, <1>7, <1>8 DEF rec

(* Forgetting the ring and handling the saved copy keep the types.         *)
LEMMA CopyKeepsTypes ==
  ASSUME RingTypeOK
  PROVE  /\ UNCHANGED ringVars => RingTypeOK'
         /\ ForgetRing => RingTypeOK' /\ count' = 0
         /\ \A c \in Chunks : RemoveChunk(c) => RingTypeOK'
         /\ SaveMeta => RingTypeOK'
         /\ RemoveMeta => RingTypeOK'
<1> USE Sizes DEF RingTypeOK, Slots, Chunks, ring, copy, ringGhosts
<1>1. UNCHANGED ringVars => RingTypeOK'
  BY DEF ringVars
<1>2. ForgetRing => RingTypeOK' /\ count' = 0
  BY DEF ForgetRing
<1>3. ASSUME NEW c \in Chunks, RemoveChunk(c) PROVE RingTypeOK'
  <2>1. chunk' \in [Chunks -> Seq(0..MaxRecords)]
    BY <1>3 DEF RemoveChunk
  <2>2. \A d \in Chunks : Len(chunk'[d]) <= RP_CHUNK_RECS
    BY <1>3 DEF RemoveChunk
  <2>3. QED
    BY <1>3, <2>1, <2>2 DEF RemoveChunk
<1>4. SaveMeta => RingTypeOK'
  BY DEF SaveMeta
<1>5. RemoveMeta => RingTypeOK'
  BY DEF RemoveMeta
<1>6. QED
  BY <1>1, <1>2, <1>3, <1>4, <1>5

(* So does saving a chunk that the ring reaches.                           *)
LEMMA SaveKeepsTypes ==
  ASSUME RingTypeOK, NEW c \in Chunks, c * RP_CHUNK_RECS < count, SaveChunk(c)
  PROVE  RingTypeOK'
<1>1. c \in Nat /\ RP_CHUNK_RECS \in Nat /\ count \in Nat /\ c * RP_CHUNK_RECS \in Nat
  BY Sizes, TimesMono DEF Chunks, RingTypeOK
<1>2. ChunkOf(c) \in Seq(0..MaxRecords) /\ Len(ChunkOf(c)) <= RP_CHUNK_RECS
  BY <1>1, ChunkOfFacts DEF Smaller
<1>3. /\ chunk' \in [Chunks -> Seq(0..MaxRecords)]
      /\ \A d \in Chunks : Len(chunk'[d]) <= RP_CHUNK_RECS
  BY <1>2 DEF SaveChunk, RingTypeOK
<1>4. QED
  BY <1>3 DEF SaveChunk, RingTypeOK, ring, ringGhosts, Slots, Chunks

(* The ring starts empty, with nothing saved.                              *)
LEMMA RingStarts == RingInit => RingTypeOK
  BY Sizes DEF RingInit, RingTypeOK, Slots
-----------------------------------------------------------------------------
(* What the records of the ring and of its saved copy have in common: each *)
(* is there once, and none has left for good.                              *)
Alive == (1..top) \ gone

RingOK ==
  /\ gone \subseteq 1..top
  /\ \A n \in 0..count - 1 : At(n) \in Alive
  /\ \A m, n \in 0..count - 1 : At(m) = At(n) => m = n

CopyOK ==
  /\ \A c \in Loadable : \A i \in 1..Len(chunk[c]) : chunk[c][i] \in Alive
  /\ \A c, d \in Loadable : \A i \in 1..Len(chunk[c]), j \in 1..Len(chunk[d]) :
       chunk[c][i] = chunk[d][j] => c = d /\ i = j

\* No record of the saved chunk is in the ring.
Apart(c) == \A i \in 1..Len(chunk[c]), n \in 0..count - 1 : chunk[c][i] # At(n)

(* A step that leaves the ring, or its copy, or both alone.                *)
LEMMA RingSame ==
  /\ UNCHANGED <<slot, head, count>> =>
       /\ \A n \in Int : At(n)' = At(n)
       /\ Content' = Content
       /\ \A c \in Int : ChunkOf(c)' = ChunkOf(c)
  /\ UNCHANGED <<slot, head, count, top, gone>> => RingOK' = RingOK
  /\ UNCHANGED <<chunk, meta, top, gone>> => CopyOK' = CopyOK
  /\ UNCHANGED meta => Loadable' = Loadable
<1>1. ASSUME UNCHANGED <<slot, head, count>>
      PROVE  /\ \A n \in Int : At(n)' = At(n)
             /\ Content' = Content
             /\ \A c \in Int : ChunkOf(c)' = ChunkOf(c)
  BY <1>1 DEF At, rpOldestIdx, Content, ChunkOf, Part
<1>2. UNCHANGED <<slot, head, count, top, gone>> => RingOK' = RingOK
  BY DEF RingOK, Alive, At, rpOldestIdx
<1>3. UNCHANGED meta => Loadable' = Loadable
  BY DEF Loadable, Chunks
<1>4. UNCHANGED <<chunk, meta, top, gone>> => CopyOK' = CopyOK
  BY <1>3 DEF CopyOK, Alive
<1>5. QED
  BY <1>1, <1>2, <1>3, <1>4

(* A chunk that is written holds its part of the ring.                     *)
LEMMA WrittenRecords ==
  ASSUME RingTypeOK, RingOK, NEW c \in Chunks, c * RP_CHUNK_RECS < count
  PROVE  /\ \A i \in 1..Len(ChunkOf(c)) :
              /\ ChunkOf(c)[i] \in Alive
              /\ \E n \in 0..count - 1 : ChunkOf(c)[i] = At(n)
         /\ \A d \in Chunks : d * RP_CHUNK_RECS < count =>
              \A i \in 1..Len(ChunkOf(c)), j \in 1..Len(ChunkOf(d)) :
                ChunkOf(c)[i] = ChunkOf(d)[j] => c = d /\ i = j
<1>1. /\ RP_CHUNK_RECS \in Nat \ {0} /\ count \in Nat /\ Chunks \subseteq Nat
      /\ \A d \in Chunks : d * RP_CHUNK_RECS \in Nat
  BY Sizes, TimesMono DEF RingTypeOK, Chunks
<1>2. \A d \in Chunks : d * RP_CHUNK_RECS < count =>
        /\ Len(ChunkOf(d)) \in 0..RP_CHUNK_RECS
        /\ \A i \in 1..Len(ChunkOf(d)) :
             /\ d * RP_CHUNK_RECS + i - 1 \in 0..count - 1
             /\ ChunkOf(d)[i] = At(d * RP_CHUNK_RECS + i - 1)
  <2>1. TAKE d \in Chunks
  <2>2. HAVE d * RP_CHUNK_RECS < count
  <2>3. Len(ChunkOf(d)) = Smaller(RP_CHUNK_RECS, count - d * RP_CHUNK_RECS)
    BY <1>1, <2>2, ChunkOfFacts
  <2>4. Len(ChunkOf(d)) \in 0..RP_CHUNK_RECS
    BY <1>1, <2>2, <2>3 DEF Smaller
  <2>5. QED
    BY <1>1, <2>2, <2>4, ChunkOfFacts
<1>3. ASSUME NEW d \in Chunks, d * RP_CHUNK_RECS < count,
             NEW i \in 1..Len(ChunkOf(c)), NEW j \in 1..Len(ChunkOf(d)),
             ChunkOf(c)[i] = ChunkOf(d)[j]
      PROVE  c = d /\ i = j
  <2>1. c * RP_CHUNK_RECS + i - 1 = d * RP_CHUNK_RECS + j - 1
    BY <1>2, <1>3 DEF RingOK
  <2>2. i \in 1..RP_CHUNK_RECS /\ j \in 1..RP_CHUNK_RECS
    BY <1>1, <1>2, <1>3
  <2>3. i - 1 \in 0..RP_CHUNK_RECS - 1 /\ j - 1 \in 0..RP_CHUNK_RECS - 1
    BY <1>1, <2>2
  <2>4. c * RP_CHUNK_RECS + (i - 1) = d * RP_CHUNK_RECS + (j - 1)
    BY <1>1, <2>1, <2>2
  <2>5. c = d /\ i - 1 = j - 1
    BY <1>1, <2>3, <2>4, SplitUnique
  <2>6. QED
    BY <2>2, <2>5
<1>4. QED
  BY <1>2, <1>3 DEF RingOK

(* Capturing keeps the copy alive as long as the two have nothing in       *)
(* common, and keeps them apart.                                           *)
LEMMA CaptureKeeps ==
  ASSUME RingTypeOK, RingOK, CopyOK, \A c \in Loadable : Apart(c), Capture
  PROVE  RingOK' /\ CopyOK' /\ \A c \in Loadable' : Apart(c)'
<1>1. /\ count \in 0..RP_MAX /\ RP_MAX \in Nat \ {0} /\ top \in Nat /\ top' = top + 1
      /\ UNCHANGED <<chunk, meta>> /\ gone \subseteq 1..top
  BY Sizes, CaptureShifts DEF Capture, copy, RingTypeOK, RingOK
<1>2. count = RP_MAX => At(0) \in Alive
  BY <1>1 DEF RingOK
<1>3. /\ count < RP_MAX => count' = count + 1 /\ gone' = gone
      /\ count = RP_MAX => count' = count /\ gone' = gone \cup {At(0)}
  BY CaptureShifts
<1>4. gone' \subseteq 1..top
  <2>1. CASE count < RP_MAX
    BY <1>1, <1>3, <2>1
  <2>2. CASE count = RP_MAX
    <3>1. At(0) \in 1..top
      BY <1>2, <2>2, Zenon DEF Alive
    <3>2. QED
      BY <1>1, <1>3, <2>2, <3>1
  <2>3. QED
    BY <1>1, <2>1, <2>2
<1>5. ASSUME NEW n \in 0..count' - 1
      PROVE  \/ n = count' - 1 /\ At(n)' = top'
             \/ /\ count < RP_MAX /\ n \in 0..count - 1 /\ At(n)' = At(n)
             \/ /\ count = RP_MAX /\ n + 1 \in 0..count - 1 /\ At(n)' = At(n + 1)
  <2>1. n \in Nat /\ n <= RP_MAX - 1 /\ n + 1 <= count'
    BY <1>1, <1>3
  <2>2. CASE count' = n + 1
    BY <1>1, <2>1, <2>2, CaptureShifts
  <2>3. CASE count' # n + 1 /\ count < RP_MAX
    BY <1>1, <1>3, <2>1, <2>3, CaptureShifts
  <2>4. CASE count' # n + 1 /\ count = RP_MAX
    BY <1>1, <1>3, <2>1, <2>4, CaptureShifts
  <2>5. QED
    BY <1>1, <2>2, <2>3, <2>4
<1>6. ASSUME NEW x \in Alive, count = RP_MAX => x # At(0) PROVE x \in Alive' /\ x # top'
  BY <1>1, <1>3, <1>6 DEF Alive
<1>7. top' \in Alive'
  BY <1>1, <1>4 DEF Alive
<1>8. ASSUME NEW n \in 0..count' - 1
      PROVE  At(n)' \in Alive' /\ (At(n)' = top' => n = count' - 1)
  <2>1. CASE n = count' - 1 /\ At(n)' = top'
    BY <1>7, <2>1
  <2>2. CASE count < RP_MAX /\ n \in 0..count - 1 /\ At(n)' = At(n)
    BY <1>1, <1>6, <2>2 DEF RingOK
  <2>3. CASE count = RP_MAX /\ n + 1 \in 0..count - 1 /\ At(n)' = At(n + 1)
    <3>1. At(n + 1) \in Alive /\ At(n + 1) # At(0)
      BY <1>1, <2>3 DEF RingOK
    <3>2. QED
      BY <1>6, <2>3, <3>1
  <2>4. QED
    BY <1>5, <2>1, <2>2, <2>3
<1>9. ASSUME NEW m \in 0..count' - 1, NEW n \in 0..count' - 1, At(m)' = At(n)' PROVE m = n
  <2>1. CASE At(m)' = top'
    BY <1>8, <1>9, <2>1
  <2>2. CASE At(m)' # top' /\ count < RP_MAX
    <3>1. m \in 0..count - 1 /\ n \in 0..count - 1 /\ At(m) = At(n)
      BY <1>1, <1>5, <1>9, <2>2
    <3>2. QED
      BY <3>1 DEF RingOK
  <2>3. CASE At(m)' # top' /\ count = RP_MAX
    <3>1. m + 1 \in 0..count - 1 /\ n + 1 \in 0..count - 1 /\ At(m + 1) = At(n + 1)
      BY <1>1, <1>5, <1>9, <2>3
    <3>2. m + 1 = n + 1
      BY <3>1 DEF RingOK
    <3>3. QED
      BY <3>2
  <2>4. QED
    BY <1>1, <2>1, <2>2, <2>3
<1>10. RingOK'
  <2>1. gone' \subseteq 1..top'
    BY <1>1, <1>4
  <2>2. QED
    BY <1>8, <1>9, <2>1 DEF RingOK
<1>11. Loadable' = Loadable /\ chunk' = chunk
  BY <1>1, RingSame
<1>12. ASSUME NEW c \in Loadable, NEW i \in 1..Len(chunk[c])
       PROVE  chunk[c][i] \in Alive' /\ \A n \in 0..count' - 1 : chunk[c][i] # At(n)'
  <2>1. chunk[c][i] \in Alive /\ \A n \in 0..count - 1 : chunk[c][i] # At(n)
    BY DEF CopyOK, Apart
  <2>2. chunk[c][i] \in Alive' /\ chunk[c][i] # top'
    BY <1>1, <1>6, <2>1
  <2>3. QED
    BY <1>5, <2>1, <2>2
<1>13. CopyOK'
  BY <1>11, <1>12 DEF CopyOK
<1>14. QED
  BY <1>10, <1>11, <1>12, <1>13 DEF Apart

(* So does taking the oldest records off.                                  *)
LEMMA DropKeeps ==
  ASSUME RingTypeOK, RingOK, CopyOK, \A c \in Loadable : Apart(c),
         NEW k \in 1..count, DropOldest(k)
  PROVE  RingOK' /\ CopyOK' /\ \A c \in Loadable' : Apart(c)'
<1>1. /\ count \in Nat /\ count' = count - k /\ UNCHANGED <<top, chunk, meta>>
      /\ gone' = gone \cup {At(i) : i \in 0..k - 1}
      /\ \A n \in 0..count - k - 1 : At(n)' = At(n + k)
  BY Sizes, DropShifts DEF RingTypeOK
<1>2. gone' \subseteq 1..top'
  <2>1. \A i \in 0..k - 1 : At(i) \in 1..top
    BY <1>1 DEF RingOK, Alive
  <2>2. gone \subseteq 1..top
    BY DEF RingOK
  <2>3. QED
    BY <1>1, <2>1, <2>2, Zenon
<1>3. ASSUME NEW n \in 0..count' - 1
      PROVE  n + k \in 0..count - 1 /\ At(n)' = At(n + k) /\ At(n)' \in Alive'
  <2>1. n + k \in 0..count - 1 /\ At(n)' = At(n + k)
    BY <1>1
  <2>2. \A i \in 0..k - 1 : At(n + k) # At(i)
    BY <1>1, <2>1 DEF RingOK
  <2>3. At(n + k) \in Alive
    BY <2>1 DEF RingOK
  <2>4. QED
    BY <1>1, <2>1, <2>2, <2>3 DEF Alive
<1>4. ASSUME NEW m \in 0..count' - 1, NEW n \in 0..count' - 1, At(m)' = At(n)' PROVE m = n
  <2>1. m + k = n + k
    BY <1>3, <1>4 DEF RingOK
  <2>2. QED
    BY <2>1
<1>5. RingOK'
  BY <1>2, <1>3, <1>4 DEF RingOK
<1>6. Loadable' = Loadable /\ chunk' = chunk
  BY <1>1, RingSame
<1>7. ASSUME NEW c \in Loadable, NEW i \in 1..Len(chunk[c])
      PROVE  chunk[c][i] \in Alive' /\ \A n \in 0..count' - 1 : chunk[c][i] # At(n)'
  <2>1. chunk[c][i] \in Alive /\ \A n \in 0..count - 1 : chunk[c][i] # At(n)
    BY DEF CopyOK, Apart
  <2>2. chunk[c][i] \in Alive'
    <3>1. \A n \in 0..k - 1 : chunk[c][i] # At(n)
      BY <1>1, <2>1
    <3>2. QED
      BY <1>1, <2>1, <3>1 DEF Alive
  <2>3. QED
    BY <1>3, <2>1, <2>2
<1>8. CopyOK'
  BY <1>6, <1>7 DEF CopyOK
<1>9. QED
  BY <1>5, <1>6, <1>7, <1>8 DEF Apart
(* Saving a chunk of the ring over an old one, while the old chunks that   *)
(* are still to be written over are apart from the ring.                   *)
LEMMA SaveKeeps ==
  ASSUME RingTypeOK, RingOK, CopyOK, NEW W \in SUBSET Chunks,
         \A d \in W : d * RP_CHUNK_RECS < count /\ chunk[d] = ChunkOf(d),
         \A d \in Loadable \ W : Apart(d),
         NEW c \in Chunks, c * RP_CHUNK_RECS < count, SaveChunk(c)
  PROVE  /\ RingOK' /\ CopyOK' /\ UNCHANGED <<slot, head, count, meta, top, gone>>
         /\ \A d \in W \cup {c} : chunk'[d] = ChunkOf(d)'
         /\ \A d \in Loadable' \ (W \cup {c}) : Apart(d)'
<1>1. /\ UNCHANGED <<slot, head, count, meta, top, gone>>
      /\ chunk' = [chunk EXCEPT ![c] = ChunkOf(c)] /\ DOMAIN chunk = Chunks
  BY DEF SaveChunk, ring, ringGhosts, RingTypeOK
<1>2. /\ chunk'[c] = ChunkOf(c)
      /\ \A d \in Chunks : d # c => chunk'[d] = chunk[d]
  BY <1>1
<1>3. /\ Loadable' = Loadable /\ Loadable \subseteq Chunks /\ Chunks \subseteq Int
      /\ \A d \in Chunks : ChunkOf(d)' = ChunkOf(d)
      /\ \A n \in 0..count - 1 : At(n)' = At(n)
      /\ count \in Nat
  BY <1>1, RingSame, Sizes DEF Loadable, Chunks, RingTypeOK
<1>4. Alive' = Alive
  BY <1>1 DEF Alive
<1>5. \A d \in W \cup {c} : chunk'[d] = ChunkOf(d) /\ d * RP_CHUNK_RECS < count
  BY <1>2
<1>6. ASSUME NEW d \in Loadable, d \notin W \cup {c}
      PROVE  chunk'[d] = chunk[d] /\ Apart(d)
  BY <1>2, <1>3, <1>6
<1>7. ASSUME NEW d \in Loadable, NEW i \in 1..Len(chunk'[d]) PROVE chunk'[d][i] \in Alive
  <2>1. CASE d \in W \cup {c}
    BY <1>5, <1>7, <2>1, WrittenRecords
  <2>2. CASE d \notin W \cup {c}
    BY <1>6, <1>7, <2>2 DEF CopyOK
  <2>3. QED
    BY <2>1, <2>2
<1>8. ASSUME NEW d \in Loadable, NEW e \in Loadable,
             NEW i \in 1..Len(chunk'[d]), NEW j \in 1..Len(chunk'[e]), chunk'[d][i] = chunk'[e][j]
      PROVE  d = e /\ i = j
  <2>1. ASSUME NEW a \in W \cup {c}, NEW b \in Loadable, b \notin W \cup {c},
               NEW x \in 1..Len(chunk'[a]), NEW y \in 1..Len(chunk'[b])
        PROVE  chunk'[a][x] # chunk'[b][y]
    <3>1. PICK n \in 0..count - 1 : chunk'[a][x] = At(n)
      BY <1>5, WrittenRecords
    <3>2. chunk'[b][y] # At(n)
      BY <1>6, <2>1 DEF Apart
    <3>3. QED
      BY <3>1, <3>2
  <2>2. CASE d \in W \cup {c} /\ e \in W \cup {c}
    BY <1>5, <1>8, <2>2, WrittenRecords
  <2>3. CASE d \in W \cup {c} /\ e \notin W \cup {c}
    BY <1>8, <2>1, <2>3
  <2>4. CASE d \notin W \cup {c} /\ e \in W \cup {c}
    BY <1>8, <2>1, <2>4
  <2>5. CASE d \notin W \cup {c} /\ e \notin W \cup {c}
    <3>1. chunk'[d] = chunk[d] /\ chunk'[e] = chunk[e]
      BY <1>6, <2>5
    <3>2. QED
      BY <1>8, <3>1 DEF CopyOK
  <2>6. QED
    BY <2>2, <2>3, <2>4, <2>5
<1>9. CopyOK'
  BY <1>3, <1>4, <1>7, <1>8 DEF CopyOK
<1>10. RingOK'
  BY <1>1, RingSame
<1>11. \A d \in W \cup {c} : chunk'[d] = ChunkOf(d)'
  BY <1>3, <1>5
<1>12. \A d \in Loadable' \ (W \cup {c}) : Apart(d)'
  BY <1>1, <1>3, <1>6 DEF Apart
<1>13. QED
  BY <1>1, <1>9, <1>10, <1>11, <1>12

\* The copy is the sequence s, in the pieces that replayLoad asks for.
CopyIs(s) ==
  /\ Len(s) = meta
  /\ \A c \in Loadable : /\ Len(chunk[c]) = Smaller(RP_CHUNK_RECS, meta - c * RP_CHUNK_RECS)
                         /\ \A i \in 1..Len(chunk[c]) : chunk[c][i] = s[c * RP_CHUNK_RECS + i]

(* The count that ends a save makes the copy the ring.                     *)
LEMMA MetaKeeps ==
  ASSUME RingTypeOK, RingOK, SaveMeta,
         \A c \in Chunks : c * RP_CHUNK_RECS < count => chunk[c] = ChunkOf(c)
  PROVE  /\ RingOK' /\ CopyOK' /\ UNCHANGED <<slot, head, count, chunk, top, gone>>
         /\ \A s : s = Content => CopyIs(s)'
<1>1. UNCHANGED <<slot, head, count, chunk, top, gone>> /\ meta' = count
  BY DEF SaveMeta, ring, ringGhosts
<1>2. /\ Loadable' = {c \in Chunks : c * RP_CHUNK_RECS < count} /\ Alive' = Alive
      /\ \A c \in Loadable' : c \in Chunks /\ c * RP_CHUNK_RECS < count /\ chunk'[c] = ChunkOf(c)
  BY <1>1 DEF Loadable, Chunks, Alive
<1>3. CopyOK'
  <2>1. \A c \in Loadable' : \A i \in 1..Len(chunk'[c]) : chunk'[c][i] \in Alive'
    BY <1>2, WrittenRecords
  <2>2. \A c, d \in Loadable' : \A i \in 1..Len(chunk'[c]), j \in 1..Len(chunk'[d]) :
          chunk'[c][i] = chunk'[d][j] => c = d /\ i = j
    <3>1. TAKE c, d \in Loadable'
    <3>2. /\ c \in Chunks /\ c * RP_CHUNK_RECS < count /\ chunk'[c] = ChunkOf(c)
          /\ d \in Chunks /\ d * RP_CHUNK_RECS < count /\ chunk'[d] = ChunkOf(d)
      BY <1>2
    <3>3. \A i \in 1..Len(ChunkOf(c)), j \in 1..Len(ChunkOf(d)) :
            ChunkOf(c)[i] = ChunkOf(d)[j] => c = d /\ i = j
      BY <3>2, WrittenRecords
    <3>4. QED
      BY <3>2, <3>3
  <2>3. QED
    BY <2>1, <2>2 DEF CopyOK
<1>4. RingOK'
  BY <1>1, RingSame
<1>5. ASSUME NEW s, s = Content PROVE CopyIs(s)'
  <2>1. Len(s) = count /\ \A i \in 1..count : s[i] = At(i - 1)
    BY <1>5, ContentSeq
  <2>2. ASSUME NEW c \in Loadable'
        PROVE  /\ Len(chunk'[c]) = Smaller(RP_CHUNK_RECS, count - c * RP_CHUNK_RECS)
               /\ \A i \in 1..Len(chunk'[c]) : chunk'[c][i] = s[c * RP_CHUNK_RECS + i]
    <3>1. c \in Nat /\ c * RP_CHUNK_RECS < count /\ c * RP_CHUNK_RECS \in Nat /\ count \in Nat
      BY <1>2, Sizes, TimesMono DEF Chunks, RingTypeOK
    <3>2. Len(ChunkOf(c)) = Smaller(RP_CHUNK_RECS, count - c * RP_CHUNK_RECS)
      BY <3>1, ChunkOfFacts
    <3>3. ASSUME NEW i \in 1..Len(ChunkOf(c)) PROVE ChunkOf(c)[i] = s[c * RP_CHUNK_RECS + i]
      <4>1. /\ c * RP_CHUNK_RECS + i - 1 \in 0..count - 1
            /\ ChunkOf(c)[i] = At(c * RP_CHUNK_RECS + i - 1)
        BY <3>1, <3>3, ChunkOfFacts
      <4>2. i \in Nat
        BY <3>3
      <4>3. c * RP_CHUNK_RECS + i \in 1..count
        BY <3>1, <4>1, <4>2
      <4>4. s[c * RP_CHUNK_RECS + i] = At((c * RP_CHUNK_RECS + i) - 1)
        BY <2>1, <4>3
      <4>5. (c * RP_CHUNK_RECS + i) - 1 = c * RP_CHUNK_RECS + i - 1
        BY <3>1, <4>2
      <4>6. QED
        BY <4>1, <4>4, <4>5
    <3>4. QED
      BY <1>2, <3>2, <3>3
  <2>3. QED
    BY <1>1, <2>1, <2>2 DEF CopyIs, Smaller
<1>6. QED
  BY <1>1, <1>3, <1>4, <1>5

(* Loading gives back, in their order, only records that had not left.     *)
LEMMA LoadKeeps ==
  ASSUME RingTypeOK, RingOK, CopyOK, replayLoad
  PROVE  RingOK' /\ CopyOK'
<1>1. /\ count' = Loaded /\ UNCHANGED <<top, gone, chunk, meta>>
      /\ \A n \in 0..Loaded - 1 : At(n)' = chunk[n \div RP_CHUNK_RECS][(n % RP_CHUNK_RECS) + 1]
  BY LoadFills
<1>2. Alive' = Alive
  BY <1>1 DEF Alive
<1>3. ASSUME NEW n \in 0..Loaded - 1 PROVE At(n)' \in Alive'
  BY <1>1, <1>2, LoadedFrom DEF CopyOK
<1>4. ASSUME NEW m \in 0..Loaded - 1, NEW n \in 0..Loaded - 1, At(m)' = At(n)' PROVE m = n
  <2>1. (m \div RP_CHUNK_RECS) = (n \div RP_CHUNK_RECS) /\ (m % RP_CHUNK_RECS) + 1 = (n % RP_CHUNK_RECS) + 1
    <3> DEFINE c(i) == i \div RP_CHUNK_RECS
               r(i) == (i % RP_CHUNK_RECS) + 1
    <3>1. \A i \in 0..Loaded - 1 : /\ c(i) \in Loadable /\ r(i) \in 1..Len(chunk[c(i)])
                                  /\ At(i)' = chunk[c(i)][r(i)]
      BY <1>1, LoadedFrom
    <3> HIDE DEF c, r
    <3>2. c(m) = c(n) /\ r(m) = r(n)
      BY <1>4, <3>1 DEF CopyOK
    <3>3. QED
      BY <3>2 DEF c, r
  <2>2. m \in Nat /\ n \in Nat /\ RP_CHUNK_RECS \in Nat \ {0}
    BY Sizes, LoadedFrom DEF RingTypeOK
  <2>3. (m % RP_CHUNK_RECS) = (n % RP_CHUNK_RECS)
    <3>1. (m % RP_CHUNK_RECS) \in Nat /\ (n % RP_CHUNK_RECS) \in Nat
      BY <2>2, Division
    <3>2. QED
      BY <2>1, <3>1
  <2>4. /\ m = (m \div RP_CHUNK_RECS) * RP_CHUNK_RECS + (m % RP_CHUNK_RECS)
        /\ n = (n \div RP_CHUNK_RECS) * RP_CHUNK_RECS + (n % RP_CHUNK_RECS)
    BY LoadedFrom
  <2>5. QED
    BY <2>1, <2>3, <2>4
<1>5. RingOK'
  BY <1>1, <1>3, <1>4 DEF RingOK
<1>6. CopyOK'
  BY <1>1, RingSame
<1>7. QED
  BY <1>5, <1>6

(* What was saved whole is loaded whole.                                   *)
LEMMA LoadWhole ==
  ASSUME RingTypeOK, NEW s \in Seq(0..MaxRecords), CopyIs(s), replayLoad
  PROVE  Content' = s
<1>1. /\ meta \in Nat /\ RP_CHUNK_RECS \in Nat \ {0} /\ RingTypeOK' /\ count' = Loaded
      /\ \A n \in 0..Loaded - 1 : At(n)' = chunk[n \div RP_CHUNK_RECS][(n % RP_CHUNK_RECS) + 1]
      /\ Needed \in Nat /\ Read \in 0..Needed /\ meta <= RP_MAX /\ RP_MAX \in Nat
  <2>1. meta \in Nat /\ RP_CHUNK_RECS \in Nat \ {0} /\ meta <= RP_MAX /\ RP_MAX \in Nat
    BY Sizes DEF RingTypeOK
  <2>2. QED
    BY <2>1, LoadFills, ReadFacts
<1>2. \A c \in Nat : c < Needed => c \in Loadable
  <2>1. TAKE c \in Nat
  <2>2. HAVE c < Needed
  <2>3. c * RP_CHUNK_RECS < meta /\ c * RP_CHUNK_RECS \in Nat
    BY <1>1, <2>2, NeededCovers, TimesMono
  <2>4. c * RP_CHUNK_RECS < RP_MAX
    <3>1. meta \in Nat /\ meta <= RP_MAX /\ RP_MAX \in Nat
      BY <1>1
    <3>2. QED
      BY <2>3, <3>1
  <2>5. c \in Chunks
    BY <2>4, ChunkNumbers
  <2>6. QED
    BY <2>3, <2>5 DEF Loadable
<1>3. Read = Needed
  <2>1. Read < Needed => Sized(Read)
    <3>1. Read \in Nat
      BY <1>1
    <3>2. \A c \in Loadable : Sized(c)
      BY DEF Sized, CopyIs
    <3>3. QED
      BY <1>2, <3>1, <3>2
  <2>2. QED
    BY <1>1, <2>1, ReadFacts
<1>4. meta <= Needed * RP_CHUNK_RECS /\ Needed * RP_CHUNK_RECS \in Nat
  <2>1. ~(Needed < Needed)
    BY <1>1
  <2>2. ~(Needed * RP_CHUNK_RECS < meta)
    BY <1>1, <2>1, NeededCovers
  <2>3. QED
    BY <1>1, <2>2, TimesMono
<1>5. Loaded = meta
  BY <1>1, <1>3, <1>4 DEF Loaded, Smaller
<1>6. ASSUME NEW n \in 0..meta - 1 PROVE At(n)' = s[n + 1]
  <2> DEFINE c == n \div RP_CHUNK_RECS
             r == n % RP_CHUNK_RECS
  <2>1. c \in Loadable /\ r + 1 \in 1..Len(chunk[c]) /\ n = c * RP_CHUNK_RECS + r
    BY <1>5, LoadedFrom
  <2>2. At(n)' = chunk[c][r + 1]
    BY <1>1, <1>5
  <2>3. c \in Nat /\ r \in Nat
    BY <1>1, Division
  <2> HIDE DEF c, r
  <2>4. chunk[c][r + 1] = s[c * RP_CHUNK_RECS + (r + 1)]
    BY <2>1 DEF CopyIs
  <2>5. c * RP_CHUNK_RECS + (r + 1) = n + 1
    <3>1. c * RP_CHUNK_RECS \in Nat
      BY <1>1, <2>3, TimesMono
    <3>2. QED
      BY <2>1, <2>3, <3>1
  <2>6. QED
    BY <2>2, <2>4, <2>5
<1>7. /\ Content' \in Seq(0..MaxRecords) /\ Len(Content') = meta
      /\ \A i \in 1..meta : Content'[i] = s[i]
  <2>1. /\ Content' \in Seq(0..MaxRecords) /\ Len(Content') = count'
        /\ \A i \in 1..count' : Content'[i] = At(i - 1)'
    BY <1>1, ContentNext
  <2>2. \A i \in 1..meta : At(i - 1)' = s[i]
    <3>1. TAKE i \in 1..meta
    <3>2. PICK n \in 0..meta - 1 : i = n + 1
      BY <1>1
    <3>3. i - 1 = n
      BY <1>1, <3>2
    <3>4. QED
      BY <1>6, <3>2, <3>3
  <2>3. QED
    BY <1>1, <1>5, <2>1, <2>2
<1>8. Len(s) = meta
  BY DEF CopyIs
<1>9. QED
  BY <1>7, <1>8, SeqEqual

(* Removing a chunk, or the count, and forgetting the ring.                *)
LEMMA RemovalKeeps ==
  ASSUME RingTypeOK, RingOK, CopyOK
  PROVE  /\ \A c \in Chunks : RemoveChunk(c) =>
              RingOK' /\ CopyOK' /\ UNCHANGED <<slot, head, count, top, gone>>
         /\ RemoveMeta => RingOK' /\ CopyOK' /\ UNCHANGED <<slot, head, count, top, gone>>
                          /\ meta' = 0
         /\ ForgetRing => RingOK' /\ CopyOK' /\ UNCHANGED <<chunk, meta, top, gone>> /\ count' = 0
<1>1. ASSUME NEW c \in Chunks, RemoveChunk(c)
      PROVE  RingOK' /\ CopyOK' /\ UNCHANGED <<slot, head, count, top, gone>>
  <2>1. /\ UNCHANGED <<slot, head, count, meta, top, gone>> /\ DOMAIN chunk = Chunks
        /\ chunk' = [chunk EXCEPT ![c] = <<>>]
    BY <1>1 DEF RemoveChunk, ring, ringGhosts, RingTypeOK
  <2>2. Loadable' = Loadable /\ Loadable \subseteq Chunks /\ Alive' = Alive
    BY <2>1, RingSame DEF Loadable, Alive
  <2>3. ASSUME NEW d \in Loadable, NEW i \in 1..Len(chunk'[d])
        PROVE  chunk'[d] = chunk[d] /\ i \in 1..Len(chunk[d])
    <3>1. d # c
      BY <2>1, <2>2, <2>3
    <3>2. QED
      BY <2>1, <2>2, <2>3, <3>1
  <2>4. CopyOK'
    BY <2>2, <2>3 DEF CopyOK
  <2>5. QED
    BY <2>1, <2>4, RingSame
<1>2. ASSUME RemoveMeta
      PROVE  /\ RingOK' /\ CopyOK' /\ UNCHANGED <<slot, head, count, top, gone>> /\ meta' = 0
  <2>1. UNCHANGED <<slot, head, count, chunk, top, gone>> /\ meta' = 0
    BY <1>2 DEF RemoveMeta, ring, ringGhosts
  <2>2. Loadable' = {}
    <3>1. \A c \in Chunks : ~(c * RP_CHUNK_RECS < 0)
      BY Sizes, TimesMono DEF Chunks
    <3>2. QED
      BY <2>1, <3>1 DEF Loadable, Chunks
  <2>3. CopyOK'
    BY <2>2 DEF CopyOK
  <2>4. QED
    BY <2>1, <2>3, RingSame
<1>3. ASSUME ForgetRing
      PROVE  RingOK' /\ CopyOK' /\ UNCHANGED <<chunk, meta, top, gone>> /\ count' = 0
  <2>1. UNCHANGED <<chunk, meta, top, gone>> /\ count' = 0
    BY <1>3 DEF ForgetRing, copy, ringGhosts
  <2>2. RingOK'
    <3>1. 0..count' - 1 = {}
      BY <2>1
    <3>2. QED
      BY <2>1, <3>1 DEF RingOK
  <2>3. QED
    BY <2>1, <2>2, RingSame
<1>4. QED
  BY <1>1, <1>2, <1>3

(* The ring starts with nothing to tell apart.                             *)
LEMMA RecordsStart == RingInit => RingOK /\ CopyOK
<1>1. RingInit => 0..count - 1 = {} /\ \A c \in Chunks : 1..Len(chunk[c]) = {}
  BY DEF RingInit
<1>2. QED
  BY <1>1 DEF RingInit, RingOK, CopyOK, Loadable
=============================================================================
