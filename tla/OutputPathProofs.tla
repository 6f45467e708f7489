-------------------------- MODULE OutputPathProofs --------------------------
(***************************************************************************)
(* Theorems about ScrollbackRing, for every capacity, anchor interval and  *)
(* length of output; about OutputPath, for every script of words and every *)
(* way to cut it into reads; and about AnchorPrefix, for every state an    *)
(* anchor can keep.                                                        *)
(***************************************************************************)
EXTENDS OutputPath, SequenceTheorems, WellFoundedInduction, NaturalsInduction, TLAPS

\* Every non-empty set of natural numbers has a least element.
LEMMA LeastNatural ==
  ASSUME NEW T, T \subseteq Nat, T # {}
  PROVE  \E x \in T : \A y \in T : x <= y
<1> DEFINE R == {ss \in Nat \X Nat : ss[1] < ss[2]}
<1>1. IsWellFoundedOn(R, Nat)
  BY NatLessThanWellFounded DEF OpToRel
<1> HIDE DEF R
<1>2. PICK x \in T : \A y \in T : ~ (<<y, x>> \in R)
  BY <1>1, WFMin, Zenon
<1>3. \A y \in T : ~ (y < x)
  BY <1>2 DEF R
<1> QED BY <1>3

-----------------------------------------------------------------------------
(* The ring *)

\* The anchor interval is positive and, unless the ring has capacity 0, is no
\* longer than the ring.
LEMMA IntervalBounds ==
  ASSUME cap \in Nat
  PROVE  /\ AnchorInterval \in Nat
         /\ AnchorInterval >= 1
         /\ AnchorInterval <= IF cap > 1 THEN cap ELSE 1
BY RingAssumption DEF AnchorInterval

\* maybe_evict stops at an anchor; from there the window fits or no further
\* anchor exists; and from every earlier anchor it did not fit.
LEMMA EvictToStops ==
  ASSUME NEW marks \in Seq(Nat), Len(marks) >= 1, NEW head \in Nat, cap \in Nat
  PROVE  /\ EvictTo(marks, head) \in 1..Len(marks)
         /\ EvictTo(marks, head) = Len(marks) \/ head - marks[EvictTo(marks, head)] <= cap
         /\ \A j \in 1..(EvictTo(marks, head) - 1) : head - marks[j] > cap
<1> DEFINE S == StopsAt(marks, head)
<1>1. Len(marks) \in Nat
  BY LenProperties
<1>2. S \subseteq Nat /\ S # {}
  <2>1. Len(marks) \in S
    BY <1>1 DEF StopsAt
  <2>2. S \subseteq 1..Len(marks)
    BY DEF StopsAt
  <2>3. QED
    BY <1>1, <2>1, <2>2
<1>3. \E k \in S : \A j \in S : k <= j
  BY <1>2, LeastNatural
<1>4. EvictTo(marks, head) \in S /\ \A j \in S : EvictTo(marks, head) <= j
  BY <1>3 DEF EvictTo
<1>5. \A j \in 1..Len(marks) : marks[j] \in Nat
  BY ElementOfSeq
<1>6. ASSUME NEW j \in 1..(EvictTo(marks, head) - 1) PROVE head - marks[j] > cap
  <2>1. j \in 1..Len(marks) /\ ~ (EvictTo(marks, head) <= j)
    BY <1>1, <1>4 DEF StopsAt
  <2>2. j \notin S
    BY <2>1, <1>4
  <2>3. ~ (head - marks[j] <= cap)
    BY <2>1, <2>2 DEF StopsAt
  <2>4. marks[j] \in Nat
    BY <2>1, <1>5
  <2>5. QED
    BY <2>3, <2>4
<1>7. QED
  BY <1>4, <1>6 DEF StopsAt

\* The slice of the output named by two offsets is a sequence of bytes.
LEMMA OutputProperties ==
  ASSUME NEW lo \in Nat, NEW hi \in Nat, lo <= hi
  PROVE  /\ Output(lo, hi) \in Seq(Nat)
         /\ Len(Output(lo, hi)) = hi - lo
         /\ \A i \in 1..(hi - lo) : Output(lo, hi)[i] = lo + i - 1
<1>1. hi - lo \in Nat
  OBVIOUS
<1>2. \A i \in 1..(hi - lo) : lo + i - 1 \in Nat
  OBVIOUS
<1>3. Output(lo, hi) \in [1..(hi - lo) -> Nat]
  BY <1>2 DEF Output
<1>4. Output(lo, hi) \in Seq(Nat)
  BY <1>1, <1>3, SeqDef
<1>5. QED
  BY <1>1, <1>4, LenProperties DEF Output

\* A slice of a slice is the slice between its offsets.
LEMMA OutputSlice ==
  ASSUME NEW lo \in Nat, NEW mid \in Nat, NEW last \in Nat, NEW hi \in Nat,
         lo <= mid, mid <= last, last <= hi
  PROVE  SubSeq(Output(lo, hi), mid - lo + 1, last - lo) = Output(mid, last)
<1> DEFINE s == Output(lo, hi)
           t == SubSeq(s, mid - lo + 1, last - lo)
<1>1. s \in Seq(Nat) /\ Len(s) = hi - lo /\ \A i \in 1..(hi - lo) : s[i] = lo + i - 1
  BY OutputProperties
<1>2. \A i \in (mid - lo + 1)..(last - lo) : s[i] \in Nat
  BY <1>1
<1>3. mid - lo + 1 \in Int /\ last - lo \in Int
  OBVIOUS
<1> HIDE DEF s
<1>4. /\ t \in Seq(Nat)
      /\ Len(t) = IF mid - lo + 1 <= last - lo THEN (last - lo) - (mid - lo + 1) + 1 ELSE 0
      /\ \A i \in 1..((last - lo) - (mid - lo + 1) + 1) : t[i] = s[(mid - lo + 1) + i - 1]
  BY <1>2, <1>3, SubSeqProperties
<1>5. Len(t) = last - mid
  BY <1>4
<1>6. ASSUME NEW i \in 1..(last - mid) PROVE t[i] = mid + i - 1
  <2>1. i \in 1..((last - lo) - (mid - lo + 1) + 1) /\ (mid - lo + 1) + i - 1 \in 1..(hi - lo)
    OBVIOUS
  <2>2. t[i] = s[(mid - lo + 1) + i - 1]
    BY <2>1, <1>4
  <2>3. s[(mid - lo + 1) + i - 1] = lo + ((mid - lo + 1) + i - 1) - 1
    BY <2>1, <1>1
  <2>4. QED
    BY <2>2, <2>3
<1>7. /\ Output(mid, last) \in Seq(Nat)
      /\ Len(Output(mid, last)) = last - mid
      /\ \A i \in 1..(last - mid) : Output(mid, last)[i] = mid + i - 1
  BY OutputProperties
<1> HIDE DEF t
<1>8. t = Output(mid, last)
  <2>1. \A i \in 1..Len(t) : t[i] = Output(mid, last)[i]
    BY <1>5, <1>6, <1>7
  <2>2. QED
    BY <2>1, <1>4, <1>5, <1>7, SeqEqual
<1>9. QED
  BY <1>8 DEF s, t

\* Dropping the first bytes of a slice leaves the later slice.
LEMMA OutputSuffix ==
  ASSUME NEW lo \in Nat, NEW mid \in Nat, NEW hi \in Nat, lo <= mid, mid <= hi
  PROVE  SubSeq(Output(lo, hi), mid - lo + 1, hi - lo) = Output(mid, hi)
BY OutputSlice

\* Pushing the byte at offset hi extends the slice by it.
LEMMA OutputAppend ==
  ASSUME NEW lo \in Nat, NEW hi \in Nat, lo <= hi
  PROVE  Append(Output(lo, hi), hi) = Output(lo, hi + 1)
<1> DEFINE s == Output(lo, hi)
           t == Output(lo, hi + 1)
<1>1. s \in Seq(Nat) /\ Len(s) = hi - lo /\ \A i \in 1..(hi - lo) : s[i] = lo + i - 1
  BY OutputProperties
<1>2. t \in Seq(Nat) /\ Len(t) = hi + 1 - lo /\ \A i \in 1..(hi + 1 - lo) : t[i] = lo + i - 1
  BY OutputProperties
<1> HIDE DEF s, t
<1>3. /\ Append(s, hi) \in Seq(Nat)
      /\ Len(Append(s, hi)) = hi + 1 - lo
  BY <1>1
<1>4. \A i \in 1..(hi + 1 - lo) : Append(s, hi)[i] = t[i]
  BY <1>1, <1>2
<1>5. Append(s, hi) = t
  BY <1>2, <1>3, <1>4, SeqEqual
<1>6. QED
  BY <1>5 DEF s, t

-----------------------------------------------------------------------------
(* The invariant *)

\* ScrollbackRing::new builds a ring that satisfies the invariant.
LEMMA InitEstablishesRingInv == Init => RingInv
<1> SUFFICES ASSUME Init PROVE RingInv
  OBVIOUS
<1>1. TypeOK
  BY RingAssumption DEF Init, TypeOK
<1>2. bytes = Output(tail_offset, head_seq)
  <2>1. bytes \in Seq(Nat) /\ Len(bytes) = 0
    BY EmptySeq DEF Init
  <2>2. Output(0, 0) \in Seq(Nat) /\ Len(Output(0, 0)) = 0
    BY OutputProperties
  <2>3. QED
    BY <2>1, <2>2, SeqEqual DEF Init
<1>3. /\ Len(anchors) = 1 /\ anchors[1] = 0
  BY DEF Init
<1>4. AnchorInterval >= 1 /\ AnchorInterval \in Nat
  BY <1>1, IntervalBounds DEF TypeOK
<1>5. WindowIsOutput /\ WindowStartsAtSafeAnchor /\ AnchorsOrdered
  BY <1>1, <1>2, <1>3 DEF Init, WindowIsOutput, WindowStartsAtSafeAnchor, AnchorsOrdered
<1>6. SplitsTaken /\ FitsOrOneAnchor
  BY <1>3, <1>4 DEF Init, SplitsTaken, FitsOrOneAnchor, NewestAnchor
<1>7. QED
  BY <1>1, <1>5, <1>6 DEF RingInv

\* The anchors before eviction: still ordered, still starting at the window's
\* first byte, all safe splits, and reaching the new head.
LEMMA AnchorsAfterPush ==
  ASSUME RingInv, NEW safe \in BOOLEAN, NEW marks, marks = AnchorsAfter(safe)
  PROVE  /\ marks \in Seq(Nat)
         /\ Len(marks) >= 1
         /\ marks[1] = tail_offset
         /\ \A j, k \in 1..Len(marks) : j < k => marks[j] < marks[k]
         /\ \A k \in 1..Len(marks) :
              marks[k] \in IF safe THEN safe_splits \cup {head_seq + 1} ELSE safe_splits
         /\ \A k \in 1..Len(marks) : marks[k] <= head_seq + 1
         /\ IF PlacesAnchor(safe)
            THEN Len(marks) = Len(anchors) + 1 /\ marks[Len(marks)] = head_seq + 1
            ELSE marks = anchors
<1>1. /\ anchors \in Seq(Nat) /\ Len(anchors) \in Nat /\ Len(anchors) >= 1
      /\ \A k \in 1..Len(anchors) : anchors[k] \in Nat
      /\ head_seq \in Nat /\ head_seq + 1 \in Nat
  BY ElementOfSeq, LenProperties DEF RingInv, TypeOK, WindowStartsAtSafeAnchor
<1>2. /\ anchors[1] = tail_offset
      /\ \A k \in 1..Len(anchors) : anchors[k] \in safe_splits
      /\ \A j, k \in 1..Len(anchors) : j < k => anchors[j] < anchors[k]
      /\ \A k \in 1..Len(anchors) : anchors[k] <= head_seq
  BY DEF RingInv, WindowStartsAtSafeAnchor, AnchorsOrdered, SplitsTaken
<1>3. CASE PlacesAnchor(safe)
  <2>1. marks = Append(anchors, head_seq + 1) /\ safe
    BY <1>3 DEF AnchorsAfter, PlacesAnchor
  <2>2. /\ marks \in Seq(Nat)
        /\ Len(marks) = Len(anchors) + 1
        /\ \A k \in 1..Len(anchors) : marks[k] = anchors[k]
        /\ marks[Len(anchors) + 1] = head_seq + 1
    <3>1. ASSUME NEW e \in Nat
          PROVE  /\ Append(anchors, e) \in Seq(Nat)
                 /\ Len(Append(anchors, e)) = Len(anchors) + 1
                 /\ \A k \in 1..Len(anchors) : Append(anchors, e)[k] = anchors[k]
                 /\ Append(anchors, e)[Len(anchors) + 1] = e
      BY <1>1, AppendProperties
    <3>2. QED
      BY <2>1, <1>1, <3>1, Zenon
  <2>3. \A k \in 1..Len(marks) : k \in 1..Len(anchors) \/ k = Len(anchors) + 1
    BY <1>1, <2>2
  <2>4. ASSUME NEW j \in 1..Len(marks), NEW k \in 1..Len(marks), j < k
        PROVE  marks[j] < marks[k]
    <3>1. j \in 1..Len(anchors)
      BY <1>1, <2>2, <2>4
    <3>2. CASE k \in 1..Len(anchors)
      BY <1>2, <2>2, <2>4, <3>1, <3>2
    <3>3. CASE k = Len(anchors) + 1
      BY <1>1, <1>2, <2>2, <3>1, <3>3
    <3>4. QED
      BY <2>3, <3>2, <3>3
  <2>5. \A k \in 1..Len(marks) : marks[k] \in safe_splits \cup {head_seq + 1}
    BY <1>2, <2>2, <2>3
  <2>6. ASSUME NEW k \in 1..Len(marks) PROVE marks[k] <= head_seq + 1
    <3>1. CASE k \in 1..Len(anchors)
      <4>1. marks[k] = anchors[k] /\ anchors[k] \in Nat /\ anchors[k] <= head_seq
        BY <1>1, <1>2, <2>2, <3>1
      <4>2. QED
        BY <1>1, <4>1
    <3>2. CASE k = Len(anchors) + 1
      BY <1>1, <2>2, <3>2
    <3>3. QED
      BY <2>3, <3>1, <3>2
  <2>7. marks[1] = tail_offset
    BY <1>1, <1>2, <2>2
  <2>8. Len(marks) >= 1 /\ Len(marks) = Len(anchors) + 1 /\ marks[Len(marks)] = head_seq + 1
    BY <1>1, <2>2
  <2>9. \A j, k \in 1..Len(marks) : j < k => marks[j] < marks[k]
    BY <2>4
  <2>10. QED
    BY <1>3, <2>1, <2>2, <2>5, <2>6, <2>7, <2>8, <2>9, Zenon
<1>4. CASE ~ PlacesAnchor(safe)
  <2>1. marks = anchors
    BY <1>4 DEF AnchorsAfter
  <2>2. \A k \in 1..Len(marks) : marks[k] <= head_seq + 1
    BY <1>1, <1>2, <2>1
  <2>3. \A k \in 1..Len(marks) :
          marks[k] \in IF safe THEN safe_splits \cup {head_seq + 1} ELSE safe_splits
    BY <1>2, <2>1
  <2>4. QED
    BY <1>1, <1>2, <1>4, <2>1, <2>2, <2>3, Zenon
<1>5. QED
  BY <1>3, <1>4

\* Every iteration of push's loop preserves the invariant.
LEMMA PushPreservesRingInv ==
  ASSUME RingInv, NEW safe \in BOOLEAN, PushByte(safe)
  PROVE  RingInv'
<1> DEFINE head  == head_seq + 1
           marks == AnchorsAfter(safe)
           k     == EvictTo(marks, head)
           n     == Len(marks)
<1>1. /\ marks \in Seq(Nat) /\ n >= 1 /\ n \in Nat
      /\ marks[1] = tail_offset
      /\ \A i, j \in 1..n : i < j => marks[i] < marks[j]
      /\ \A j \in 1..n : marks[j] \in safe_splits'
      /\ \A j \in 1..n : marks[j] <= head
      /\ \A j \in 1..n : marks[j] \in Nat
      /\ IF PlacesAnchor(safe)
         THEN n = Len(anchors) + 1 /\ marks[n] = head
         ELSE marks = anchors
  BY AnchorsAfterPush, LenProperties, ElementOfSeq DEF PushByte
<1>2. /\ cap \in Nat /\ head_seq \in Nat /\ tail_offset \in Nat /\ tail_offset <= head_seq
      /\ bytes_since_anchor \in Nat
      /\ bytes = Output(tail_offset, head_seq)
      /\ AnchorInterval \in Nat /\ AnchorInterval >= 1
  BY IntervalBounds DEF RingInv, TypeOK, WindowIsOutput
<1>3. /\ head_seq' = head /\ cap' = cap
      /\ bytes_since_anchor' = IF PlacesAnchor(safe) THEN 0 ELSE bytes_since_anchor + 1
      /\ anchors' = SubSeq(marks, k, n)
      /\ tail_offset' = tail_offset + (marks[k] - tail_offset)
      /\ bytes' = SubSeq(Append(bytes, head_seq), marks[k] - tail_offset + 1,
                         Len(Append(bytes, head_seq)))
      /\ safe_splits' = IF safe THEN safe_splits \cup {head} ELSE safe_splits
  BY DEF PushByte
<1> HIDE DEF marks
<1>4. /\ k \in 1..n
      /\ k = n \/ head - marks[k] <= cap
  <2>1. head \in Nat
    BY <1>2
  <2>2. QED
    BY <1>1, <1>2, <2>1, EvictToStops, Zenon
<1> HIDE DEF k, n, head
<1>5. /\ marks[k] \in Nat /\ tail_offset <= marks[k] /\ marks[k] <= head
      /\ tail_offset' = marks[k]
  <2>1. marks[k] \in Nat /\ marks[k] <= head
    BY <1>1, <1>4
  <2>2. CASE k = 1
    BY <1>1, <1>2, <1>3, <2>1, <2>2
  <2>3. CASE 1 < k
    <3>1. 1 \in 1..n /\ marks[1] < marks[k]
      BY <1>1, <1>4, <2>3
    <3>2. QED
      BY <1>1, <1>2, <1>3, <2>1, <3>1
  <2>4. QED
    BY <1>1, <1>4, <2>2, <2>3
<1> head \in Nat
  BY <1>2 DEF head
<1>6. bytes' = Output(marks[k], head)
  <2>1. Append(bytes, head_seq) = Output(tail_offset, head)
    BY <1>2, OutputAppend DEF head
  <2>2. Len(Output(tail_offset, head)) = head - tail_offset
    BY <1>2, OutputProperties DEF head
  <2>3. SubSeq(Output(tail_offset, head), marks[k] - tail_offset + 1, head - tail_offset)
          = Output(marks[k], head)
    <3>1. ASSUME NEW m \in Nat, tail_offset <= m, m <= head
          PROVE  SubSeq(Output(tail_offset, head), m - tail_offset + 1, head - tail_offset)
                   = Output(m, head)
      BY <1>2, <3>1, OutputSuffix
    <3>2. QED
      BY <1>5, <3>1
  <2>4. QED
    BY <1>3, <2>1, <2>2, <2>3
<1>7. /\ anchors' \in Seq(Nat)
      /\ Len(anchors') = n - k + 1
      /\ \A j \in 1..(n - k + 1) : anchors'[j] = marks[k + j - 1]
  <2>1. \A j \in k..n : marks[j] \in Nat
    BY <1>1, <1>4
  <2>2. k \in Int /\ n \in Int /\ k <= n
    BY <1>1, <1>4
  <2>3. QED
    BY <1>3, <2>1, <2>2, SubSeqProperties
<1>8. TypeOK'
  <2>1. bytes' \in Seq(Nat)
    BY <1>2, <1>5, <1>6, OutputProperties
  <2>2. safe_splits' \in SUBSET Nat
    BY <1>2, <1>3 DEF RingInv, TypeOK
  <2>3. bytes_since_anchor' \in Nat /\ cap' \in Nat /\ head_seq' \in Nat /\ tail_offset' \in Nat
    BY <1>2, <1>3, <1>5
  <2>4. QED
    BY <1>7, <2>1, <2>2, <2>3, Zenon DEF TypeOK
<1>9. WindowIsOutput'
  BY <1>3, <1>5, <1>6 DEF WindowIsOutput, Output
<1>10. \A j \in 1..Len(anchors') : anchors'[j] = marks[k + j - 1] /\ k + j - 1 \in 1..n
  BY <1>1, <1>4, <1>7
<1>11. WindowStartsAtSafeAnchor'
  <2>1. anchors'[1] = marks[k]
    BY <1>4, <1>7, <1>1
  <2>2. Len(anchors') >= 1
    BY <1>1, <1>4, <1>7
  <2>3. \A j \in 1..Len(anchors') : anchors'[j] \in safe_splits'
    BY <1>1, <1>10
  <2>4. QED
    BY <1>5, <2>1, <2>2, <2>3, Zenon DEF WindowStartsAtSafeAnchor
<1>12. AnchorsOrdered'
  <2> SUFFICES ASSUME NEW i \in 1..Len(anchors'), NEW j \in 1..Len(anchors'), i < j
               PROVE  anchors'[i] < anchors'[j]
    BY DEF AnchorsOrdered
  <2>1. k + i - 1 < k + j - 1
    BY <1>1, <1>4, <1>7
  <2>2. QED
    BY <1>1, <1>10, <2>1
<1>13. anchors'[Len(anchors')] = marks[n]
  <2>1. Len(anchors') \in 1..Len(anchors') /\ k + Len(anchors') - 1 = n
    BY <1>1, <1>4, <1>7
  <2>2. QED
    BY <1>10, <2>1
<1>14. AnchorInterval' = AnchorInterval
  BY <1>3 DEF AnchorInterval
<1>15. SplitsTaken'
  <2>1. /\ head_seq = anchors[Len(anchors)] + bytes_since_anchor
        /\ \A o \in safe_splits : o <= head_seq /\ o < anchors[Len(anchors)] + AnchorInterval
        /\ safe_splits \in SUBSET Nat
    BY DEF RingInv, TypeOK, SplitsTaken, NewestAnchor
  <2>2. CASE PlacesAnchor(safe)
    <3>1. marks[n] = head
      BY <1>1, <2>2
    <3>2. \A o \in safe_splits' : o <= head /\ o < head + AnchorInterval
      BY <1>2, <1>3, <2>1 DEF head
    <3>3. QED
      BY <1>2, <1>3, <1>13, <1>14, <2>2, <3>1, <3>2 DEF SplitsTaken, NewestAnchor
  <2>3. CASE ~ PlacesAnchor(safe)
    <3>1. marks = anchors /\ marks[n] = anchors[Len(anchors)]
      BY <1>1, <2>3 DEF n
    <3>2. ~ safe \/ bytes_since_anchor + 1 < AnchorInterval
      BY <1>2, <2>3 DEF PlacesAnchor
    <3>3. anchors[Len(anchors)] \in Nat
      BY <1>1, <3>1
    <3>4. \A o \in safe_splits' : o <= head /\ o < marks[n] + AnchorInterval
      BY <1>2, <1>3, <2>1, <3>1, <3>2, <3>3 DEF head
    <3>5. head = marks[n] + (bytes_since_anchor + 1)
      BY <1>2, <2>1, <3>1, <3>3 DEF head
    <3>6. QED
      BY <1>3, <1>13, <1>14, <2>3, <3>4, <3>5 DEF SplitsTaken, NewestAnchor
  <2>4. QED
    BY <2>2, <2>3
<1>16. FitsOrOneAnchor'
  <2>1. Len(bytes') = head - marks[k]
    BY <1>2, <1>5, <1>6, OutputProperties
  <2>2. k = n => Len(anchors') = 1
    BY <1>1, <1>4, <1>7
  <2>3. QED
    BY <1>3, <1>4, <2>1, <2>2 DEF FitsOrOneAnchor
<1>17. QED
  BY <1>8, <1>9, <1>11, <1>12, <1>15, <1>16 DEF RingInv

\* push (ring.rs) keeps the byte window, the offset that names its first byte
\* and the anchors consistent with one another, for every capacity (zero
\* included), every anchor interval and every verdict of the parser.
THEOREM RingConsistent == Spec => []RingInv
<1>1. RingInv /\ [Next]_vars => RingInv'
  <2> SUFFICES ASSUME RingInv, [Next]_vars PROVE RingInv'
    OBVIOUS
  <2>1. CASE Next
    BY <2>1, PushPreservesRingInv DEF Next
  <2>2. CASE UNCHANGED vars
    BY <2>2 DEF vars, RingInv, TypeOK, WindowIsOutput, WindowStartsAtSafeAnchor, AnchorsOrdered,
              SplitsTaken, NewestAnchor, AnchorInterval, FitsOrOneAnchor, Output
  <2>3. QED
    BY <2>1, <2>2
<1>2. QED
  BY <1>1, InitEstablishesRingInv, PTL DEF Spec

\* The ring exceeds its capacity only while the output after the window's
\* first anchor contains no safe split a whole interval away from it:
\* maybe_place_anchor never passes over a split it could have used.
THEOREM CapacityHolds == Spec => []OverCapacityOnlyWithoutSplit
<1>1. RingInv => OverCapacityOnlyWithoutSplit
  <2> SUFFICES ASSUME RingInv, Len(bytes) > cap
               PROVE  \A o \in safe_splits : o < tail_offset + AnchorInterval
    BY DEF OverCapacityOnlyWithoutSplit
  <2>1. Len(bytes) \in Nat /\ cap \in Nat
    BY LenProperties DEF RingInv, TypeOK
  <2>2. Len(anchors) = 1
    BY <2>1 DEF RingInv, FitsOrOneAnchor
  <2>3. anchors[Len(anchors)] = tail_offset
    BY <2>2 DEF RingInv, WindowStartsAtSafeAnchor
  <2>4. QED
    BY <2>3 DEF RingInv, SplitsTaken, NewestAnchor
<1>2. QED
  BY <1>1, RingConsistent, PTL

\* since() (ring.rs) answers exactly for the sequence numbers of the window.
THEOREM SinceExact == Spec => []SinceIsExact
<1>1. RingInv => SinceIsExact
  <2> SUFFICES ASSUME RingInv, NEW seq \in 0..(MaxHead + 1)
               PROVE  Since(seq) = IF seq \in tail_offset..head_seq
                                   THEN [some |-> TRUE, bytes |-> Output(seq, head_seq),
                                         head_seq |-> head_seq]
                                   ELSE NoDelta
    BY DEF SinceIsExact
  <2>1. /\ tail_offset \in Nat /\ head_seq \in Nat /\ tail_offset <= head_seq
        /\ bytes = Output(tail_offset, head_seq) /\ seq \in Nat
    BY RingAssumption DEF RingInv, TypeOK, WindowIsOutput
  <2>2. CASE seq \in tail_offset..head_seq
    <3>1. OffsetToRelative(seq) = seq - tail_offset
      BY <2>1, <2>2 DEF OffsetToRelative
    <3>2. Len(bytes) = head_seq - tail_offset
      BY <2>1, OutputProperties
    <3>3. Skip(OffsetToRelative(seq))
            = SubSeq(Output(tail_offset, head_seq), seq - tail_offset + 1, head_seq - tail_offset)
      BY <2>1, <3>1, <3>2 DEF Skip
    <3>4. SubSeq(Output(tail_offset, head_seq), seq - tail_offset + 1, head_seq - tail_offset)
            = Output(seq, head_seq)
      <4>1. tail_offset <= seq /\ seq <= head_seq
        BY <2>1, <2>2
      <4>2. QED
        BY <2>1, <4>1, OutputSuffix
    <3>5. ~ (seq < tail_offset \/ seq > head_seq)
      BY <2>1, <2>2
    <3>6. QED
      BY <2>2, <3>3, <3>4, <3>5, Zenon DEF Since
  <2>3. CASE seq \notin tail_offset..head_seq
    <3>1. seq < tail_offset \/ seq > head_seq
      BY <2>1, <2>3
    <3>2. QED
      BY <2>3, <3>1, Zenon DEF Since
  <2>4. QED
    BY <2>2, <2>3
<1>2. QED
  BY <1>1, RingConsistent, PTL

\* Output is evicted only by a push that overflows the ring, and only up to
\* the first anchor from which the window fits again (or the last one).
THEOREM EvictionIsMinimal == Spec => EvictsOnlyWhenFull
<1> DEFINE Act == /\ head_seq' > head_seq
                  /\ tail_offset' # tail_offset =>
                       /\ tail_offset' > tail_offset
                       /\ Len(bytes) >= cap
                       /\ \A k \in 2..Len(anchors) :
                            anchors[k] < tail_offset' => head_seq' - anchors[k] > cap
<1>1. RingInv /\ [Next]_vars => [Act]_vars
  <2> SUFFICES ASSUME RingInv, NEW safe \in BOOLEAN, PushByte(safe) PROVE Act
    BY DEF Next
  <2> DEFINE marks == AnchorsAfter(safe)
             head  == head_seq + 1
             k     == EvictTo(marks, head)
  <2>1. /\ head_seq \in Nat /\ tail_offset \in Nat /\ cap \in Nat /\ tail_offset <= head_seq
        /\ bytes = Output(tail_offset, head_seq)
        /\ anchors \in Seq(Nat) /\ Len(anchors) \in Nat
    BY LenProperties DEF RingInv, TypeOK, WindowIsOutput
  <2>2. Len(bytes) = head_seq - tail_offset
    BY <2>1, OutputProperties
  <2>3. /\ marks \in Seq(Nat) /\ Len(marks) >= 1 /\ marks[1] = tail_offset
        /\ \A i, j \in 1..Len(marks) : i < j => marks[i] < marks[j]
        /\ IF PlacesAnchor(safe)
           THEN Len(marks) = Len(anchors) + 1
           ELSE marks = anchors
    BY AnchorsAfterPush
  <2>4. /\ head_seq' = head_seq + 1
        /\ tail_offset' = tail_offset + (marks[k] - tail_offset)
    BY DEF PushByte
  <2>5. \A j \in 1..Len(anchors) : j \in 1..Len(marks) /\ marks[j] = anchors[j]
    <3>1. CASE PlacesAnchor(safe)
      <4>1. ASSUME NEW e \in Nat
            PROVE  \A j \in 1..Len(anchors) : Append(anchors, e)[j] = anchors[j]
        BY <2>1, AppendProperties
      <4>2. marks = Append(anchors, head_seq + 1) /\ head_seq + 1 \in Nat
        BY <2>1, <3>1 DEF AnchorsAfter
      <4>3. \A j \in 1..Len(anchors) : marks[j] = anchors[j]
        BY <4>1, <4>2, Zenon
      <4>4. QED
        BY <2>1, <2>3, <3>1, <4>3
    <3>2. CASE ~ PlacesAnchor(safe)
      BY <2>3, <3>2
    <3>3. QED
      BY <3>1, <3>2
  <2> HIDE DEF marks
  <2>6. /\ k \in 1..Len(marks)
        /\ \A j \in 1..(k - 1) : head - marks[j] > cap
    <3>1. head \in Nat
      BY <2>1
    <3> HIDE DEF head
    <3>2. QED
      BY <2>1, <2>3, <3>1, EvictToStops
  <2> HIDE DEF k
  <2>7. Len(marks) \in Nat /\ \A j \in 1..Len(marks) : marks[j] \in Nat
    BY <2>3, LenProperties, ElementOfSeq
  <2>8. tail_offset' = marks[k]
    BY <2>1, <2>4, <2>6, <2>7
  <2>9. CASE k = 1
    BY <2>1, <2>3, <2>4, <2>8, <2>9
  <2>10. CASE 1 < k
    <3>1. marks[1] < marks[k] /\ 1 \in 1..(k - 1)
      BY <2>3, <2>6, <2>7, <2>10
    <3>2. head_seq + 1 - tail_offset > cap
      BY <2>1, <2>3, <2>6, <2>7, <3>1
    <3>3. tail_offset' > tail_offset /\ Len(bytes) >= cap
      BY <2>1, <2>2, <2>3, <2>8, <3>1, <3>2
    <3>4. ASSUME NEW j \in 2..Len(anchors), anchors[j] < tail_offset'
          PROVE  head_seq' - anchors[j] > cap
      <4>1. j \in 1..Len(marks) /\ marks[j] = anchors[j]
        BY <2>1, <2>5
      <4>2. marks[j] < marks[k]
        BY <2>8, <3>4, <4>1
      <4>3. j < k
        BY <2>3, <2>6, <2>7, <4>1, <4>2
      <4>4. j \in 1..(k - 1)
        BY <2>6, <2>7, <4>3
      <4>5. head_seq + 1 - marks[j] > cap
        BY <2>1, <2>6, <2>7, <4>1, <4>4
      <4>6. QED
        BY <2>1, <2>4, <2>7, <4>1, <4>5
    <3>5. QED
      BY <2>1, <2>4, <3>3, <3>4
  <2>11. QED
    BY <2>6, <2>9, <2>10
<1>2. QED
  BY <1>1, RingConsistent, PTL DEF Spec, EvictsOnlyWhenFull

-----------------------------------------------------------------------------
(* Bounded snapshots and history pages *)

\* A set of indices has a greatest one.
LEMMA GreatestIndex ==
  ASSUME NEW n \in Nat, NEW T, T \subseteq 1..n, T # {}
  PROVE  \E x \in T : \A y \in T : y <= x
<1> DEFINE D == {n - k : k \in T}
<1>1. D \subseteq Nat /\ D # {}
  <2>1. \A k \in T : n - k \in Nat
    <3>1. \A k \in 1..n : n - k \in Nat
      OBVIOUS
    <3>2. QED
      BY <3>1, Zenon
  <2>2. D \subseteq Nat
    BY <2>1, Zenon
  <2>3. D # {}
    BY Zenon
  <2>4. QED
    BY <2>2, <2>3, Zenon
<1>2. PICK d \in D : \A e \in D : d <= e
  BY <1>1, LeastNatural
<1>3. PICK x \in T : d = n - x
  BY <1>2, Zenon
<1>4. \A y \in T : n - x <= n - y
  BY <1>2, <1>3
<1> HIDE DEF D
<1>5. \A y \in T : y \in Nat
  OBVIOUS
<1>6. x \in Nat
  BY <1>3, <1>5
<1>7. \A y \in T : y <= x
  BY <1>4, <1>5, <1>6
<1>8. QED
  BY <1>7

\* What the window holds from an offset inside it on.
LEMMA WindowFrom ==
  ASSUME RingInv, NEW offset \in Nat, tail_offset <= offset, offset <= head_seq
  PROVE  Skip(OffsetToRelative(offset)) = Output(offset, head_seq)
<1>1. /\ tail_offset \in Nat /\ head_seq \in Nat /\ tail_offset <= head_seq
      /\ bytes = Output(tail_offset, head_seq)
  BY DEF RingInv, TypeOK, WindowIsOutput
<1>2. OffsetToRelative(offset) = offset - tail_offset
  BY <1>1 DEF OffsetToRelative
<1>3. Len(bytes) = head_seq - tail_offset
  BY <1>1, OutputProperties
<1>4. Skip(OffsetToRelative(offset))
        = SubSeq(Output(tail_offset, head_seq), offset - tail_offset + 1, head_seq - tail_offset)
  BY <1>1, <1>2, <1>3 DEF Skip
<1>5. QED
  BY <1>1, <1>4, OutputSuffix

\* What the window holds between two offsets inside it.
LEMMA WindowSlice ==
  ASSUME RingInv, NEW from \in Nat, NEW upto \in Nat,
         tail_offset <= from, from <= upto, upto <= head_seq
  PROVE  SubSeq(bytes, from - tail_offset + 1, upto - tail_offset) = Output(from, upto)
<1>1. tail_offset \in Nat /\ head_seq \in Nat
  BY DEF RingInv, TypeOK
<1>2. bytes = Output(tail_offset, head_seq)
  BY DEF RingInv, WindowIsOutput
<1> DEFINE tail == tail_offset
           head == head_seq
<1>3. tail \in Nat /\ head \in Nat /\ tail <= from /\ upto <= head
  BY <1>1
<1>4. SubSeq(Output(tail, head), from - tail + 1, upto - tail) = Output(from, upto)
  <2> HIDE DEF tail, head
  <2> QED
    BY <1>3, OutputSlice
<1>5. QED
  BY <1>2, <1>4, Zenon

\* snapshot_with_max_bytes never sends more than it may, and what it sends can
\* be replayed from the state it comes with.
THEOREM SnapshotsReplay == Spec => []BoundedSnapshotReplays
<1>1. RingInv => BoundedSnapshotReplays
  <2> SUFFICES ASSUME RingInv, NEW max \in 0..MaxHead
               PROVE  LET s == SnapshotWithMaxBytes(max)
                      IN  /\ Len(s.bytes) <= max
                          /\ s.bytes = Output(s.anchor_state, head_seq)
                          /\ s.anchor_state \in safe_splits \cup {head_seq}
    BY DEF BoundedSnapshotReplays
  <2> DEFINE fit == {k \in DOMAIN anchors : head_seq - anchors[k] <= max}
             best == CHOOSE k \in fit : \A j \in fit : j <= k
             a == anchors[best]
  <2>1. /\ head_seq \in Nat /\ tail_offset \in Nat /\ max \in Nat
        /\ anchors \in Seq(Nat) /\ Len(anchors) \in Nat
        /\ DOMAIN anchors = 1..Len(anchors)
        /\ Len(anchors) >= 1 /\ anchors[1] = tail_offset
    BY RingAssumption, LenProperties DEF RingInv, TypeOK, WindowStartsAtSafeAnchor
  <2>2. CASE fit = {}
    <3>1. SnapshotWithMaxBytes(max)
            = [anchor_state |-> head_seq, bytes |-> <<>>, head_seq |-> head_seq]
      BY <2>2 DEF SnapshotWithMaxBytes
    <3>2. Output(head_seq, head_seq) = <<>>
      BY <2>1, OutputProperties
    <3>3. QED
      BY <2>1, <3>1, <3>2
  <2>3. CASE fit # {}
    <3>1. fit \subseteq 1..Len(anchors)
      BY <2>1
    <3>2. best \in fit
      BY <2>1, <2>3, <3>1, GreatestIndex
    <3> HIDE DEF best
    <3>3. best \in 1..Len(anchors) /\ head_seq - a <= max
      BY <3>1, <3>2
    <3>4. a \in Nat /\ a \in safe_splits /\ a <= head_seq
      BY <2>1, <3>3, ElementOfSeq DEF RingInv, WindowStartsAtSafeAnchor, SplitsTaken
    <3>5. tail_offset <= a
      <4>1. CASE best = 1
        BY <2>1, <4>1
      <4>2. CASE best # 1
        BY <2>1, <3>3, <3>4, <4>2 DEF RingInv, AnchorsOrdered
      <4>3. QED
        BY <4>1, <4>2
    <3>6. SnapshotWithMaxBytes(max) = SnapshotFromAnchor(a)
      BY <2>3, Zenon DEF SnapshotWithMaxBytes, best
    <3> HIDE DEF a
    <3>7. SnapshotFromAnchor(a)
            = [anchor_state |-> a, bytes |-> Output(a, head_seq), head_seq |-> head_seq]
      BY <3>4, <3>5, WindowFrom DEF SnapshotFromAnchor
    <3>8. Len(Output(a, head_seq)) = head_seq - a
      BY <2>1, <3>4, OutputProperties
    <3>9. head_seq - a <= max
      BY <3>3 DEF a
    <3>10. QED
      BY <3>4, <3>6, <3>7, <3>8, <3>9
  <2>4. QED
    BY <2>2, <2>3
<1>2. QED
  BY <1>1, RingConsistent, PTL

\* Paging back through history_page, from any position and with any page size,
\* loses and repeats no retained byte.
THEOREM HistoryTiles == Spec => []HistoryPagesTile
<1>1. RingInv => HistoryPagesTile
  <2> SUFFICES ASSUME RingInv, NEW before \in 0..(MaxHead + 1), NEW max \in 1..(MaxHead + 1)
               PROVE  LET p == HistoryPage(before, max)
                      IN  /\ before \in tail_offset..head_seq => p.end_seq = before
                          /\ p.start_seq <= p.end_seq
                          /\ p.bytes = Output(p.start_seq, p.end_seq)
                          /\ Len(p.bytes) <= max
                          /\ p.has_more <=> tail_offset < p.start_seq
                          /\ p.has_more => Len(p.bytes) = max
    BY DEF HistoryPagesTile
  <2> DEFINE end   == IF before < tail_offset THEN tail_offset
                      ELSE IF before > head_seq THEN head_seq ELSE before
             avail == end - tail_offset
             len   == IF avail < max THEN avail ELSE max
             start == end - len
             rel   == OffsetToRelative(start)
             page  == SubSeq(bytes, rel + 1, rel + len)
  <2>1. /\ tail_offset \in Nat /\ head_seq \in Nat /\ tail_offset <= head_seq
        /\ bytes = Output(tail_offset, head_seq) /\ before \in Nat /\ max \in Nat
    BY RingAssumption DEF RingInv, TypeOK, WindowIsOutput
  <2>2. HistoryPage(before, max)
          = [start_seq |-> start, end_seq |-> end, bytes |-> page, has_more |-> start > tail_offset]
    BY DEF HistoryPage
  <2>3. end \in Nat /\ tail_offset <= end /\ end <= head_seq
    BY <2>1
  <2>4. before \in tail_offset..head_seq => end = before
    BY <2>1
  <2> HIDE DEF end
  <2>5. /\ len \in Nat /\ len <= max /\ start \in Nat /\ tail_offset <= start /\ start <= end
        /\ start > tail_offset => len = max
    BY <2>1, <2>3
  <2> HIDE DEF len
  <2>6. len = end - start
    BY <2>3, <2>5
  <2>7. rel = start - tail_offset
    BY <2>1, <2>3, <2>5 DEF OffsetToRelative
  <2> HIDE DEF start, rel
  <2>8. rel + 1 = start - tail_offset + 1 /\ rel + len = end - tail_offset
    BY <2>1, <2>3, <2>5, <2>6, <2>7
  <2>9. page = Output(start, end)
    <3>1. SubSeq(bytes, start - tail_offset + 1, end - tail_offset) = Output(start, end)
      BY <2>3, <2>5, WindowSlice
    <3>2. page = SubSeq(bytes, start - tail_offset + 1, end - tail_offset)
      BY <2>8, Zenon
    <3>3. QED
      BY <3>1, <3>2, Zenon
  <2>10. Len(page) = len
    <3>1. Len(Output(start, end)) = end - start
      BY <2>3, <2>5, OutputProperties
    <3>2. Len(page) = end - start
      BY <2>9, <3>1, Zenon
    <3>3. QED
      BY <2>6, <3>2
  <2> HIDE DEF page
  <2> DEFINE p == HistoryPage(before, max)
  <2>11. /\ p.start_seq = start /\ p.end_seq = end /\ p.bytes = page
         /\ p.has_more = (start > tail_offset)
    BY <2>2
  <2> HIDE DEF p
  <2>12. p.bytes = Output(p.start_seq, p.end_seq)
    BY <2>9, <2>11, Zenon
  <2>13. p.start_seq <= p.end_seq /\ (before \in tail_offset..head_seq => p.end_seq = before)
    BY <2>4, <2>5, <2>11
  <2>14. Len(p.bytes) = len
    BY <2>10, <2>11, Zenon
  <2>15. Len(p.bytes) <= max
    BY <2>5, <2>14
  <2>16. p.has_more <=> tail_offset < p.start_seq
    BY <2>1, <2>5, <2>11
  <2>17. p.has_more => Len(p.bytes) = max
    BY <2>5, <2>11, <2>14
  <2>18. QED
    BY <2>12, <2>13, <2>15, <2>16, <2>17, Zenon DEF p
<1>2. QED
  BY <1>1, RingConsistent, PTL

-----------------------------------------------------------------------------
(* What the processor decides from the bytes it has *)

LEMMA PrefixMeans ==
  ASSUME NEW A, NEW B, NEW s \in Seq(A), NEW t \in Seq(B)
  PROVE  IsPrefix(s, t) <=> Len(s) <= Len(t) /\ \A i \in 1..Len(s) : s[i] = t[i]
BY DEF IsPrefix

LEMMA QueryBytes ==
  /\ CursorPositionQuery \in Seq({"esc", "[", "6", "n"})
  /\ Len(CursorPositionQuery) = 4
  /\ CursorPositionQuery[1] = "esc"
  /\ CursorPositionQuery[2] = "["
  /\ CursorPositionQuery[3] = "6"
  /\ CursorPositionQuery[4] = "n"
BY DEF CursorPositionQuery

LEMMA Win32Bytes ==
  /\ Win32InputModePrefix \in Seq({"esc", "[", "?", "9001"})
  /\ Len(Win32InputModePrefix) = 4
  /\ Win32InputModePrefix[1] = "esc"
  /\ Win32InputModePrefix[2] = "["
  /\ Win32InputModePrefix[3] = "?"
  /\ Win32InputModePrefix[4] = "9001"
BY DEF Win32InputModePrefix

LEMMA FocusBytes ==
  /\ FocusEventModePrefix \in Seq({"esc", "[", "?", "1004"})
  /\ Len(FocusEventModePrefix) = 4
  /\ FocusEventModePrefix[1] = "esc"
  /\ FocusEventModePrefix[2] = "["
  /\ FocusEventModePrefix[3] = "?"
  /\ FocusEventModePrefix[4] = "1004"
BY DEF FocusEventModePrefix

LEMMA OscBytes ==
  /\ OscPrefix \in Seq({"esc", "]"})
  /\ Len(OscPrefix) = 2
  /\ OscPrefix[1] = "esc"
  /\ OscPrefix[2] = "]"
BY DEF OscPrefix

LEMMA Slice ==
  ASSUME NEW B, NEW s \in Seq(B), NEW i \in 1..(Len(s) + 1)
  PROVE  /\ SubSeq(s, i, Len(s)) \in Seq(B)
         /\ Len(SubSeq(s, i, Len(s))) = Len(s) - i + 1
         /\ \A j \in 1..(Len(s) - i + 1) : SubSeq(s, i, Len(s))[j] = s[i + j - 1]
<1>1. \A j \in i..Len(s) : s[j] \in B
  OBVIOUS
<1>2. i \in Int /\ Len(s) \in Int
  OBVIOUS
<1>3. QED
  BY <1>1, <1>2, SubSeqProperties

\* A prefix test that has found a difference, or the whole prefix, is decided.
LEMMA PrefixDecided ==
  ASSUME NEW A, NEW B, NEW p \in Seq(A), NEW s \in Seq(B), NEW y \in Seq(B),
         ~IsPrefix(s, p)
  PROVE  /\ ~IsPrefix(s \o y, p)
         /\ IsPrefix(p, s) => IsPrefix(p, s \o y) /\ Len(s) > Len(p)
         /\ ~IsPrefix(p, s) => ~IsPrefix(p, s \o y)
<1>1. /\ s \o y \in Seq(B)
      /\ Len(s \o y) = Len(s) + Len(y)
      /\ \A i \in 1..Len(s) : (s \o y)[i] = s[i]
  BY ConcatProperties
<1>2. Len(s) \in Nat /\ Len(p) \in Nat /\ Len(y) \in Nat
  OBVIOUS
<1>3. /\ IsPrefix(s, p) <=> Len(s) <= Len(p) /\ \A i \in 1..Len(s) : s[i] = p[i]
      /\ IsPrefix(p, s) <=> Len(p) <= Len(s) /\ \A i \in 1..Len(p) : p[i] = s[i]
  BY PrefixMeans
<1>4. /\ IsPrefix(s \o y, p) <=> Len(s \o y) <= Len(p) /\ \A i \in 1..Len(s \o y) : (s \o y)[i] = p[i]
      /\ IsPrefix(p, s \o y) <=> Len(p) <= Len(s \o y) /\ \A i \in 1..Len(p) : p[i] = (s \o y)[i]
  <2> DEFINE t == s \o y
  <2>1. t \in Seq(B)
    BY <1>1
  <2> HIDE DEF t
  <2>2. /\ IsPrefix(t, p) <=> Len(t) <= Len(p) /\ \A i \in 1..Len(t) : t[i] = p[i]
        /\ IsPrefix(p, t) <=> Len(p) <= Len(t) /\ \A i \in 1..Len(p) : p[i] = t[i]
    BY <2>1, PrefixMeans
  <2>3. QED
    BY <2>2 DEF t
<1>5. ~IsPrefix(s \o y, p)
  BY <1>1, <1>2, <1>3, <1>4
<1>6. ASSUME IsPrefix(p, s) PROVE IsPrefix(p, s \o y) /\ Len(s) > Len(p)
  BY <1>1, <1>2, <1>3, <1>4, <1>6
<1>7. ASSUME ~IsPrefix(p, s) PROVE ~IsPrefix(p, s \o y)
  BY <1>1, <1>2, <1>3, <1>4, <1>7
<1>8. QED
  BY <1>5, <1>6, <1>7

LEMMA PrefixedKinds ==
  ASSUME NEW A, NEW B, NEW prefix \in Seq(A), NEW rest \in Seq(B), rest # <<>>
  PROVE  LET m == split_prefixed_control_sequence(rest, prefix)
         IN  \/ m = Hold
             \/ m = Keep
             \/ m = Drop(Len(prefix) + 1) /\ Len(prefix) + 1 <= Len(rest)
<1>1. Len(rest) \in Nat /\ Len(prefix) \in Nat
  OBVIOUS
<1>2. /\ IsPrefix(rest, prefix) <=> Len(rest) <= Len(prefix) /\ \A i \in 1..Len(rest) : rest[i] = prefix[i]
      /\ IsPrefix(prefix, rest) <=> Len(prefix) <= Len(rest) /\ \A i \in 1..Len(prefix) : prefix[i] = rest[i]
  BY PrefixMeans
<1>3. CASE IsPrefix(rest, prefix)
  BY <1>3 DEF split_prefixed_control_sequence
<1>4. CASE ~IsPrefix(rest, prefix) /\ IsPrefix(prefix, rest)
  <2>1. Len(prefix) + 1 <= Len(rest)
    BY <1>1, <1>2, <1>4
  <2>2. QED
    BY <1>4, <2>1 DEF split_prefixed_control_sequence
<1>5. CASE ~IsPrefix(rest, prefix) /\ ~IsPrefix(prefix, rest)
  BY <1>5 DEF split_prefixed_control_sequence
<1>6. QED
  BY <1>3, <1>4, <1>5

LEMMA PrefixedStable ==
  ASSUME NEW A, NEW B, NEW prefix \in Seq(A), NEW rest \in Seq(B), NEW y \in Seq(B),
         split_prefixed_control_sequence(rest, prefix) # Hold
  PROVE  split_prefixed_control_sequence(rest \o y, prefix)
           = split_prefixed_control_sequence(rest, prefix)
<1>1. ~IsPrefix(rest, prefix)
  BY DEF split_prefixed_control_sequence
<1>2. /\ ~IsPrefix(rest \o y, prefix)
      /\ IsPrefix(prefix, rest) => IsPrefix(prefix, rest \o y) /\ Len(rest) > Len(prefix)
      /\ ~IsPrefix(prefix, rest) => ~IsPrefix(prefix, rest \o y)
  BY <1>1, PrefixDecided
<1>3. CASE IsPrefix(prefix, rest)
  <2>1. Len(prefix) + 1 \in 1..Len(rest)
    BY <1>2, <1>3
  <2>2. (rest \o y)[Len(prefix) + 1] = rest[Len(prefix) + 1]
    BY <2>1, ConcatProperties
  <2>3. QED
    BY <1>1, <1>2, <1>3, <2>2 DEF split_prefixed_control_sequence
<1>4. CASE ~IsPrefix(prefix, rest)
  BY <1>1, <1>2, <1>4 DEF split_prefixed_control_sequence
<1>5. QED
  BY <1>3, <1>4

\* The first terminator of a text, and what follows of it for its position.
FirstTerminator(text) ==
  CHOOSE k \in find_osc_terminator(text) : \A j \in find_osc_terminator(text) : k <= j

LEMMA TerminatorFound ==
  ASSUME NEW B, NEW text \in Seq(B), find_osc_terminator(text) # {}
  PROVE  LET at == FirstTerminator(text)
         IN  /\ at \in 1..Len(text)
             /\ at \in find_osc_terminator(text)
             /\ \A j \in find_osc_terminator(text) : at <= j
             /\ text[at] # "bel" => at < Len(text)
<1> DEFINE ends == find_osc_terminator(text)
<1>1. Len(text) \in Nat /\ DOMAIN text = 1..Len(text)
  OBVIOUS
<1>2. ends \subseteq 1..Len(text)
  BY <1>1 DEF find_osc_terminator
<1>3. ends \subseteq Nat /\ ends # {}
  BY <1>1, <1>2
<1>4. \A k \in ends : text[k] # "bel" => k < Len(text)
  BY DEF find_osc_terminator
<1> HIDE DEF ends
<1>5. \E k \in ends : \A j \in ends : k <= j
  BY <1>3, LeastNatural
<1>6. FirstTerminator(text) \in ends /\ \A j \in ends : FirstTerminator(text) <= j
  BY <1>5 DEF FirstTerminator, ends
<1>7. QED
  BY <1>2, <1>4, <1>6 DEF ends

\* More text after the first terminator does not move it.
LEMMA TerminatorStable ==
  ASSUME NEW B, NEW text \in Seq(B), NEW y \in Seq(B), find_osc_terminator(text) # {}
  PROVE  /\ find_osc_terminator(text \o y) # {}
         /\ FirstTerminator(text \o y) = FirstTerminator(text)
<1> DEFINE more == text \o y
           at == FirstTerminator(text)
           new == FirstTerminator(more)
<1>1. /\ more \in Seq(B)
      /\ Len(more) = Len(text) + Len(y)
      /\ \A i \in 1..Len(text) : more[i] = text[i]
  BY ConcatProperties
<1>2. Len(text) \in Nat /\ Len(y) \in Nat /\ DOMAIN text = 1..Len(text)
  OBVIOUS
<1> HIDE DEF more
<1>3. DOMAIN more = 1..Len(more)
  BY <1>1
<1>4. /\ at \in 1..Len(text)
      /\ at \in find_osc_terminator(text)
      /\ \A j \in find_osc_terminator(text) : at <= j
      /\ text[at] # "bel" => at < Len(text)
  BY TerminatorFound
<1> HIDE DEF at
<1>5. at \in find_osc_terminator(more)
  <2>1. at \in DOMAIN more /\ more[at] = text[at]
    BY <1>1, <1>2, <1>3, <1>4
  <2>2. CASE text[at] = "bel"
    BY <2>1, <2>2 DEF find_osc_terminator
  <2>3. CASE text[at] # "bel"
    <3>1. text[at] = "esc" /\ at < Len(text) /\ text[at + 1] = "\\"
      BY <1>4, <2>3 DEF find_osc_terminator
    <3>2. more[at + 1] = text[at + 1] /\ at < Len(more)
      BY <3>1, <1>1, <1>2, <1>4
    <3>3. QED
      BY <2>1, <3>1, <3>2 DEF find_osc_terminator
  <2>4. QED
    BY <2>2, <2>3
<1>6. /\ new \in 1..Len(more)
      /\ new \in find_osc_terminator(more)
      /\ \A j \in find_osc_terminator(more) : new <= j
      /\ more[new] # "bel" => new < Len(more)
  BY <1>1, <1>5, TerminatorFound
<1> HIDE DEF new
<1>7. new <= at
  BY <1>5, <1>6
<1>8. ASSUME new < at PROVE FALSE
  <2>1. new \in 1..Len(text) /\ new + 1 \in 1..Len(text) /\ new < Len(text)
    BY <1>8, <1>4, <1>6, <1>2
  <2>2. more[new] = text[new] /\ more[new + 1] = text[new + 1]
    BY <2>1, <1>1
  <2>3. new \in find_osc_terminator(text)
    BY <2>1, <2>2, <1>2, <1>6 DEF find_osc_terminator
  <2>4. QED
    BY <2>3, <1>4, <1>6, <1>8
<1>9. new = at
  BY <1>1, <1>2, <1>7, <1>8, <1>4, <1>6
<1>10. QED
  BY <1>5, <1>9 DEF more, at, new

\* The tests of split_osc_title_sequence, with the position of the terminator
\* named.
LEMMA TitleTests ==
  ASSUME NEW B, NEW rest \in Seq(B)
  PROVE  LET text == SubSeq(rest, 5, Len(rest))
             at   == FirstTerminator(text)
         IN  split_osc_title_sequence(rest) =
               IF IsPrefix(rest, OscPrefix) THEN Hold
               ELSE IF ~IsPrefix(OscPrefix, rest) \/ rest[3] \notin {"0", "2"} THEN Keep
               ELSE IF Len(rest) = 3 THEN Hold
               ELSE IF rest[4] # "semi" THEN Keep
               ELSE IF find_osc_terminator(text) = {} THEN Hold
               ELSE [kind  |-> "title",
                     len   |-> 4 + at + (IF text[at] = "bel" THEN 0 ELSE 1),
                     title |-> SubSeq(text, 1, at - 1)]
<1>1. Len(OscPrefix) + 2 = 4 /\ 4 + 1 = 5
  BY OscBytes
<1>2. QED
  BY <1>1, Zenon DEF split_osc_title_sequence, FirstTerminator

LEMMA OscSeen ==
  ASSUME NEW B, NEW rest \in Seq(B), IsPrefix(OscPrefix, rest), ~IsPrefix(rest, OscPrefix)
  PROVE  Len(rest) >= 3
<1>1. Len(rest) \in Nat
  OBVIOUS
<1>2. Len(OscPrefix) = 2 /\ OscPrefix \in Seq({"esc", "]"})
  BY OscBytes
<1>3. IsPrefix(OscPrefix, rest)
        <=> Len(OscPrefix) <= Len(rest) /\ \A i \in 1..Len(OscPrefix) : OscPrefix[i] = rest[i]
  BY <1>2, PrefixMeans
<1>4. IsPrefix(rest, OscPrefix)
        <=> Len(rest) <= Len(OscPrefix) /\ \A i \in 1..Len(rest) : rest[i] = OscPrefix[i]
  BY <1>2, PrefixMeans
<1>5. QED
  BY <1>1, <1>2, <1>3, <1>4

\* What split_osc_title_sequence takes out lies within the bytes it was given.
LEMMA TitleKinds ==
  ASSUME NEW B, NEW rest \in Seq(B), rest # <<>>
  PROVE  LET m == split_osc_title_sequence(rest)
         IN  \/ m = Hold
             \/ m = Keep
             \/ /\ m = [kind |-> "title", len |-> m.len, title |-> m.title]
                /\ m.len \in 1..Len(rest)
                /\ m.title \in Seq(B)
<1> DEFINE text == SubSeq(rest, 5, Len(rest))
           at == FirstTerminator(text)
           m == split_osc_title_sequence(rest)
           t == [kind  |-> "title",
                 len   |-> 4 + at + (IF text[at] = "bel" THEN 0 ELSE 1),
                 title |-> SubSeq(text, 1, at - 1)]
<1>1. \/ m = Hold
      \/ m = Keep
      \/ /\ IsPrefix(OscPrefix, rest)
         /\ ~IsPrefix(rest, OscPrefix)
         /\ Len(rest) # 3
         /\ find_osc_terminator(text) # {}
         /\ m = t
  BY TitleTests, Zenon
<1>2. ASSUME IsPrefix(OscPrefix, rest), ~IsPrefix(rest, OscPrefix), Len(rest) # 3,
             find_osc_terminator(text) # {}
      PROVE  /\ t = [kind |-> "title", len |-> t.len, title |-> t.title]
             /\ t.len \in 1..Len(rest)
             /\ t.title \in Seq(B)
  <2>1. Len(rest) >= 3 /\ Len(rest) # 3
    BY <1>2, OscSeen
  <2>2. Len(rest) \in Nat /\ 5 \in 1..(Len(rest) + 1)
    <3>1. Len(rest) \in Nat
      OBVIOUS
    <3>2. \A n \in Nat : n >= 3 /\ n # 3 => 5 \in 1..(n + 1)
      OBVIOUS
    <3>3. QED
      BY <2>1, <3>1, <3>2, Zenon
  <2>3. text \in Seq(B) /\ Len(text) = Len(rest) - 5 + 1
    BY <2>2, Slice
  <2> HIDE DEF text
  <2>4. /\ at \in 1..Len(text)
        /\ text[at] # "bel" => at < Len(text)
    BY <2>3, <1>2, TerminatorFound
  <2> HIDE DEF at
  <2>5. SubSeq(text, 1, at - 1) \in Seq(B)
    BY <2>3, <2>4
  <2>6. 4 + at + (IF text[at] = "bel" THEN 0 ELSE 1) \in 1..Len(rest)
    BY <2>2, <2>3, <2>4
  <2>7. QED
    BY <2>5, <2>6
<1> HIDE DEF m, t, text
<1>3. QED
  BY <1>1, <1>2 DEF m

\* The text behind the four bytes of a title's head grows at its end only.
LEMMA TextGrows ==
  ASSUME NEW B, NEW rest \in Seq(B), NEW y \in Seq(B), Len(rest) >= 4
  PROVE  SubSeq(rest \o y, 5, Len(rest \o y)) = SubSeq(rest, 5, Len(rest)) \o y
<1> DEFINE more == rest \o y
           u == SubSeq(more, 5, Len(more))
           t == SubSeq(rest, 5, Len(rest))
<1>1. /\ more \in Seq(B)
      /\ Len(more) = Len(rest) + Len(y)
      /\ \A i \in 1..Len(more) : more[i] = IF i <= Len(rest) THEN rest[i] ELSE y[i - Len(rest)]
  BY ConcatProperties
<1>2. Len(rest) \in Nat /\ Len(y) \in Nat
  OBVIOUS
<1> HIDE DEF more
<1>3. /\ u \in Seq(B)
      /\ Len(u) = Len(more) - 4
      /\ \A j \in 1..(Len(more) - 4) : u[j] = more[4 + j]
  <2>1. 5 \in 1..(Len(more) + 1)
    BY <1>1, <1>2
  <2>2. QED
    BY <2>1, <1>1, Slice
<1>4. /\ t \in Seq(B)
      /\ Len(t) = Len(rest) - 4
      /\ \A j \in 1..(Len(rest) - 4) : t[j] = rest[4 + j]
  <2>1. 5 \in 1..(Len(rest) + 1)
    BY <1>2
  <2>2. /\ t \in Seq(B)
        /\ Len(t) = Len(rest) - 5 + 1
        /\ \A j \in 1..(Len(rest) - 5 + 1) : t[j] = rest[5 + j - 1]
    BY <2>1, Slice
  <2> HIDE DEF t
  <2>3. QED
    BY <2>2, <1>2
<1> HIDE DEF u, t
<1>5. /\ t \o y \in Seq(B)
      /\ Len(t \o y) = Len(t) + Len(y)
      /\ \A i \in 1..(Len(t) + Len(y)) : (t \o y)[i] = IF i <= Len(t) THEN t[i] ELSE y[i - Len(t)]
  BY <1>4, ConcatProperties
<1>6. Len(u) = Len(t \o y)
  BY <1>1, <1>2, <1>3, <1>4, <1>5
<1>7. ASSUME NEW i \in 1..Len(u) PROVE u[i] = (t \o y)[i]
  <2>1. u[i] = more[4 + i] /\ i \in 1..(Len(t) + Len(y)) /\ 4 + i \in 1..Len(more)
    BY <1>1, <1>2, <1>3, <1>4
  <2>2. CASE i <= Len(t)
    BY <2>1, <2>2, <1>1, <1>2, <1>4, <1>5
  <2>3. CASE ~(i <= Len(t))
    <3>1. (t \o y)[i] = y[i - Len(t)] /\ more[4 + i] = y[4 + i - Len(rest)]
      BY <2>1, <2>3, <1>1, <1>2, <1>4, <1>5
    <3>2. i - Len(t) = 4 + i - Len(rest)
      BY <1>2, <1>4
    <3>3. QED
      BY <2>1, <3>1, <3>2
  <2>4. QED
    BY <2>2, <2>3
<1>8. QED
  BY <1>3, <1>5, <1>6, <1>7, SeqEqual DEF u, t, more

LEMMA TitleStable ==
  ASSUME NEW B, NEW rest \in Seq(B), NEW y \in Seq(B), split_osc_title_sequence(rest) # Hold
  PROVE  split_osc_title_sequence(rest \o y) = split_osc_title_sequence(rest)
<1> DEFINE text == SubSeq(rest, 5, Len(rest))
           more == rest \o y
           Title(s) == [kind  |-> "title",
                        len   |-> 4 + FirstTerminator(s)
                                    + (IF s[FirstTerminator(s)] = "bel" THEN 0 ELSE 1),
                        title |-> SubSeq(s, 1, FirstTerminator(s) - 1)]
           Tests(r, s) == IF IsPrefix(r, OscPrefix) THEN Hold
                          ELSE IF ~IsPrefix(OscPrefix, r) \/ r[3] \notin {"0", "2"} THEN Keep
                          ELSE IF Len(r) = 3 THEN Hold
                          ELSE IF r[4] # "semi" THEN Keep
                          ELSE IF find_osc_terminator(s) = {} THEN Hold
                          ELSE Title(s)
<1>1. split_osc_title_sequence(rest) = Tests(rest, text)
  BY TitleTests, Zenon
<1>2. more \in Seq(B) /\ Len(more) = Len(rest) + Len(y) /\ \A i \in 1..Len(rest) : more[i] = rest[i]
  BY ConcatProperties
<1>3. Len(rest) \in Nat /\ Len(y) \in Nat
  OBVIOUS
<1>4. split_osc_title_sequence(more) = Tests(more, SubSeq(more, 5, Len(more)))
  BY <1>2, TitleTests, Zenon
<1>5. ~IsPrefix(rest, OscPrefix)
  BY <1>1
<1>6. /\ ~IsPrefix(more, OscPrefix)
      /\ IsPrefix(OscPrefix, rest) => IsPrefix(OscPrefix, more) /\ Len(rest) >= 3
      /\ ~IsPrefix(OscPrefix, rest) => ~IsPrefix(OscPrefix, more)
  BY <1>5, OscBytes, PrefixDecided, OscSeen
<1> HIDE DEF more, text, Title
<1>7. CASE ~IsPrefix(OscPrefix, rest)
  BY <1>1, <1>4, <1>5, <1>6, <1>7 DEF more
<1>8. CASE IsPrefix(OscPrefix, rest) /\ rest[3] \notin {"0", "2"}
  <2>1. more[3] = rest[3]
    BY <1>2, <1>3, <1>6, <1>8
  <2>2. QED
    BY <1>1, <1>4, <1>5, <1>6, <1>8, <2>1 DEF more
<1>9. CASE IsPrefix(OscPrefix, rest) /\ rest[3] \in {"0", "2"}
  <2>0. Len(rest) # 3
    BY <1>1, <1>5, <1>9
  <2>1. Len(rest) >= 4 /\ Len(more) >= 4 /\ Len(rest) # 3 /\ Len(more) # 3
    <3>1. \A n, k \in Nat : n >= 3 /\ n # 3 => n >= 4 /\ n + k >= 4 /\ n + k # 3
      OBVIOUS
    <3>2. QED
      BY <2>0, <1>2, <1>3, <1>6, <1>9, <3>1, Zenon
  <2>2. more[3] = rest[3] /\ more[4] = rest[4]
    BY <1>2, <1>3, <2>1
  <2>3. SubSeq(more, 5, Len(more)) = text \o y
    BY <2>1, TextGrows DEF more, text
  <2>4. text \in Seq(B)
    BY <2>1 DEF text
  <2>5. CASE rest[4] # "semi"
    <3>1. split_osc_title_sequence(rest) = Keep
      BY <1>1, <1>5, <1>9, <2>1, <2>5
    <3>2. split_osc_title_sequence(more) = Keep
      BY <1>4, <1>6, <1>9, <2>1, <2>2, <2>5
    <3>3. QED
      BY <3>1, <3>2 DEF more
  <2>6. CASE rest[4] = "semi"
    <3>1. find_osc_terminator(text) # {}
      BY <1>1, <1>5, <1>6, <1>9, <2>1, <2>6
    <3>2. find_osc_terminator(text \o y) # {} /\ FirstTerminator(text \o y) = FirstTerminator(text)
      BY <2>4, <3>1, TerminatorStable
    <3>3. FirstTerminator(text) \in 1..Len(text)
      BY <2>4, <3>1, TerminatorFound
    <3>4. Title(text \o y) = Title(text)
      <4> DEFINE k == FirstTerminator(text)
      <4> HIDE DEF k
      <4>1. k \in 1..Len(text) /\ FirstTerminator(text \o y) = k
        BY <3>2, <3>3 DEF k
      <4>2. (text \o y)[k] = text[k]
        BY <2>4, <4>1, ConcatProperties
      <4>3. SubSeq(text \o y, 1, k - 1) = SubSeq(text, 1, k - 1)
        BY <2>4, <4>1
      <4>4. FirstTerminator(text) = k
        BY DEF k
      <4>5. QED
        BY <4>1, <4>2, <4>3, <4>4 DEF Title
    <3>5. split_osc_title_sequence(rest) = Title(text)
      BY <1>1, <1>5, <1>9, <2>1, <2>6, <3>1
    <3>6. split_osc_title_sequence(more) = Title(text \o y)
      BY <1>4, <1>6, <1>9, <2>1, <2>2, <2>3, <2>6, <3>2
    <3>7. QED
      BY <3>4, <3>5, <3>6 DEF more
  <2>7. QED
    BY <2>5, <2>6
<1>10. QED
  BY <1>7, <1>8, <1>9

LEMMA MatchShapes ==
  /\ Hold.kind = "hold" /\ Keep.kind = "keep" /\ Keep.len = 1
  /\ \A n : Drop(n).kind = "drop" /\ Drop(n).len = n
  /\ Hold # Keep
BY DEF Hold, Keep, Drop

\* A decision takes bytes that are there, at least one.
LEMMA MatchKinds ==
  ASSUME NEW B, NEW rest \in Seq(B), rest # <<>>
  PROVE  LET m == Matches(rest)
         IN  \/ m = Hold
             \/ m = Keep
             \/ m.kind = "drop" /\ m.len \in 1..Len(rest)
             \/ m.kind = "query" /\ m.len \in 1..Len(rest)
             \/ m.kind = "title" /\ m.len \in 1..Len(rest) /\ m.title \in Seq(B)
<1> DEFINE win32 == split_prefixed_control_sequence(rest, Win32InputModePrefix)
           focus == split_prefixed_control_sequence(rest, FocusEventModePrefix)
           osc == split_osc_title_sequence(rest)
           query == [kind |-> "query", len |-> Len(CursorPositionQuery), title |-> <<>>]
           m == Matches(rest)
<1>1. m = IF IsPrefix(rest, CursorPositionQuery) THEN Hold
          ELSE IF IsPrefix(CursorPositionQuery, rest) THEN query
          ELSE IF win32.kind # "keep" THEN win32
          ELSE IF focus.kind # "keep" THEN focus
          ELSE osc
  BY DEF Matches
<1>2. Len(rest) \in Nat
  OBVIOUS
<1>3. \/ win32 = Hold \/ win32 = Keep
      \/ win32 = Drop(5) /\ 5 <= Len(rest)
  <2>1. \/ win32 = Hold \/ win32 = Keep
        \/ win32 = Drop(Len(Win32InputModePrefix) + 1) /\ Len(Win32InputModePrefix) + 1 <= Len(rest)
    BY Win32Bytes, PrefixedKinds
  <2>2. Len(Win32InputModePrefix) + 1 = 5
    BY Win32Bytes
  <2> HIDE DEF win32
  <2>3. QED
    BY <2>1, <2>2
<1>4. \/ focus = Hold \/ focus = Keep
      \/ focus = Drop(5) /\ 5 <= Len(rest)
  <2>1. \/ focus = Hold \/ focus = Keep
        \/ focus = Drop(Len(FocusEventModePrefix) + 1) /\ Len(FocusEventModePrefix) + 1 <= Len(rest)
    BY FocusBytes, PrefixedKinds
  <2>2. Len(FocusEventModePrefix) + 1 = 5
    BY FocusBytes
  <2> HIDE DEF focus
  <2>3. QED
    BY <2>1, <2>2
<1>5. \/ osc = Hold
      \/ osc = Keep
      \/ osc.kind = "title" /\ osc.len \in 1..Len(rest) /\ osc.title \in Seq(B)
  <2>1. \/ osc = Hold
        \/ osc = Keep
        \/ /\ osc = [kind |-> "title", len |-> osc.len, title |-> osc.title]
           /\ osc.len \in 1..Len(rest) /\ osc.title \in Seq(B)
    BY TitleKinds
  <2> HIDE DEF osc
  <2>2. QED
    BY <2>1
<1>6. IsPrefix(CursorPositionQuery, rest) => query.kind = "query" /\ query.len \in 1..Len(rest)
  <2>1. IsPrefix(CursorPositionQuery, rest) => Len(CursorPositionQuery) <= Len(rest)
    BY QueryBytes, PrefixMeans
  <2>2. QED
    BY <2>1, <1>2, QueryBytes
<1> HIDE DEF win32, focus, osc, query, m
<1>7. 5 <= Len(rest) => 5 \in 1..Len(rest)
  BY <1>2
<1>8. CASE IsPrefix(rest, CursorPositionQuery)
  BY <1>1, <1>8 DEF m
<1>9. CASE ~IsPrefix(rest, CursorPositionQuery) /\ IsPrefix(CursorPositionQuery, rest)
  BY <1>1, <1>6, <1>9 DEF m
<1>10. CASE /\ ~IsPrefix(rest, CursorPositionQuery)
            /\ ~IsPrefix(CursorPositionQuery, rest)
            /\ win32.kind # "keep"
  <2>1. m = win32
    BY <1>1, <1>10
  <2>2. QED
    BY <2>1, <1>3, <1>7, <1>10, MatchShapes DEF m
<1>11. CASE /\ ~IsPrefix(rest, CursorPositionQuery)
            /\ ~IsPrefix(CursorPositionQuery, rest)
            /\ win32.kind = "keep"
            /\ focus.kind # "keep"
  <2>1. m = focus
    BY <1>1, <1>11
  <2>2. QED
    BY <2>1, <1>4, <1>7, <1>11, MatchShapes DEF m
<1>12. CASE /\ ~IsPrefix(rest, CursorPositionQuery)
            /\ ~IsPrefix(CursorPositionQuery, rest)
            /\ win32.kind = "keep"
            /\ focus.kind = "keep"
  <2>1. m = osc
    BY <1>1, <1>12
  <2>2. QED
    BY <2>1, <1>5 DEF m
<1>13. QED
  BY <1>8, <1>9, <1>10, <1>11, <1>12

\* More bytes do not change a decision that has been taken.
LEMMA MatchStable ==
  ASSUME NEW B, NEW rest \in Seq(B), NEW y \in Seq(B), rest # <<>>, Matches(rest).kind # "hold"
  PROVE  Matches(rest \o y) = Matches(rest)
<1> DEFINE more == rest \o y
           Win32(r) == split_prefixed_control_sequence(r, Win32InputModePrefix)
           Focus(r) == split_prefixed_control_sequence(r, FocusEventModePrefix)
           Osc(r) == split_osc_title_sequence(r)
           query == [kind |-> "query", len |-> Len(CursorPositionQuery), title |-> <<>>]
<1>1. \A r : Matches(r) = IF IsPrefix(r, CursorPositionQuery) THEN Hold
                          ELSE IF IsPrefix(CursorPositionQuery, r) THEN query
                          ELSE IF Win32(r).kind # "keep" THEN Win32(r)
                          ELSE IF Focus(r).kind # "keep" THEN Focus(r)
                          ELSE Osc(r)
  BY DEF Matches
<1>2. Win32(rest) # Hold => Win32(more) = Win32(rest)
  BY Win32Bytes, PrefixedStable
<1>3. Focus(rest) # Hold => Focus(more) = Focus(rest)
  BY FocusBytes, PrefixedStable
<1>4. Osc(rest) # Hold => Osc(more) = Osc(rest)
  BY TitleStable
<1>5. ~IsPrefix(rest, CursorPositionQuery) =>
        /\ ~IsPrefix(more, CursorPositionQuery)
        /\ IsPrefix(CursorPositionQuery, more) <=> IsPrefix(CursorPositionQuery, rest)
  BY QueryBytes, PrefixDecided
<1> HIDE DEF Win32, Focus, Osc, query, more
<1>6. Hold.kind = "hold" /\ Hold.kind # "keep"
  BY DEF Hold
<1>7. QED
  BY <1>1, <1>2, <1>3, <1>4, <1>5, <1>6, Zenon DEF more

\* The function that the loop of process defines.
RunOf(input) == CHOOSE run : run = [i \in 1..(Len(input) + 1) |-> ProcessFrom(input, run, i)]

LEMMA ProcessIsRun == ASSUME NEW input PROVE process(input) = RunOf(input)[1]
BY DEF process, RunOf

\* A turn at an index depends on the turns at later indices only.
LEMMA TurnIsLocal ==
  ASSUME NEW B, NEW z \in Seq(B), NEW i \in 1..(Len(z) + 1), NEW f, NEW g,
         \A j \in (i + 1)..(Len(z) + 1) : f[j] = g[j]
  PROVE  ProcessFrom(z, f, i) = ProcessFrom(z, g, i)
<1> DEFINE rest == SubSeq(z, i, Len(z))
           m == Matches(rest)
<1>1. Len(z) \in Nat
  OBVIOUS
<1>2. CASE i > Len(z) \/ m.kind = "hold"
  BY <1>2 DEF ProcessFrom
<1>3. CASE ~(i > Len(z) \/ m.kind = "hold")
  <2>1. rest \in Seq(B) /\ Len(rest) = Len(z) - i + 1
    BY Slice
  <2>2. rest # <<>>
    <3>1. i <= Len(z)
      BY <1>1, <1>3
    <3> HIDE DEF rest, m
    <3>2. QED
      BY <1>1, <2>1, <3>1
  <2>3. \/ m = Hold \/ m = Keep
        \/ m.kind = "drop" /\ m.len \in 1..Len(rest)
        \/ m.kind = "query" /\ m.len \in 1..Len(rest)
        \/ m.kind = "title" /\ m.len \in 1..Len(rest) /\ m.title \in Seq(B)
    BY <2>1, <2>2, MatchKinds
  <2> HIDE DEF m, rest
  <2>4. m.len \in 1..Len(rest)
    BY <1>1, <1>3, <2>1, <2>3, MatchShapes
  <2>5. i + m.len \in (i + 1)..(Len(z) + 1)
    BY <1>1, <2>1, <2>4
  <2>6. f[i + m.len] = g[i + m.len]
    BY <2>5
  <2>7. QED
    BY <1>3, <2>6 DEF ProcessFrom, m, rest
<1>4. QED
  BY <1>2, <1>3

\* The recursion of the loop is well founded: the function exists.
LEMMA RunUnfolds ==
  ASSUME NEW B, NEW z \in Seq(B)
  PROVE  /\ DOMAIN RunOf(z) = 1..(Len(z) + 1)
         /\ \A i \in 1..(Len(z) + 1) : RunOf(z)[i] = ProcessFrom(z, RunOf(z), i)
<1> DEFINE n == Len(z) + 1
           Solves(g, k) == /\ g = [i \in 1..n |-> g[i]]
                           /\ \A i \in k..n : g[i] = ProcessFrom(z, g, i)
           T == {k \in 1..n : \E g : Solves(g, k)}
<1>1. n \in Nat /\ n >= 1
  OBVIOUS
<1>2. n \in T
  <2> DEFINE e == [i \in 1..n |-> 0]
             h == [i \in 1..n |-> ProcessFrom(z, e, i)]
  <2>1. ProcessFrom(z, h, n) = ProcessFrom(z, e, n)
    <3>1. \A j \in (n + 1)..(Len(z) + 1) : h[j] = e[j]
      BY <1>1
    <3> HIDE DEF h, e
    <3>2. QED
      BY <3>1, <1>1, TurnIsLocal
  <2>2. h = [i \in 1..n |-> h[i]]
    OBVIOUS
  <2>3. \A i \in n..n : h[i] = ProcessFrom(z, h, i)
    <3>1. h[n] = ProcessFrom(z, e, n)
      BY <1>1
    <3> HIDE DEF h, e
    <3>2. \A i \in n..n : i = n
      BY <1>1
    <3>3. QED
      BY <2>1, <3>1, <3>2
  <2> HIDE DEF h
  <2>4. Solves(h, n)
    BY <2>2, <2>3
  <2>5. QED
    BY <1>1, <2>4
<1>3. T \subseteq Nat /\ T # {}
  BY <1>2
<1> HIDE DEF T
<1>4. PICK k \in T : \A j \in T : k <= j
  BY <1>3, LeastNatural
<1>5. k \in 1..n /\ \E g : Solves(g, k)
  BY <1>4 DEF T
<1>6. PICK g : Solves(g, k)
  BY <1>5
<1>7. ASSUME k # 1 PROVE FALSE
  <2> DEFINE h == [i \in 1..n |-> IF i = k - 1 THEN ProcessFrom(z, g, i) ELSE g[i]]
  <2>1. k - 1 \in 1..n
    BY <1>1, <1>5, <1>7
  <2>2. h = [i \in 1..n |-> h[i]]
    OBVIOUS
  <2>3. \A j \in k..n : h[j] = g[j]
    BY <1>1, <1>5, <2>1
  <2>4. h[k - 1] = ProcessFrom(z, g, k - 1)
    BY <2>1
  <2> HIDE DEF h
  <2>5. ASSUME NEW i \in (k - 1)..n PROVE h[i] = ProcessFrom(z, h, i)
    <3>1. i \in 1..(Len(z) + 1) /\ \A j \in (i + 1)..(Len(z) + 1) : h[j] = g[j]
      BY <1>1, <1>5, <2>1, <2>3
    <3>2. ProcessFrom(z, h, i) = ProcessFrom(z, g, i)
      BY <3>1, TurnIsLocal
    <3>3. CASE i = k - 1
      BY <3>2, <3>3, <2>4
    <3>4. CASE i # k - 1
      <4>1. i \in k..n
        BY <3>4, <1>1, <1>5
      <4>2. QED
        BY <4>1, <3>2, <2>3, <1>6
    <3>5. QED
      BY <3>3, <3>4
  <2>6. Solves(h, k - 1)
    BY <2>2, <2>5
  <2>7. k - 1 \in T
    BY <2>1, <2>6 DEF T
  <2>8. k <= k - 1
    BY <2>7, <1>4
  <2>9. QED
    BY <2>8, <1>5, <1>1
<1>8. g = [i \in 1..n |-> ProcessFrom(z, g, i)]
  BY <1>6, <1>7
<1>9. RunOf(z) = [i \in 1..n |-> ProcessFrom(z, RunOf(z), i)]
  BY <1>8 DEF RunOf
<1> HIDE DEF n
<1>10. \A f : f = [i \in 1..n |-> ProcessFrom(z, RunOf(z), i)]
              => DOMAIN f = 1..n /\ \A i \in 1..n : f[i] = ProcessFrom(z, RunOf(z), i)
  OBVIOUS
<1>11. QED
  BY <1>9, <1>10 DEF n

\* A suffix of a suffix.
LEMMA SliceOfSlice ==
  ASSUME NEW B, NEW z \in Seq(B), NEW i \in 1..(Len(z) + 1),
         NEW j \in 1..(Len(SubSeq(z, i, Len(z))) + 1)
  PROVE  /\ i + j - 1 \in 1..(Len(z) + 1)
         /\ SubSeq(SubSeq(z, i, Len(z)), j, Len(SubSeq(z, i, Len(z)))) = SubSeq(z, i + j - 1, Len(z))
<1> DEFINE w == SubSeq(z, i, Len(z))
           a == SubSeq(w, j, Len(w))
           b == SubSeq(z, i + j - 1, Len(z))
<1>1. Len(z) \in Nat
  OBVIOUS
<1>2. /\ w \in Seq(B)
      /\ Len(w) = Len(z) - i + 1
      /\ \A k \in 1..(Len(z) - i + 1) : w[k] = z[i + k - 1]
  BY Slice
<1>3. j \in 1..(Len(w) + 1)
  OBVIOUS
<1> HIDE DEF w
<1>4. i + j - 1 \in 1..(Len(z) + 1)
  BY <1>1, <1>2, <1>3
<1>5. /\ a \in Seq(B)
      /\ Len(a) = Len(w) - j + 1
      /\ \A k \in 1..(Len(w) - j + 1) : a[k] = w[j + k - 1]
  BY <1>2, <1>3, Slice
<1>6. /\ b \in Seq(B)
      /\ Len(b) = Len(z) - (i + j - 1) + 1
      /\ \A k \in 1..(Len(z) - (i + j - 1) + 1) : b[k] = z[(i + j - 1) + k - 1]
  BY <1>4, Slice
<1> HIDE DEF a, b
<1>7. Len(a) = Len(b)
  BY <1>1, <1>2, <1>3, <1>5, <1>6
<1>8. ASSUME NEW k \in 1..Len(a) PROVE a[k] = b[k]
  <2>1. /\ k \in 1..(Len(w) - j + 1)
        /\ j + k - 1 \in 1..(Len(z) - i + 1)
        /\ k \in 1..(Len(z) - (i + j - 1) + 1)
        /\ i + (j + k - 1) - 1 = (i + j - 1) + k - 1
    BY <1>1, <1>2, <1>3, <1>5
  <2>2. a[k] = w[j + k - 1] /\ w[j + k - 1] = z[i + (j + k - 1) - 1] /\ b[k] = z[(i + j - 1) + k - 1]
    BY <2>1, <1>2, <1>5, <1>6
  <2>3. QED
    BY <2>1, <2>2
<1>9. a = b
  BY <1>5, <1>6, <1>7, <1>8, SeqEqual
<1>10. QED
  BY <1>4, <1>9 DEF a, b, w

Suffix(z, i) == SubSeq(z, i, Len(z))

\* The loop over a suffix takes the turns of the loop over the whole.
LEMMA TurnShifts ==
  ASSUME NEW B, NEW z \in Seq(B), NEW i \in 1..(Len(z) + 1), NEW f, NEW g,
         NEW j \in 1..(Len(Suffix(z, i)) + 1),
         \A k \in (j + 1)..(Len(Suffix(z, i)) + 1) : f[k] = g[i + k - 1]
  PROVE  ProcessFrom(Suffix(z, i), f, j) = ProcessFrom(z, g, i + j - 1)
<1> DEFINE w == Suffix(z, i)
           rest == SubSeq(w, j, Len(w))
           at == i + j - 1
           m == Matches(rest)
<1>1. Len(z) \in Nat
  OBVIOUS
<1>2. /\ w \in Seq(B)
      /\ Len(w) = Len(z) - i + 1
      /\ \A k \in 1..(Len(z) - i + 1) : w[k] = z[i + k - 1]
  BY Slice DEF Suffix
<1>3. at \in 1..(Len(z) + 1) /\ rest = SubSeq(z, at, Len(z))
  BY SliceOfSlice DEF Suffix
<1>4. rest \in Seq(B) /\ Len(rest) = Len(w) - j + 1
  BY <1>2, Slice
<1>5. j > Len(w) <=> at > Len(z)
  BY <1>1, <1>2
<1>f. \A k \in (j + 1)..(Len(w) + 1) : f[k] = g[i + k - 1]
  OBVIOUS
<1>j. j \in 1..(Len(w) + 1)
  OBVIOUS
<1> HIDE DEF rest, m, w
<1>6. CASE j > Len(w) \/ m.kind = "hold"
  BY <1>3, <1>5, <1>6 DEF ProcessFrom, m, rest, w
<1>7. CASE ~(j > Len(w) \/ m.kind = "hold")
  <2>1. j <= Len(w) /\ j \in 1..(Len(z) - i + 1)
    BY <1>1, <1>2, <1>7
  <2>2. rest # <<>>
    BY <1>1, <1>2, <1>4, <2>1
  <2>3. \/ m = Hold \/ m = Keep
        \/ m.kind = "drop" /\ m.len \in 1..Len(rest)
        \/ m.kind = "query" /\ m.len \in 1..Len(rest)
        \/ m.kind = "title" /\ m.len \in 1..Len(rest) /\ m.title \in Seq(B)
    BY <1>4, <2>2, MatchKinds DEF m
  <2>4. m.len \in 1..Len(rest)
    BY <1>1, <1>2, <1>4, <1>7, <2>1, <2>3, MatchShapes
  <2>5. j + m.len \in (j + 1)..(Len(w) + 1) /\ i + (j + m.len) - 1 = at + m.len
    <3>1. PICK n, l : n = Len(w) /\ l = m.len
      OBVIOUS
    <3>2. n \in Nat /\ j \in Int /\ i \in Int
      BY <1>1, <1>2, <3>1
    <3>3. j <= n /\ l \in 1..(n - j + 1)
      BY <1>4, <2>1, <2>4, <3>1, Zenon
    <3>4. j + l \in (j + 1)..(n + 1) /\ i + (j + l) - 1 = (i + j - 1) + l
      BY ONLY <3>2, <3>3
    <3> QED
      BY <3>1, <3>4, Zenon DEF at
  <2>6. f[j + m.len] = g[at + m.len]
    <3> DEFINE l == j + m.len
    <3>1. l \in (j + 1)..(Len(w) + 1) /\ i + l - 1 = at + m.len
      BY <2>5
    <3> HIDE DEF l, at
    <3>2. f[l] = g[i + l - 1]
      BY <3>1, <1>f
    <3>3. f[l] = g[at + m.len]
      BY <3>1, <3>2
    <3>4. QED
      BY <3>3 DEF l
  <2>7. w[j] = z[at]
    BY <1>2, <2>1
  <2>8. ProcessFrom(w, f, j) =
          CASE m.kind = "keep"  -> [f[j + m.len] EXCEPT !.out = <<w[j]>> \o @]
            [] m.kind = "query" -> [f[j + m.len] EXCEPT !.queries = @ + 1]
            [] m.kind = "title" -> [f[j + m.len] EXCEPT !.titles = <<m.title>> \o @]
            [] OTHER            -> f[j + m.len]
    BY <1>7 DEF ProcessFrom, m, rest
  <2>9. ProcessFrom(z, g, at) =
          CASE m.kind = "keep"  -> [g[at + m.len] EXCEPT !.out = <<z[at]>> \o @]
            [] m.kind = "query" -> [g[at + m.len] EXCEPT !.queries = @ + 1]
            [] m.kind = "title" -> [g[at + m.len] EXCEPT !.titles = <<m.title>> \o @]
            [] OTHER            -> g[at + m.len]
    BY <1>3, <1>5, <1>7 DEF ProcessFrom, m
  <2>10. QED
    BY <2>6, <2>7, <2>8, <2>9 DEF w
<1>8. QED
  BY <1>6, <1>7

LEMMA RunShifts ==
  ASSUME NEW B, NEW z \in Seq(B), NEW i \in 1..(Len(z) + 1)
  PROVE  process(SubSeq(z, i, Len(z))) = RunOf(z)[i]
<1> DEFINE w == SubSeq(z, i, Len(z))
           n == Len(w) + 1
           T == {k \in 1..(n + 1) : \A j \in k..n : RunOf(w)[j] = RunOf(z)[i + j - 1]}
<1>1. w \in Seq(B) /\ Len(w) = Len(z) - i + 1 /\ w = Suffix(z, i)
  BY Slice DEF Suffix
<1>2. Len(z) \in Nat
  OBVIOUS
<1> HIDE DEF w
<1>3. n \in Nat /\ n >= 1
  BY <1>1, <1>2
<1>4. n + 1 \in T
  BY <1>3
<1>5. T \subseteq Nat /\ T # {}
  BY <1>4
<1> HIDE DEF T
<1>6. PICK k \in T : \A j \in T : k <= j
  BY <1>5, LeastNatural
<1>7. k \in 1..(n + 1) /\ \A j \in k..n : RunOf(w)[j] = RunOf(z)[i + j - 1]
  BY <1>6 DEF T
<1>8. ASSUME k # 1 PROVE FALSE
  <2>1. k - 1 \in 1..n
    BY <1>3, <1>7, <1>8
  <2>2. \A l \in ((k - 1) + 1)..(Len(w) + 1) : RunOf(w)[l] = RunOf(z)[i + l - 1]
    BY <1>3, <1>7, <2>1
  <2>3. ProcessFrom(w, RunOf(w), k - 1) = ProcessFrom(z, RunOf(z), i + (k - 1) - 1)
    <3> DEFINE f == RunOf(w)
               g == RunOf(z)
               l == k - 1
    <3>1. l \in 1..(Len(Suffix(z, i)) + 1)
      BY <2>1, <1>1
    <3>2. \A x \in (l + 1)..(Len(Suffix(z, i)) + 1) : f[x] = g[i + x - 1]
      BY <2>2, <1>1
    <3> HIDE DEF f, g, l
    <3>3. ProcessFrom(Suffix(z, i), f, l) = ProcessFrom(z, g, i + l - 1)
      BY <3>1, <3>2, TurnShifts
    <3>4. QED
      BY <3>3, <1>1 DEF f, g, l
  <2>4. RunOf(w)[k - 1] = ProcessFrom(w, RunOf(w), k - 1)
    BY <2>1, <1>1, RunUnfolds
  <2>5. RunOf(z)[i + (k - 1) - 1] = ProcessFrom(z, RunOf(z), i + (k - 1) - 1)
    <3>1. i + (k - 1) - 1 \in 1..(Len(z) + 1)
      BY <2>1, <1>1, <1>2
    <3>2. QED
      BY <3>1, RunUnfolds
  <2>6. \A j \in (k - 1)..n : j = k - 1 \/ j \in k..n
    BY <1>3, <1>7
  <2>7. k - 1 \in T
    BY <2>1, <2>3, <2>4, <2>5, <2>6, <1>3, <1>7 DEF T
  <2>8. QED
    BY <2>7, <1>6, <1>7, <1>3
<1>9. RunOf(w)[1] = RunOf(z)[i + 1 - 1]
  BY <1>3, <1>7, <1>8
<1>10. i + 1 - 1 = i
  OBVIOUS
<1>11. QED
  BY <1>9, <1>10, ProcessIsRun DEF w

Stopped(z) == [out |-> <<>>, queries |-> 0, titles |-> <<>>, pending |-> z]

\* What the turn with decision m does to the result of the turns behind it.
Turned(m, byte, r) ==
  CASE m.kind = "keep"  -> [r EXCEPT !.out = <<byte>> \o @]
    [] m.kind = "query" -> [r EXCEPT !.queries = @ + 1]
    [] m.kind = "title" -> [r EXCEPT !.titles = <<m.title>> \o @]
    [] OTHER            -> r

LEMMA WholeSuffix ==
  ASSUME NEW B, NEW z \in Seq(B)
  PROVE  Suffix(z, 1) = z
BY SubSeqFull DEF Suffix

\* process of nothing, or of bytes that are held back.
LEMMA ProcessStops ==
  ASSUME NEW B, NEW z \in Seq(B), z = <<>> \/ Matches(z).kind = "hold"
  PROVE  process(z) = Stopped(z)
<1>1. 1 \in 1..(Len(z) + 1) /\ Len(z) \in Nat
  OBVIOUS
<1>2. process(z) = ProcessFrom(z, RunOf(z), 1)
  BY <1>1, ProcessIsRun, RunUnfolds
<1>3. SubSeq(z, 1, Len(z)) = z
  BY WholeSuffix DEF Suffix
<1>4. z = <<>> => 1 > Len(z)
  BY <1>1
<1>5. QED
  BY <1>2, <1>3, <1>4 DEF ProcessFrom, Stopped

\* process is one turn and then process of what follows.
LEMMA ProcessTurns ==
  ASSUME NEW B, NEW z \in Seq(B), z # <<>>, Matches(z).kind # "hold"
  PROVE  /\ Matches(z).len \in 1..Len(z)
         /\ process(z) = Turned(Matches(z), z[1], process(Suffix(z, 1 + Matches(z).len)))
<1> DEFINE m == Matches(z)
<1>1. 1 \in 1..(Len(z) + 1) /\ Len(z) \in Nat
  OBVIOUS
<1>2. process(z) = ProcessFrom(z, RunOf(z), 1)
  BY <1>1, ProcessIsRun, RunUnfolds
<1>3. SubSeq(z, 1, Len(z)) = z
  BY WholeSuffix DEF Suffix
<1>4. ~(1 > Len(z))
  BY <1>1
<1>5. \/ m = Hold \/ m = Keep
      \/ m.kind = "drop" /\ m.len \in 1..Len(z)
      \/ m.kind = "query" /\ m.len \in 1..Len(z)
      \/ m.kind = "title" /\ m.len \in 1..Len(z) /\ m.title \in Seq(B)
  BY MatchKinds
<1>6. m.kind # "hold"
  OBVIOUS
<1>7. process(z) = Turned(m, z[1], RunOf(z)[1 + m.len])
  BY <1>2, <1>3, <1>4 DEF ProcessFrom, Turned
<1> HIDE DEF m
<1>8. m.len \in 1..Len(z)
  BY <1>1, <1>4, <1>5, <1>6, MatchShapes
<1>9. 1 + m.len \in 1..(Len(z) + 1)
  BY <1>1, <1>8
<1>10. process(Suffix(z, 1 + m.len)) = RunOf(z)[1 + m.len]
  BY <1>9, RunShifts DEF Suffix
<1>11. QED
  BY <1>7, <1>8, <1>10 DEF m

Results(B) == [out : Seq(B), queries : Nat, titles : Seq(Seq(B)), pending : Seq(B)]

LEMMA TurnedTypes ==
  ASSUME NEW B, NEW b \in B, NEW r \in Results(B), NEW m, m.kind = "title" => m.title \in Seq(B)
  PROVE  Turned(m, b, r) \in Results(B)
<1>1. r.out \in Seq(B) /\ r.queries \in Nat /\ r.titles \in Seq(Seq(B)) /\ r.pending \in Seq(B)
  BY DEF Results
<1>2. <<b>> \o r.out \in Seq(B)
  BY <1>1
<1>3. r.queries + 1 \in Nat
  BY <1>1
<1>4. m.kind = "title" => <<m.title>> \o r.titles \in Seq(Seq(B))
  BY <1>1
<1>5. QED
  BY <1>2, <1>3, <1>4 DEF Results, Turned

\* What a turn leaves to process is shorter.
LEMMA TurnShrinks ==
  ASSUME NEW B, NEW z \in Seq(B), z # <<>>, Matches(z).kind # "hold"
  PROVE  /\ Suffix(z, 1 + Matches(z).len) \in Seq(B)
         /\ Len(Suffix(z, 1 + Matches(z).len)) = Len(z) - Matches(z).len
         /\ Len(Suffix(z, 1 + Matches(z).len)) < Len(z)
<1> DEFINE n == Matches(z).len
<1>1. n \in 1..Len(z)
  BY ProcessTurns
<1> HIDE DEF n
<1>2. Len(z) \in Nat /\ 1 + n \in 1..(Len(z) + 1)
  BY <1>1
<1>3. SubSeq(z, 1 + n, Len(z)) \in Seq(B) /\ Len(SubSeq(z, 1 + n, Len(z))) = Len(z) - (1 + n) + 1
  BY <1>2, Slice
<1>4. QED
  BY <1>1, <1>2, <1>3 DEF Suffix, n

LEMMA ProcessTypes ==
  ASSUME NEW B, NEW z \in Seq(B)
  PROVE  process(z) \in Results(B)
<1> DEFINE T == {n \in Nat : \E s \in Seq(B) : Len(s) = n /\ process(s) \notin Results(B)}
<1>1. ASSUME T # {} PROVE FALSE
  <2>1. PICK n \in T : \A k \in T : n <= k
    BY <1>1, LeastNatural
  <2>2. n \in Nat /\ \E s \in Seq(B) : Len(s) = n /\ process(s) \notin Results(B)
    BY <2>1
  <2>3. PICK s \in Seq(B) : Len(s) = n /\ process(s) \notin Results(B)
    BY <2>2
  <2>4. \A u \in Seq(B) : Len(u) < n => process(u) \in Results(B)
    <3>1. SUFFICES ASSUME NEW u \in Seq(B), Len(u) < n, process(u) \notin Results(B) PROVE FALSE
      OBVIOUS
    <3>2. Len(u) \in T
      BY <3>1
    <3>3. n <= Len(u) /\ Len(u) \in Nat
      BY <3>2, <2>1
    <3>4. QED
      BY <3>1, <3>3, <2>2
  <2> HIDE DEF T
  <2>5. CASE s = <<>> \/ Matches(s).kind = "hold"
    <3>1. process(s) = Stopped(s)
      BY <2>5, ProcessStops
    <3>2. Stopped(s) \in Results(B)
      BY DEF Stopped, Results
    <3>3. QED
      BY <3>1, <3>2, <2>3
  <2>6. CASE ~(s = <<>> \/ Matches(s).kind = "hold")
    <3> DEFINE m == Matches(s)
               u == Suffix(s, 1 + m.len)
    <3>1. s # <<>> /\ m.kind # "hold"
      BY <2>6
    <3>2. process(s) = Turned(m, s[1], process(u))
      BY <3>1, ProcessTurns
    <3>3. u \in Seq(B) /\ Len(u) < Len(s)
      BY <3>1, TurnShrinks
    <3>4. process(u) \in Results(B)
      BY <3>3, <2>3, <2>4
    <3>5. m.kind = "title" => m.title \in Seq(B)
      <4>1. \/ m = Hold \/ m = Keep
            \/ m.kind = "drop" /\ m.len \in 1..Len(s)
            \/ m.kind = "query" /\ m.len \in 1..Len(s)
            \/ m.kind = "title" /\ m.len \in 1..Len(s) /\ m.title \in Seq(B)
        BY <3>1, MatchKinds
      <4> HIDE DEF m
      <4>2. QED
        BY <4>1, MatchShapes
    <3>6. s[1] \in B
      BY <3>1
    <3> HIDE DEF m, u
    <3>7. Turned(m, s[1], process(u)) \in Results(B)
      BY <3>4, <3>5, <3>6, TurnedTypes
    <3>8. QED
      BY <3>2, <3>7, <2>3
  <2>7. QED
    BY <2>5, <2>6
<1>2. Len(z) \in Nat
  OBVIOUS
<1>3. QED
  BY <1>1, <1>2

\* The result of two reads, one after the other.
Joined(p, q) ==
  [out |-> p.out \o q.out, queries |-> p.queries + q.queries,
   titles |-> p.titles \o q.titles, pending |-> q.pending]

LEMMA JoinStopped ==
  ASSUME NEW B, NEW z, NEW q \in Results(B)
  PROVE  Joined(Stopped(z), q) = q
<1>1. /\ q = [out |-> q.out, queries |-> q.queries, titles |-> q.titles, pending |-> q.pending]
      /\ q.out \in Seq(B) /\ q.queries \in Nat /\ q.titles \in Seq(Seq(B)) /\ q.pending \in Seq(B)
  BY DEF Results
<1>2. /\ Stopped(z).out = <<>> /\ Stopped(z).queries = 0 /\ Stopped(z).titles = <<>>
  BY DEF Stopped
<1>3. <<>> \o q.out = q.out /\ 0 + q.queries = q.queries /\ <<>> \o q.titles = q.titles
  BY <1>1
<1>4. QED
  BY <1>1, <1>2, <1>3 DEF Joined

LEMMA TurnJoined ==
  ASSUME NEW B, NEW p \in Results(B), NEW q \in Results(B), NEW b \in B,
         NEW m, m.kind = "title" => m.title \in Seq(B)
  PROVE  Turned(m, b, Joined(p, q)) = Joined(Turned(m, b, p), q)
<1>1. /\ p.out \in Seq(B) /\ p.queries \in Nat /\ p.titles \in Seq(Seq(B)) /\ p.pending \in Seq(B)
      /\ q.out \in Seq(B) /\ q.queries \in Nat /\ q.titles \in Seq(Seq(B)) /\ q.pending \in Seq(B)
  BY DEF Results
<1>2. p = [out |-> p.out, queries |-> p.queries, titles |-> p.titles, pending |-> p.pending]
  BY DEF Results
<1>3. CASE m.kind = "keep"
  <2>1. <<b>> \in Seq(B)
    OBVIOUS
  <2>2. (<<b>> \o p.out) \o q.out = <<b>> \o (p.out \o q.out)
    <3> DEFINE one == <<b>>
               two == p.out
               three == q.out
    <3>1. one \in Seq(B) /\ two \in Seq(B) /\ three \in Seq(B)
      BY <1>1, <2>1
    <3> HIDE DEF one, two, three
    <3>2. (one \o two) \o three = one \o (two \o three)
      BY <3>1, ConcatAssociative
    <3>3. QED
      BY <3>2 DEF one, two, three
  <2>3. Turned(m, b, p) = [out |-> <<b>> \o p.out, queries |-> p.queries, titles |-> p.titles,
                           pending |-> p.pending]
    BY <1>2, <1>3 DEF Turned
  <2>4. Turned(m, b, Joined(p, q)) =
          [out |-> <<b>> \o (p.out \o q.out), queries |-> p.queries + q.queries,
           titles |-> p.titles \o q.titles, pending |-> q.pending]
    BY <1>3 DEF Turned, Joined
  <2> DEFINE tp == Turned(m, b, p)
  <2> HIDE DEF tp
  <2>5. tp.out = <<b>> \o p.out /\ tp.queries = p.queries /\ tp.titles = p.titles
    BY <2>3 DEF tp
  <2>6. Joined(tp, q) = [out |-> tp.out \o q.out, queries |-> tp.queries + q.queries,
                         titles |-> tp.titles \o q.titles, pending |-> q.pending]
    BY DEF Joined
  <2>7. QED
    BY <2>2, <2>4, <2>5, <2>6 DEF tp
<1>4. CASE m.kind = "query"
  <2>1. (p.queries + 1) + q.queries = (p.queries + q.queries) + 1
    BY <1>1
  <2>2. Turned(m, b, p) = [out |-> p.out, queries |-> p.queries + 1, titles |-> p.titles,
                           pending |-> p.pending]
    BY <1>2, <1>4 DEF Turned
  <2>3. Turned(m, b, Joined(p, q)) =
          [out |-> p.out \o q.out, queries |-> (p.queries + q.queries) + 1,
           titles |-> p.titles \o q.titles, pending |-> q.pending]
    BY <1>4 DEF Turned, Joined
  <2> DEFINE tp == Turned(m, b, p)
  <2> HIDE DEF tp
  <2>4. tp.out = p.out /\ tp.queries = p.queries + 1 /\ tp.titles = p.titles
    BY <2>2 DEF tp
  <2>5. Joined(tp, q) = [out |-> tp.out \o q.out, queries |-> tp.queries + q.queries,
                         titles |-> tp.titles \o q.titles, pending |-> q.pending]
    BY DEF Joined
  <2>6. QED
    BY <2>1, <2>3, <2>4, <2>5 DEF tp
<1>5. CASE m.kind = "title"
  <2>1. <<m.title>> \in Seq(Seq(B))
    BY <1>5
  <2>2. (<<m.title>> \o p.titles) \o q.titles = <<m.title>> \o (p.titles \o q.titles)
    <3> DEFINE one == <<m.title>>
               two == p.titles
               three == q.titles
    <3>1. one \in Seq(Seq(B)) /\ two \in Seq(Seq(B)) /\ three \in Seq(Seq(B))
      BY <1>1, <2>1
    <3> HIDE DEF one, two, three
    <3>2. (one \o two) \o three = one \o (two \o three)
      BY <3>1, ConcatAssociative
    <3>3. QED
      BY <3>2 DEF one, two, three
  <2>3. Turned(m, b, p) = [out |-> p.out, queries |-> p.queries, titles |-> <<m.title>> \o p.titles,
                           pending |-> p.pending]
    BY <1>2, <1>5 DEF Turned
  <2>4. Turned(m, b, Joined(p, q)) =
          [out |-> p.out \o q.out, queries |-> p.queries + q.queries,
           titles |-> <<m.title>> \o (p.titles \o q.titles), pending |-> q.pending]
    BY <1>5 DEF Turned, Joined
  <2> DEFINE tp == Turned(m, b, p)
  <2> HIDE DEF tp
  <2>5. tp.out = p.out /\ tp.queries = p.queries /\ tp.titles = <<m.title>> \o p.titles
    BY <2>3 DEF tp
  <2>6. Joined(tp, q) = [out |-> tp.out \o q.out, queries |-> tp.queries + q.queries,
                         titles |-> tp.titles \o q.titles, pending |-> q.pending]
    BY DEF Joined
  <2>7. QED
    BY <2>2, <2>4, <2>5, <2>6 DEF tp
<1>6. CASE m.kind \notin {"keep", "query", "title"}
  BY <1>6 DEF Turned
<1>7. QED
  BY <1>3, <1>4, <1>5, <1>6

\* Bytes that follow stay behind the suffix.
LEMMA SuffixGrows ==
  ASSUME NEW B, NEW z \in Seq(B), NEW y \in Seq(B), NEW i \in 1..(Len(z) + 1)
  PROVE  Suffix(z \o y, i) = Suffix(z, i) \o y
<1> DEFINE more == z \o y
           u == Suffix(more, i)
           t == Suffix(z, i)
<1>1. /\ more \in Seq(B)
      /\ Len(more) = Len(z) + Len(y)
      /\ \A k \in 1..Len(more) : more[k] = IF k <= Len(z) THEN z[k] ELSE y[k - Len(z)]
  BY ConcatProperties
<1>2. Len(z) \in Nat /\ Len(y) \in Nat
  OBVIOUS
<1> HIDE DEF more
<1>3. /\ u \in Seq(B)
      /\ Len(u) = Len(more) - i + 1
      /\ \A j \in 1..(Len(more) - i + 1) : u[j] = more[i + j - 1]
  <2>1. i \in 1..(Len(more) + 1)
    BY <1>1, <1>2
  <2>2. QED
    BY <2>1, <1>1, Slice DEF Suffix
<1>4. /\ t \in Seq(B)
      /\ Len(t) = Len(z) - i + 1
      /\ \A j \in 1..(Len(z) - i + 1) : t[j] = z[i + j - 1]
  BY Slice DEF Suffix
<1> HIDE DEF u, t
<1>5. /\ t \o y \in Seq(B)
      /\ Len(t \o y) = Len(t) + Len(y)
      /\ \A k \in 1..(Len(t) + Len(y)) : (t \o y)[k] = IF k <= Len(t) THEN t[k] ELSE y[k - Len(t)]
  BY <1>4, ConcatProperties
<1>6. Len(u) = Len(t \o y)
  BY <1>1, <1>2, <1>3, <1>4, <1>5
<1>7. ASSUME NEW j \in 1..Len(u) PROVE u[j] = (t \o y)[j]
  <2>1. u[j] = more[i + j - 1] /\ j \in 1..(Len(t) + Len(y)) /\ i + j - 1 \in 1..Len(more)
    BY <1>1, <1>2, <1>3, <1>4
  <2> DEFINE e == i + j - 1
  <2>e. /\ e \in 1..Len(more)
        /\ e <= Len(z) <=> j <= Len(t)
        /\ e - Len(z) = j - Len(t)
        /\ j <= Len(t) => j \in 1..(Len(z) - i + 1)
    BY <2>1, <1>2, <1>4
  <2> HIDE DEF e
  <2>m. u[j] = more[e] /\ (j <= Len(t) => t[j] = z[e])
    BY <2>1, <2>e, <1>4 DEF e
  <2>n. more[e] = IF e <= Len(z) THEN z[e] ELSE y[e - Len(z)]
    BY <2>e, <1>1
  <2>o. (t \o y)[j] = IF j <= Len(t) THEN t[j] ELSE y[j - Len(t)]
    BY <2>1, <1>5
  <2>2. CASE j <= Len(t)
    BY <2>2, <2>e, <2>m, <2>n, <2>o
  <2>3. CASE ~(j <= Len(t))
    BY <2>3, <2>e, <2>m, <2>n, <2>o
  <2>4. QED
    BY <2>2, <2>3
<1>8. QED
  BY <1>3, <1>5, <1>6, <1>7, SeqEqual DEF u, t, more

JoinsAt(s, y) == process(s \o y) = Joined(process(s), process(process(s).pending \o y))

\* Two reads, the second with what the first has left pending, give what one
\* read of both would.
THEOREM ProcessJoins ==
  ASSUME NEW B, NEW z \in Seq(B), NEW y \in Seq(B)
  PROVE  JoinsAt(z, y)
<1> DEFINE T == {n \in Nat : \E s \in Seq(B) : Len(s) = n /\ ~JoinsAt(s, y)}
<1>1. ASSUME T # {} PROVE FALSE
  <2>1. PICK n \in T : \A k \in T : n <= k
    BY <1>1, LeastNatural
  <2>2. n \in Nat /\ \E s \in Seq(B) : Len(s) = n /\ ~JoinsAt(s, y)
    BY <2>1
  <2>3. PICK s \in Seq(B) : Len(s) = n /\ ~JoinsAt(s, y)
    BY <2>2
  <2>4. \A u \in Seq(B) : Len(u) < n => JoinsAt(u, y)
    <3>1. SUFFICES ASSUME NEW u \in Seq(B), Len(u) < n, ~JoinsAt(u, y) PROVE FALSE
      OBVIOUS
    <3>2. Len(u) \in T
      BY <3>1
    <3>3. n <= Len(u) /\ Len(u) \in Nat
      BY <3>2, <2>1
    <3>4. QED
      BY <3>1, <3>3, <2>2
  <2> HIDE DEF T
  <2>5. CASE s = <<>> \/ Matches(s).kind = "hold"
    <3>1. process(s) = Stopped(s)
      BY <2>5, ProcessStops
    <3>2. process(s).pending = s
      BY <3>1 DEF Stopped
    <3>3. s \o y \in Seq(B)
      BY ConcatProperties
    <3>4. process(s \o y) \in Results(B)
      BY <3>3, ProcessTypes
    <3>5. Joined(Stopped(s), process(s \o y)) = process(s \o y)
      BY <3>4, JoinStopped
    <3>6. QED
      BY <3>1, <3>2, <3>5, <2>3 DEF JoinsAt
  <2>6. CASE ~(s = <<>> \/ Matches(s).kind = "hold")
    <3> DEFINE m == Matches(s)
               u == Suffix(s, 1 + m.len)
               more == s \o y
    <3>1. s # <<>> /\ m.kind # "hold"
      BY <2>6
    <3>2. process(s) = Turned(m, s[1], process(u)) /\ m.len \in 1..Len(s)
      BY <3>1, ProcessTurns
    <3>3. u \in Seq(B) /\ Len(u) < Len(s)
      BY <3>1, TurnShrinks
    <3>4. process(u) \in Results(B)
      BY <3>3, ProcessTypes
    <3>5. m.kind = "title" => m.title \in Seq(B)
      <4>1. \/ m = Hold \/ m = Keep
            \/ m.kind = "drop" /\ m.len \in 1..Len(s)
            \/ m.kind = "query" /\ m.len \in 1..Len(s)
            \/ m.kind = "title" /\ m.len \in 1..Len(s) /\ m.title \in Seq(B)
        BY <3>1, MatchKinds
      <4> HIDE DEF m
      <4>2. QED
        BY <4>1, MatchShapes
    <3>6. s[1] \in B
      BY <3>1
    <3>7. more \in Seq(B) /\ more # <<>> /\ more[1] = s[1]
      <4>1. more \in Seq(B) /\ Len(more) = Len(s) + Len(y) /\ \A k \in 1..Len(s) : more[k] = s[k]
        BY ConcatProperties
      <4>2. Len(s) \in Nat /\ Len(s) >= 1 /\ Len(y) \in Nat
        BY <3>1
      <4> HIDE DEF more
      <4>3. QED
        BY <4>1, <4>2
    <3>8. Matches(more) = m
      BY <3>1, MatchStable
    <3>9. Suffix(more, 1 + m.len) = u \o y
      <4> HIDE DEF m
      <4>1. 1 + m.len \in 1..(Len(s) + 1)
        BY <3>2
      <4>2. QED
        BY <4>1, SuffixGrows
    <3>10. process(more) = Turned(m, s[1], process(u \o y))
      <4>1. Matches(more).kind # "hold"
        BY <3>1, <3>8
      <4>2. process(more) = Turned(Matches(more), more[1], process(Suffix(more, 1 + Matches(more).len)))
        BY <3>7, <4>1, ProcessTurns
      <4>3. QED
        BY <4>2, <3>7, <3>8, <3>9
    <3> DEFINE q == process(process(u).pending \o y)
    <3>11. q \in Results(B)
      <4>1. process(u).pending \in Seq(B)
        BY <3>4 DEF Results
      <4>2. process(u).pending \o y \in Seq(B)
        BY <4>1, ConcatProperties
      <4>3. QED
        BY <4>2, ProcessTypes
    <3>12. process(u \o y) = Joined(process(u), q)
      BY <3>3, <2>3, <2>4 DEF JoinsAt
    <3> HIDE DEF m, u, q, more
    <3>13. Turned(m, s[1], Joined(process(u), q)) = Joined(process(s), q)
      BY <3>2, <3>4, <3>5, <3>6, <3>11, TurnJoined
    <3>14. process(s).pending = process(u).pending
      BY <3>2, <3>4 DEF Turned, Results
    <3>15. JoinsAt(s, y)
      BY <3>10, <3>12, <3>13, <3>14 DEF JoinsAt, more, q
    <3>16. QED
      BY <3>15, <2>3
  <2>7. QED
    BY <2>5, <2>6
<1>2. Len(z) \in Nat
  OBVIOUS
<1>3. QED
  BY <1>1, <1>2

\* The function that FlattenSeq defines.
FlatOf(ws) == CHOOSE f : f = [i \in 1..Len(ws) |-> IF i = 1 THEN ws[i] ELSE f[i - 1] \o ws[i]]

LEMMA FlattenIsFlat ==
  ASSUME NEW ws, Len(ws) # 0
  PROVE  FlattenSeq(ws) = FlatOf(ws)[Len(ws)]
BY DEF FlattenSeq, FlatOf

LEMMA FlatUnfolds ==
  ASSUME NEW B, NEW ws \in Seq(Seq(B))
  PROVE  \A i \in 1..Len(ws) :
           FlatOf(ws)[i] = IF i = 1 THEN ws[i] ELSE FlatOf(ws)[i - 1] \o ws[i]
<1> DEFINE n == Len(ws)
           Body(f, i) == IF i = 1 THEN ws[i] ELSE f[i - 1] \o ws[i]
           Solves(g, k) == /\ g = [i \in 1..n |-> g[i]]
                           /\ \A i \in 1..k : g[i] = Body(g, i)
           T == {k \in 0..n : ~\E g : Solves(g, k)}
<1>1. n \in Nat
  OBVIOUS
<1> HIDE DEF n
<1>2. 0 \notin T
  <2> DEFINE e == [i \in 1..n |-> 0]
  <2>1. e = [i \in 1..n |-> e[i]]
    OBVIOUS
  <2> HIDE DEF e
  <2>2. Solves(e, 0)
    BY <2>1
  <2>3. QED
    BY <2>2
<1>3. ASSUME T # {} PROVE FALSE
  <2>1. T \subseteq Nat
    BY <1>1
  <2>2. PICK k \in T : \A j \in T : k <= j
    BY <1>3, <2>1, LeastNatural
  <2>3. k \in 1..n /\ ~\E g : Solves(g, k)
    BY <1>1, <1>2, <2>2
  <2>4. k - 1 \in 0..n /\ ~(k <= k - 1)
    BY <1>1, <2>3
  <2>5. \E g : Solves(g, k - 1)
    BY <2>2, <2>4
  <2>6. PICK g : Solves(g, k - 1)
    BY <2>5
  <2> DEFINE h == [i \in 1..n |-> IF i = k THEN Body(g, k) ELSE g[i]]
  <2>7. h = [i \in 1..n |-> h[i]]
    OBVIOUS
  <2>8. h[k] = Body(g, k) /\ \A i \in 1..n : i # k => h[i] = g[i]
    BY <2>3
  <2> HIDE DEF h
  <2>9. ASSUME NEW i \in 1..k PROVE h[i] = Body(h, i)
    <3>1. i # 1 => i - 1 \in 1..n /\ i - 1 # k
      BY <1>1, <2>3
    <3>2. Body(h, i) = Body(g, i)
      BY <3>1, <2>8
    <3>3. CASE i = k
      BY <3>2, <3>3, <2>8
    <3>4. CASE i # k
      <4>1. i \in 1..(k - 1) /\ i \in 1..n
        BY <3>4, <2>3, <1>1
      <4>2. g[i] = Body(g, i)
        BY <4>1, <2>6
      <4>3. QED
        BY <4>1, <4>2, <3>2, <3>4, <2>8
    <3>5. QED
      BY <3>3, <3>4
  <2>10. Solves(h, k)
    BY <2>7, <2>9
  <2>11. QED
    BY <2>3, <2>10
<1>4. PICK g : Solves(g, n)
  <2> HIDE DEF Solves
  <2>1. n \in 0..n
    BY <1>1
  <2>2. n \notin T
    <3> HIDE DEF T
    <3>1. QED
      BY <1>3
  <2>3. QED
    BY <2>1, <2>2
<1>5. g = [i \in 1..n |-> Body(g, i)]
  BY <1>4
<1>6. FlatOf(ws) = [i \in 1..n |-> Body(FlatOf(ws), i)]
  BY <1>5 DEF FlatOf, n
<1>7. \A f : f = [i \in 1..n |-> Body(FlatOf(ws), i)]
             => \A i \in 1..n : f[i] = Body(FlatOf(ws), i)
  OBVIOUS
<1>8. \A i \in 1..n : FlatOf(ws)[i] = Body(FlatOf(ws), i)
  BY <1>6, <1>7
<1>9. QED
  BY <1>8 DEF n

LEMMA FlatTypes ==
  ASSUME NEW B, NEW ws \in Seq(Seq(B))
  PROVE  \A i \in 1..Len(ws) : FlatOf(ws)[i] \in Seq(B)
<1> DEFINE T == {i \in 1..Len(ws) : FlatOf(ws)[i] \notin Seq(B)}
<1>1. Len(ws) \in Nat /\ \A i \in 1..Len(ws) : ws[i] \in Seq(B)
  OBVIOUS
<1>2. ASSUME T # {} PROVE FALSE
  <2>1. T \subseteq Nat
    BY <1>1
  <2>2. PICK k \in T : \A j \in T : k <= j
    BY <1>2, <2>1, LeastNatural
  <2>3. k \in 1..Len(ws) /\ FlatOf(ws)[k] \notin Seq(B)
    BY <2>2
  <2>4. FlatOf(ws)[k] = IF k = 1 THEN ws[k] ELSE FlatOf(ws)[k - 1] \o ws[k]
    BY <2>3, FlatUnfolds
  <2>5. k # 1
    BY <2>3, <2>4, <1>1
  <2>6. k - 1 \in 1..Len(ws) /\ ~(k <= k - 1)
    BY <2>3, <2>5, <1>1
  <2>7. FlatOf(ws)[k - 1] \in Seq(B)
    BY <2>2, <2>6
  <2>8. FlatOf(ws)[k - 1] \o ws[k] \in Seq(B)
    BY <2>3, <2>7, <1>1, ConcatProperties
  <2>9. QED
    BY <2>3, <2>4, <2>5, <2>8
<1>3. QED
  BY <1>2

\* Bytes that differ settle that neither is a prefix of the other.
LEMMA PrefixRefuted ==
  ASSUME NEW A, NEW B, NEW p \in Seq(A), NEW s \in Seq(B),
         NEW i \in 1..Len(p), i <= Len(s), s[i] # p[i]
  PROVE  ~IsPrefix(s, p) /\ ~IsPrefix(p, s)
<1>1. /\ IsPrefix(s, p) <=> Len(s) <= Len(p) /\ \A k \in 1..Len(s) : s[k] = p[k]
      /\ IsPrefix(p, s) <=> Len(p) <= Len(s) /\ \A k \in 1..Len(p) : p[k] = s[k]
  BY PrefixMeans
<1>2. Len(s) \in Nat /\ Len(p) \in Nat /\ i \in 1..Len(s)
  OBVIOUS
<1>3. QED
  BY <1>1, <1>2

\* Where the tests of process find nothing of theirs in what follows an index.
NothingToTake(w, j) ==
  \/ w[j] # "esc"
  \/ j + 1 <= Len(w) /\ w[j + 1] \notin {"[", "]"}
  \/ j + 2 <= Len(w) /\ w[j + 1] = "[" /\ w[j + 2] \notin {"6", "?"}
  \/ j + 3 <= Len(w) /\ w[j + 1] = "[" /\ w[j + 2] = "6" /\ w[j + 3] # "n"
  \/ j + 3 <= Len(w) /\ w[j + 1] = "[" /\ w[j + 2] = "?" /\ w[j + 3] \notin {"9001", "1004"}
  \/ j + 2 <= Len(w) /\ w[j + 1] = "]" /\ w[j + 2] \notin {"0", "2"}

LEMMA NothingTaken ==
  ASSUME NEW B, NEW s \in Seq(B), s # <<>>, NothingToTake(s, 1)
  PROVE  Matches(s) = Keep
<1>1. Len(s) \in Nat /\ Len(s) >= 1
  OBVIOUS
<1>2. /\ ~IsPrefix(s, CursorPositionQuery)
      /\ ~IsPrefix(CursorPositionQuery, s)
  <2>1. \E i \in 1..4 : i <= Len(s) /\ s[i] # CursorPositionQuery[i]
    BY <1>1, QueryBytes DEF NothingToTake
  <2>2. QED
    BY <2>1, QueryBytes, PrefixRefuted
<1>3. split_prefixed_control_sequence(s, Win32InputModePrefix) = Keep
  <2>1. \E i \in 1..4 : i <= Len(s) /\ s[i] # Win32InputModePrefix[i]
    BY <1>1, Win32Bytes DEF NothingToTake
  <2>2. ~IsPrefix(s, Win32InputModePrefix) /\ ~IsPrefix(Win32InputModePrefix, s)
    BY <2>1, Win32Bytes, PrefixRefuted
  <2>3. QED
    BY <2>2 DEF split_prefixed_control_sequence
<1>4. split_prefixed_control_sequence(s, FocusEventModePrefix) = Keep
  <2>1. \E i \in 1..4 : i <= Len(s) /\ s[i] # FocusEventModePrefix[i]
    BY <1>1, FocusBytes DEF NothingToTake
  <2>2. ~IsPrefix(s, FocusEventModePrefix) /\ ~IsPrefix(FocusEventModePrefix, s)
    BY <2>1, FocusBytes, PrefixRefuted
  <2>3. QED
    BY <2>2 DEF split_prefixed_control_sequence
<1>5. split_osc_title_sequence(s) = Keep
  <2>1. CASE \E i \in 1..2 : i <= Len(s) /\ s[i] # OscPrefix[i]
    <3>1. ~IsPrefix(s, OscPrefix) /\ ~IsPrefix(OscPrefix, s)
      BY <2>1, OscBytes, PrefixRefuted
    <3>2. QED
      BY <3>1 DEF split_osc_title_sequence
  <2>2. CASE ~\E i \in 1..2 : i <= Len(s) /\ s[i] # OscPrefix[i]
    <3>1. Len(s) >= 3 /\ s[3] \notin {"0", "2"}
      BY <2>2, <1>1, OscBytes DEF NothingToTake
    <3>2. IsPrefix(s, OscPrefix) => Len(s) <= Len(OscPrefix)
      BY DEF IsPrefix
    <3>3. ~IsPrefix(s, OscPrefix)
      BY <3>1, <3>2, <1>1, OscBytes
    <3>4. QED
      BY <3>1, <3>3 DEF split_osc_title_sequence
  <2>3. QED
    BY <2>1, <2>2
<1>6. Keep.kind = "keep"
  BY DEF Keep
<1>7. QED
  BY <1>2, <1>3, <1>4, <1>5, <1>6 DEF Matches

Passed(w) == [out |-> w, queries |-> 0, titles |-> <<>>, pending |-> <<>>]
PassedOn(s) == \A j \in 1..Len(s) : NothingToTake(s, j)

\* The tests at an index see the bytes from there on.
LEMMA NothingInSuffix ==
  ASSUME NEW B, NEW s \in Seq(B), NEW i \in 1..Len(s), PassedOn(s)
  PROVE  /\ Suffix(s, i) \in Seq(B)
         /\ Len(Suffix(s, i)) = Len(s) - i + 1
         /\ PassedOn(Suffix(s, i))
<1> DEFINE u == Suffix(s, i)
<1>1. Len(s) \in Nat
  OBVIOUS
<1>2. /\ u \in Seq(B)
      /\ Len(u) = Len(s) - i + 1
      /\ \A j \in 1..(Len(s) - i + 1) : u[j] = s[i + j - 1]
  BY Slice DEF Suffix
<1> HIDE DEF u
<1>3. ASSUME NEW j \in 1..Len(u) PROVE NothingToTake(u, j)
  <2> DEFINE k == i + j - 1
  <2>1. k \in 1..Len(s)
    BY <1>1, <1>2
  <2>2. /\ j + 1 <= Len(u) <=> k + 1 <= Len(s)
        /\ j + 2 <= Len(u) <=> k + 2 <= Len(s)
        /\ j + 3 <= Len(u) <=> k + 3 <= Len(s)
    BY <1>1, <1>2
  <2>3. /\ u[j] = s[k]
        /\ j + 1 <= Len(u) => u[j + 1] = s[k + 1]
        /\ j + 2 <= Len(u) => u[j + 2] = s[k + 2]
        /\ j + 3 <= Len(u) => u[j + 3] = s[k + 3]
    <3>1. \A x \in 0..3 : j + x <= Len(u) => u[j + x] = s[k + x]
      <4>1. ASSUME NEW x \in 0..3, j + x <= Len(u) PROVE u[j + x] = s[k + x]
        <5>1. j + x \in 1..(Len(s) - i + 1) /\ i + (j + x) - 1 = k + x
          BY <4>1, <1>1, <1>2
        <5>2. u[j + x] = s[i + (j + x) - 1]
          BY <5>1, <1>2
        <5>3. QED
          BY <5>1, <5>2
      <4>2. QED
        BY <4>1
    <3>2. j + 0 = j /\ k + 0 = k /\ j <= Len(u)
      BY <1>1, <1>2, <2>1
    <3> HIDE DEF k
    <3>3. QED
      BY <3>1, <3>2
  <2>4. NothingToTake(s, k)
    BY <2>1 DEF PassedOn
  <2> HIDE DEF k
  <2>5. QED
    BY <2>2, <2>3, <2>4 DEF NothingToTake
<1>4. QED
  BY <1>2, <1>3 DEF PassedOn, u

\* Bytes in which there is nothing to take are passed on as they are.
LEMMA PassedUnchanged ==
  ASSUME NEW B, NEW z \in Seq(B), PassedOn(z)
  PROVE  process(z) = Passed(z)
<1> DEFINE T == {n \in Nat : \E s \in Seq(B) : Len(s) = n /\ PassedOn(s) /\ process(s) # Passed(s)}
<1>1. ASSUME T # {} PROVE FALSE
  <2>1. PICK n \in T : \A k \in T : n <= k
    BY <1>1, LeastNatural
  <2>2. n \in Nat /\ \E s \in Seq(B) : Len(s) = n /\ PassedOn(s) /\ process(s) # Passed(s)
    BY <2>1
  <2>3. PICK s \in Seq(B) : Len(s) = n /\ PassedOn(s) /\ process(s) # Passed(s)
    BY <2>2
  <2>4. \A u \in Seq(B) : Len(u) < n /\ PassedOn(u) => process(u) = Passed(u)
    <3>1. SUFFICES ASSUME NEW u \in Seq(B), Len(u) < n, PassedOn(u), process(u) # Passed(u) PROVE FALSE
      OBVIOUS
    <3>2. Len(u) \in T
      BY <3>1
    <3>3. n <= Len(u) /\ Len(u) \in Nat
      BY <3>2, <2>1
    <3>4. QED
      BY <3>1, <3>3, <2>2
  <2> HIDE DEF T
  <2>5. CASE s = <<>>
    <3>1. process(s) = Stopped(s)
      BY <2>5, ProcessStops
    <3>2. QED
      BY <3>1, <2>3, <2>5 DEF Stopped, Passed
  <2>6. CASE s # <<>>
    <3>1. Len(s) \in Nat /\ 1 \in 1..Len(s)
      BY <2>6
    <3>2. Matches(s) = Keep
      BY <2>3, <2>6, <3>1, NothingTaken DEF PassedOn
    <3>3. Keep.kind = "keep" /\ Keep.len = 1 /\ 1 + Keep.len = 2
      BY DEF Keep
    <3> DEFINE u == Suffix(s, 2)
    <3>4. process(s) = Turned(Keep, s[1], process(u))
      BY <2>6, <3>2, <3>3, ProcessTurns
    <3>5. s = <<s[1]>> \o u
      <4>1. s = SubSeq(s, 1, Len(s))
        BY SubSeqFull
      <4>2. Len(s) \in 1..Len(s) /\ 1 + 1 = 2
        BY <3>1
      <4>3. SubSeq(s, 1, Len(s)) = <<s[1]>> \o SubSeq(s, 1 + 1, Len(s))
        BY <3>1, <4>2, SubSeqRecursiveFirst
      <4>4. QED
        BY <4>1, <4>2, <4>3 DEF Suffix
    <3>6. process(u) = Passed(u)
      <4>1. CASE Len(s) = 1
        <5>1. u = <<>>
          BY <4>1, SubSeqEmpty DEF Suffix
        <5>2. process(u) = Stopped(u)
          BY <5>1, ProcessStops, EmptySeq
        <5>3. QED
          BY <5>1, <5>2 DEF Stopped, Passed
      <4>2. CASE Len(s) # 1
        <5>1. 2 \in 1..Len(s)
          <6>1. \A x \in Nat : 1 \in 1..x /\ x # 1 => 2 \in 1..x
            OBVIOUS
          <6>2. QED
            BY <3>1, <4>2, <6>1, Zenon
        <5>2. u \in Seq(B) /\ Len(u) = Len(s) - 2 + 1 /\ PassedOn(u)
          BY <5>1, <2>3, NothingInSuffix
        <5> HIDE DEF u
        <5>3. Len(u) < n
          BY <3>1, <5>2, <2>3, <2>2
        <5>4. QED
          BY <5>2, <5>3, <2>4
      <4>3. QED
        BY <4>1, <4>2
    <3> HIDE DEF u
    <3>7. Turned(Keep, s[1], Passed(u)) = Passed(<<s[1]>> \o u)
      BY <3>3 DEF Turned, Passed
    <3>8. QED
      BY <3>4, <3>5, <3>6, <3>7, <2>3
  <2>7. QED
    BY <2>5, <2>6
<1>2. Len(z) \in Nat
  OBVIOUS
<1>3. QED
  BY <1>1, <1>2

Byte ==
  {"a", "cr", "u1", "u2", "esc", "[", "0", "m", "?", "1",
   "h", "]", "8", "semi", "\\", "P", "nl", "tab", "semi95", "22",
   "38", "semi5", "semi200", "semi300", "48", ":2", ":1", ":3", "7", "l",
   "1049", "semi2004", "1002", "(", "65535", "B", "6", "semi7", "H", "n",
   "9001", "1004", "bel", "2"}

PlainWord(w) == w \in Seq(Byte) /\ Len(w) >= 1 /\ PassedOn(w)

\* In the words that are kept there is nothing to take.
LEMMA KeptWordsPlain == \A w \in KeptWords \cup StateWords : PlainWord(w)
<1>1. PlainWord(<<"a">>)
  BY DEF PlainWord, Byte, PassedOn, NothingToTake
<1>2. PlainWord(<<"cr">>)
  BY DEF PlainWord, Byte, PassedOn, NothingToTake
<1>3. PlainWord(<<"u1", "u2">>)
  BY DEF PlainWord, Byte, PassedOn, NothingToTake
<1>4. PlainWord(<<"esc", "[", "0", "m">>)
  BY DEF PlainWord, Byte, PassedOn, NothingToTake
<1>5. PlainWord(<<"esc", "[", "?", "1", "h">>)
  BY DEF PlainWord, Byte, PassedOn, NothingToTake
<1>6. PlainWord(<<"esc", "]", "8", "semi", "esc", "\\">>)
  BY DEF PlainWord, Byte, PassedOn, NothingToTake
<1>7. PlainWord(<<"esc", "P", "a", "esc", "\\">>)
  BY DEF PlainWord, Byte, PassedOn, NothingToTake
<1>8. PlainWord(<<"nl">>)
  BY DEF PlainWord, Byte, PassedOn, NothingToTake
<1>9. PlainWord(<<"tab">>)
  BY DEF PlainWord, Byte, PassedOn, NothingToTake
<1>10. PlainWord(<<"esc", "[", "1", "semi95", "m">>)
  BY DEF PlainWord, Byte, PassedOn, NothingToTake
<1>11. PlainWord(<<"esc", "[", "22", "m">>)
  BY DEF PlainWord, Byte, PassedOn, NothingToTake
<1>12. PlainWord(<<"esc", "[", "38", "semi5", "semi200", "m">>)
  BY DEF PlainWord, Byte, PassedOn, NothingToTake
<1>13. PlainWord(<<"esc", "[", "38", "semi5", "semi300", "m">>)
  BY DEF PlainWord, Byte, PassedOn, NothingToTake
<1>14. PlainWord(<<"esc", "[", "48", ":2", ":1", ":2", ":3", "m">>)
  BY DEF PlainWord, Byte, PassedOn, NothingToTake
<1>15. PlainWord(<<"esc", "[", "?", "7", "l">>)
  BY DEF PlainWord, Byte, PassedOn, NothingToTake
<1>16. PlainWord(<<"esc", "[", "?", "1049", "semi2004", "h">>)
  BY DEF PlainWord, Byte, PassedOn, NothingToTake
<1>17. PlainWord(<<"esc", "[", "?", "1002", "h">>)
  BY DEF PlainWord, Byte, PassedOn, NothingToTake
<1>18. PlainWord(<<"esc", "(", "0">>)
  BY DEF PlainWord, Byte, PassedOn, NothingToTake
<1>19. PlainWord(<<"esc", "[", "65535", "B">>)
  BY DEF PlainWord, Byte, PassedOn, NothingToTake
<1>20. PlainWord(<<"esc", "[", "6", "semi7", "H">>)
  BY DEF PlainWord, Byte, PassedOn, NothingToTake
<1>21. QED
  BY <1>1, <1>2, <1>3, <1>4, <1>5, <1>6, <1>7, <1>8, <1>9, <1>10, <1>11, <1>12, <1>13, <1>14, <1>15, <1>16, <1>17, <1>18, <1>19, <1>20 DEF KeptWords, StateWords

\* A word that process takes out as soon as it is complete.
Vanishes(w) == w \in Seq(Byte) /\ Len(w) >= 1 /\ process(w).out = <<>> /\ process(w).pending = <<>>

LEMMA WholeTaken ==
  ASSUME NEW w \in Seq(Byte), w # <<>>, Matches(w).kind \in {"drop", "title"},
         Matches(w).len = Len(w)
  PROVE  Vanishes(w)
<1>1. process(w) = Turned(Matches(w), w[1], process(Suffix(w, 1 + Len(w))))
  BY ProcessTurns
<1>2. Len(w) \in Nat /\ Len(w) >= 1
  OBVIOUS
<1>3. Suffix(w, 1 + Len(w)) = <<>>
  BY <1>2, SubSeqEmpty DEF Suffix
<1>4. process(<<>>) = Stopped(<<>>)
  BY ProcessStops, EmptySeq
<1>5. process(w) = Turned(Matches(w), w[1], Stopped(<<>>))
  BY <1>1, <1>3, <1>4
<1>6. process(w).out = <<>> /\ process(w).pending = <<>>
  BY <1>5 DEF Turned, Stopped
<1>7. QED
  BY <1>2, <1>6 DEF Vanishes

LEMMA Win32Vanishes == Vanishes(<<"esc", "[", "?", "9001", "h">>)
<1> DEFINE w == <<"esc", "[", "?", "9001", "h">>
<1>1. /\ w \in Seq(Byte) /\ w # <<>> /\ Len(w) = 5
      /\ w[1] = "esc" /\ w[2] = "[" /\ w[3] = "?" /\ w[4] = "9001" /\ w[5] = "h"
  BY DEF Byte
<1> HIDE DEF w
<1>2. ~IsPrefix(w, CursorPositionQuery) /\ ~IsPrefix(CursorPositionQuery, w)
  <2>1. 3 \in 1..4 /\ 3 <= Len(w) /\ w[3] # CursorPositionQuery[3]
    BY <1>1, QueryBytes
  <2>2. QED
    BY <1>1, <2>1, QueryBytes, PrefixRefuted
<1>3. ~IsPrefix(w, Win32InputModePrefix) /\ IsPrefix(Win32InputModePrefix, w)
  <2>1. /\ IsPrefix(w, Win32InputModePrefix) => Len(w) <= Len(Win32InputModePrefix)
    BY DEF IsPrefix
  <2>2. IsPrefix(Win32InputModePrefix, w)
          <=> Len(Win32InputModePrefix) <= Len(w)
              /\ \A i \in 1..Len(Win32InputModePrefix) : Win32InputModePrefix[i] = w[i]
    BY <1>1, Win32Bytes, PrefixMeans
  <2>3. QED
    BY <1>1, <2>1, <2>2, Win32Bytes
<1>4. split_prefixed_control_sequence(w, Win32InputModePrefix) = Drop(5)
  BY <1>1, <1>3, Win32Bytes DEF split_prefixed_control_sequence
<1>5. Matches(w) = Drop(5)
  BY <1>2, <1>4, MatchShapes DEF Matches
<1>6. QED
  BY <1>1, <1>5, MatchShapes, WholeTaken DEF w

LEMMA FocusVanishes == Vanishes(<<"esc", "[", "?", "1004", "l">>)
<1> DEFINE w == <<"esc", "[", "?", "1004", "l">>
<1>1. /\ w \in Seq(Byte) /\ w # <<>> /\ Len(w) = 5
      /\ w[1] = "esc" /\ w[2] = "[" /\ w[3] = "?" /\ w[4] = "1004" /\ w[5] = "l"
  BY DEF Byte
<1> HIDE DEF w
<1>2. ~IsPrefix(w, CursorPositionQuery) /\ ~IsPrefix(CursorPositionQuery, w)
  <2>1. 3 \in 1..4 /\ 3 <= Len(w) /\ w[3] # CursorPositionQuery[3]
    BY <1>1, QueryBytes
  <2>2. QED
    BY <1>1, <2>1, QueryBytes, PrefixRefuted
<1>3. ~IsPrefix(w, FocusEventModePrefix) /\ IsPrefix(FocusEventModePrefix, w)
  <2>1. /\ IsPrefix(w, FocusEventModePrefix) => Len(w) <= Len(FocusEventModePrefix)
    BY DEF IsPrefix
  <2>2. IsPrefix(FocusEventModePrefix, w)
          <=> Len(FocusEventModePrefix) <= Len(w)
              /\ \A i \in 1..Len(FocusEventModePrefix) : FocusEventModePrefix[i] = w[i]
    BY <1>1, FocusBytes, PrefixMeans
  <2>3. QED
    BY <1>1, <2>1, <2>2, FocusBytes
<1>4. split_prefixed_control_sequence(w, FocusEventModePrefix) = Drop(5)
  BY <1>1, <1>3, FocusBytes DEF split_prefixed_control_sequence
<1>5. split_prefixed_control_sequence(w, Win32InputModePrefix) = Keep
  <2>1. 4 \in 1..4 /\ 4 <= Len(w) /\ w[4] # Win32InputModePrefix[4]
    BY <1>1, Win32Bytes
  <2>2. ~IsPrefix(w, Win32InputModePrefix) /\ ~IsPrefix(Win32InputModePrefix, w)
    BY <1>1, <2>1, Win32Bytes, PrefixRefuted
  <2>3. QED
    BY <2>2 DEF split_prefixed_control_sequence
<1>6. Matches(w) = Drop(5)
  BY <1>2, <1>4, <1>5, MatchShapes DEF Matches
<1>7. QED
  BY <1>1, <1>6, MatchShapes, WholeTaken DEF w

\* A title: its head, and a text whose first terminator ends the word.
LEMMA TitleVanishes ==
  ASSUME NEW w \in Seq(Byte), NEW k \in Nat, Len(w) >= 6,
         w[1] = "esc", w[2] = "]", w[3] \in {"0", "2"}, w[4] = "semi",
         \/ w[Len(w)] = "bel" /\ k = Len(w) - 4
         \/ w[Len(w)] = "\\" /\ w[Len(w) - 1] = "esc" /\ k = Len(w) - 5,
         \A j \in 5..(3 + k) : w[j] \notin {"bel", "esc"}
  PROVE  Vanishes(w)
<1> DEFINE text == SubSeq(w, 5, Len(w))
<1>1. Len(w) \in Nat /\ w # <<>>
  OBVIOUS
<1>2. /\ text \in Seq(Byte)
      /\ Len(text) = Len(w) - 4
      /\ \A j \in 1..(Len(w) - 4) : text[j] = w[4 + j]
  <2>1. 5 \in 1..(Len(w) + 1)
    BY <1>1
  <2>2. /\ text \in Seq(Byte)
        /\ Len(text) = Len(w) - 5 + 1
        /\ \A j \in 1..(Len(w) - 5 + 1) : text[j] = w[5 + j - 1]
    BY <2>1, Slice
  <2> HIDE DEF text
  <2>3. QED
    BY <1>1, <2>2
<1> HIDE DEF text
<1>3. k \in 1..Len(text) /\ k \in find_osc_terminator(text)
  <2>1. k \in 1..Len(text) /\ DOMAIN text = 1..Len(text) /\ text[k] = w[4 + k]
    BY <1>1, <1>2
  <2>2. CASE w[Len(w)] = "bel" /\ k = Len(w) - 4
    <3>1. 4 + k = Len(w)
      BY <1>1, <2>2
    <3>2. QED
      BY <2>1, <2>2, <3>1 DEF find_osc_terminator
  <2>3. CASE w[Len(w)] = "\\" /\ w[Len(w) - 1] = "esc" /\ k = Len(w) - 5
    <3>1. 4 + k = Len(w) - 1 /\ k + 1 \in 1..(Len(w) - 4) /\ 4 + (k + 1) = Len(w) /\ k < Len(text)
      BY <1>1, <1>2, <2>3
    <3>2. text[k + 1] = "\\" /\ text[k] = "esc"
      BY <1>2, <2>1, <2>3, <3>1
    <3>3. QED
      BY <2>1, <3>1, <3>2 DEF find_osc_terminator
  <2>4. QED
    BY <2>2, <2>3
<1>4. \A j \in find_osc_terminator(text) : ~(j < k)
  <2>1. SUFFICES ASSUME NEW j \in find_osc_terminator(text), j < k PROVE FALSE
    OBVIOUS
  <2>2. j \in 1..Len(text) /\ text[j] \in {"bel", "esc"}
    BY <1>2 DEF find_osc_terminator
  <2>3. 4 + j \in 5..(3 + k) /\ text[j] = w[4 + j]
    BY <1>1, <1>2, <1>3, <2>1, <2>2
  <2>4. QED
    BY <2>2, <2>3
<1>5. FirstTerminator(text) = k
  <2> DEFINE f == FirstTerminator(text)
  <2>1. find_osc_terminator(text) # {}
    BY <1>3
  <2>2. f \in 1..Len(text) /\ f \in find_osc_terminator(text) /\ \A j \in find_osc_terminator(text) : f <= j
    BY <1>2, <2>1, TerminatorFound
  <2> HIDE DEF f
  <2>3. f <= k /\ ~(f < k)
    BY <1>3, <1>4, <2>2
  <2>4. f = k
    BY <1>1, <1>2, <2>2, <2>3
  <2>5. QED
    BY <2>4 DEF f
<1>6. ~IsPrefix(w, OscPrefix) /\ IsPrefix(OscPrefix, w)
  <2>1. IsPrefix(w, OscPrefix) => Len(w) <= Len(OscPrefix)
    BY DEF IsPrefix
  <2>2. IsPrefix(OscPrefix, w)
          <=> Len(OscPrefix) <= Len(w) /\ \A i \in 1..Len(OscPrefix) : OscPrefix[i] = w[i]
    BY OscBytes, PrefixMeans
  <2>3. QED
    BY <1>1, <2>1, <2>2, OscBytes
<1> DEFINE t == [kind  |-> "title",
                 len   |-> 4 + k + (IF text[k] = "bel" THEN 0 ELSE 1),
                 title |-> SubSeq(text, 1, k - 1)]
<1>7. split_osc_title_sequence(w) = t
  <2>1. split_osc_title_sequence(w) =
               IF IsPrefix(w, OscPrefix) THEN Hold
               ELSE IF ~IsPrefix(OscPrefix, w) \/ w[3] \notin {"0", "2"} THEN Keep
               ELSE IF Len(w) = 3 THEN Hold
               ELSE IF w[4] # "semi" THEN Keep
               ELSE IF find_osc_terminator(text) = {} THEN Hold
               ELSE t
    BY <1>5, TitleTests DEF text
  <2>2. Len(w) # 3 /\ find_osc_terminator(text) # {}
    BY <1>1, <1>3
  <2> HIDE DEF t
  <2>3. QED
    BY <1>6, <2>1, <2>2
<1>8. t.kind = "title" /\ t.len = Len(w)
  <2>1. text[k] = "bel" => 4 + k = Len(w)
    BY <1>1, <1>2, <1>3
  <2>2. text[k] # "bel" => 4 + k + 1 = Len(w)
    BY <1>1, <1>2, <1>3
  <2>3. QED
    BY <1>1, <2>1, <2>2
<1> HIDE DEF t
<1>9. Matches(w) = t
  <2>1. ~IsPrefix(w, CursorPositionQuery) /\ ~IsPrefix(CursorPositionQuery, w)
    <3>1. 2 \in 1..4 /\ 2 <= Len(w) /\ w[2] # CursorPositionQuery[2]
      BY <1>1, QueryBytes
    <3>2. QED
      BY <3>1, QueryBytes, PrefixRefuted
  <2>2. split_prefixed_control_sequence(w, Win32InputModePrefix) = Keep
    <3>1. 2 \in 1..4 /\ 2 <= Len(w) /\ w[2] # Win32InputModePrefix[2]
      BY <1>1, Win32Bytes
    <3>2. ~IsPrefix(w, Win32InputModePrefix) /\ ~IsPrefix(Win32InputModePrefix, w)
      BY <3>1, Win32Bytes, PrefixRefuted
    <3>3. QED
      BY <3>2 DEF split_prefixed_control_sequence
  <2>3. split_prefixed_control_sequence(w, FocusEventModePrefix) = Keep
    <3>1. 2 \in 1..4 /\ 2 <= Len(w) /\ w[2] # FocusEventModePrefix[2]
      BY <1>1, FocusBytes
    <3>2. ~IsPrefix(w, FocusEventModePrefix) /\ ~IsPrefix(FocusEventModePrefix, w)
      BY <3>1, FocusBytes, PrefixRefuted
    <3>3. QED
      BY <3>2 DEF split_prefixed_control_sequence
  <2>4. QED
    BY <1>7, <2>1, <2>2, <2>3, MatchShapes DEF Matches
<1>10. QED
  BY <1>1, <1>8, <1>9, WholeTaken

LEMMA BelTitleVanishes == Vanishes(<<"esc", "]", "0", "semi", "a", "bel">>)
<1> DEFINE w == <<"esc", "]", "0", "semi", "a", "bel">>
<1>1. /\ w \in Seq(Byte) /\ Len(w) = 6
      /\ w[1] = "esc" /\ w[2] = "]" /\ w[3] = "0" /\ w[4] = "semi" /\ w[5] = "a" /\ w[6] = "bel"
  BY DEF Byte
<1> HIDE DEF w
<1>2. \A j \in 5..(3 + 2) : w[j] \notin {"bel", "esc"}
  BY <1>1
<1>3. Vanishes(w)
  <2>1. Len(w) >= 6 /\ 2 = Len(w) - 4 /\ 2 \in Nat /\ w[Len(w)] = "bel" /\ w[3] \in {"0", "2"}
    BY <1>1
  <2>2. QED
    BY <1>1, <1>2, <2>1, TitleVanishes
<1>4. QED
  BY <1>3 DEF w

LEMMA StTitleVanishes == Vanishes(<<"esc", "]", "2", "semi", "u1", "u2", "esc", "\\">>)
<1> DEFINE w == <<"esc", "]", "2", "semi", "u1", "u2", "esc", "\\">>
<1>1. /\ w \in Seq(Byte) /\ Len(w) = 8
      /\ w[1] = "esc" /\ w[2] = "]" /\ w[3] = "2" /\ w[4] = "semi" /\ w[5] = "u1" /\ w[6] = "u2"
      /\ w[7] = "esc" /\ w[8] = "\\"
  BY DEF Byte
<1> HIDE DEF w
<1>2. \A j \in 5..(3 + 3) : w[j] \notin {"bel", "esc"}
  BY <1>1
<1>3. Vanishes(w)
  <2>1. /\ Len(w) >= 6 /\ 3 = Len(w) - 5 /\ 3 \in Nat /\ w[Len(w)] = "\\" /\ w[Len(w) - 1] = "esc"
        /\ w[3] \in {"0", "2"}
    BY <1>1
  <2>2. QED
    BY <1>1, <1>2, <2>1, TitleVanishes
<1>4. QED
  BY <1>3 DEF w

AllWords == KeptWords \cup StrippedWords \cup StateWords

LEMMA StrippedAre ==
  StrippedWords = {CursorPositionQuery,
                   <<"esc", "[", "?", "9001", "h">>,
                   <<"esc", "[", "?", "1004", "l">>,
                   <<"esc", "]", "0", "semi", "a", "bel">>,
                   <<"esc", "]", "2", "semi", "u1", "u2", "esc", "\\">>}
<1>1. Win32InputModePrefix \o <<"h">> = <<"esc", "[", "?", "9001", "h">>
  <2> DEFINE p == Win32InputModePrefix
             e == <<"h">>
             w == <<"esc", "[", "?", "9001", "h">>
  <2>1. p \in Seq(Byte) /\ Len(p) = 4
    BY DEF Win32InputModePrefix, Byte
  <2>2. p[1] = "esc" /\ p[2] = "[" /\ p[3] = "?" /\ p[4] = "9001"
    BY Win32Bytes
  <2>3. e \in Seq(Byte) /\ Len(e) = 1 /\ e[1] = "h"
    BY DEF Byte
  <2>4. /\ w \in Seq(Byte) /\ Len(w) = 5
        /\ w[1] = "esc" /\ w[2] = "[" /\ w[3] = "?" /\ w[4] = "9001" /\ w[5] = "h"
    BY DEF Byte
  <2> HIDE DEF p, e, w
  <2>5. /\ p \o e \in Seq(Byte) /\ Len(p \o e) = 5
        /\ \A i \in 1..5 : (p \o e)[i] = IF i <= 4 THEN p[i] ELSE e[i - 4]
    <3>1. /\ p \o e \in Seq(Byte) /\ Len(p \o e) = Len(p) + Len(e)
          /\ \A i \in 1..(Len(p) + Len(e)) : (p \o e)[i] = IF i <= Len(p) THEN p[i] ELSE e[i - Len(p)]
      BY <2>1, <2>3, ConcatProperties
    <3>2. QED
      BY <2>1, <2>3, <3>1
  <2>6. \A i \in 1..5 : (p \o e)[i] = w[i]
    BY <2>2, <2>3, <2>4, <2>5
  <2>7. p \o e = w
    BY <2>4, <2>5, <2>6, SeqEqual
  <2>8. QED
    BY <2>7 DEF p, e, w
<1>2. FocusEventModePrefix \o <<"l">> = <<"esc", "[", "?", "1004", "l">>
  <2> DEFINE p == FocusEventModePrefix
             e == <<"l">>
             w == <<"esc", "[", "?", "1004", "l">>
  <2>1. p \in Seq(Byte) /\ Len(p) = 4
    BY DEF FocusEventModePrefix, Byte
  <2>2. p[1] = "esc" /\ p[2] = "[" /\ p[3] = "?" /\ p[4] = "1004"
    BY FocusBytes
  <2>3. e \in Seq(Byte) /\ Len(e) = 1 /\ e[1] = "l"
    BY DEF Byte
  <2>4. /\ w \in Seq(Byte) /\ Len(w) = 5
        /\ w[1] = "esc" /\ w[2] = "[" /\ w[3] = "?" /\ w[4] = "1004" /\ w[5] = "l"
    BY DEF Byte
  <2> HIDE DEF p, e, w
  <2>5. /\ p \o e \in Seq(Byte) /\ Len(p \o e) = 5
        /\ \A i \in 1..5 : (p \o e)[i] = IF i <= 4 THEN p[i] ELSE e[i - 4]
    <3>1. /\ p \o e \in Seq(Byte) /\ Len(p \o e) = Len(p) + Len(e)
          /\ \A i \in 1..(Len(p) + Len(e)) : (p \o e)[i] = IF i <= Len(p) THEN p[i] ELSE e[i - Len(p)]
      BY <2>1, <2>3, ConcatProperties
    <3>2. QED
      BY <2>1, <2>3, <3>1
  <2>6. \A i \in 1..5 : (p \o e)[i] = w[i]
    BY <2>2, <2>3, <2>4, <2>5
  <2>7. p \o e = w
    BY <2>4, <2>5, <2>6, SeqEqual
  <2>8. QED
    BY <2>7 DEF p, e, w
<1>3. QED
  BY <1>1, <1>2 DEF StrippedWords

\* The query on its own is held back.
LEMMA QueryHeld ==
  /\ CursorPositionQuery \in Seq(Byte)
  /\ process(CursorPositionQuery) = Stopped(CursorPositionQuery)
<1>1. CursorPositionQuery \in Seq(Byte)
  BY DEF CursorPositionQuery, Byte
<1>2. IsPrefix(CursorPositionQuery, CursorPositionQuery)
  BY <1>1, PrefixMeans, QueryBytes
<1>3. Matches(CursorPositionQuery).kind = "hold"
  BY <1>2, MatchShapes DEF Matches
<1>4. QED
  BY <1>1, <1>3, ProcessStops

Filtered(w) == IF w \in StrippedWords THEN <<>> ELSE w
Leftovers == {<<>>, CursorPositionQuery}

\* What process makes of one word.
LEMMA WordFiltered ==
  ASSUME NEW w \in AllWords
  PROVE  /\ w \in Seq(Byte)
         /\ Len(w) >= 1
         /\ process(w).out = Filtered(w)
         /\ process(w).pending \in Leftovers
<1>1. ASSUME NEW v \in StrippedWords
      PROVE  /\ v \in Seq(Byte) /\ Len(v) >= 1 /\ process(v).out = <<>>
             /\ process(v).pending \in Leftovers
  <2>1. CASE v = CursorPositionQuery
    BY <2>1, QueryHeld, QueryBytes DEF Stopped, Leftovers
  <2>2. CASE v # CursorPositionQuery
    <3>1. Vanishes(v)
      BY <2>2, StrippedAre, Win32Vanishes, FocusVanishes, BelTitleVanishes, StTitleVanishes
    <3>2. QED
      BY <3>1 DEF Vanishes, Leftovers
  <2>3. QED
    BY <2>1, <2>2
<1>2. CASE w \in StrippedWords
  BY <1>1, <1>2 DEF Filtered
<1>3. CASE w \notin StrippedWords
  <2>1. PlainWord(w)
    BY <1>3, KeptWordsPlain DEF AllWords
  <2>2. w \in Seq(Byte) /\ Len(w) >= 1 /\ process(w) = Passed(w)
    BY <2>1, PassedUnchanged DEF PlainWord
  <2>3. QED
    BY <1>3, <2>2 DEF Passed, Filtered, Leftovers
<1>4. QED
  BY <1>2, <1>3

\* A query that was held back is taken out when the next word comes.
LEMMA QueryTaken ==
  ASSUME NEW w \in Seq(Byte), Len(w) >= 1
  PROVE  /\ process(CursorPositionQuery \o w).out = process(w).out
         /\ process(CursorPositionQuery \o w).pending = process(w).pending
<1> DEFINE q == CursorPositionQuery
           z == q \o w
           m == [kind |-> "query", len |-> Len(CursorPositionQuery), title |-> <<>>]
<1>1. q \in Seq(Byte) /\ Len(q) = 4
  BY QueryHeld, QueryBytes
<1> HIDE DEF q
<1>2. z \in Seq(Byte) /\ Len(z) = 4 + Len(w) /\ (\A i \in 1..4 : z[i] = q[i])
  <2>1. /\ q \o w \in Seq(Byte) /\ Len(q \o w) = Len(q) + Len(w)
        /\ \A i \in 1..(Len(q) + Len(w)) : (q \o w)[i] = IF i <= Len(q) THEN q[i] ELSE w[i - Len(q)]
    BY <1>1, ConcatProperties
  <2>2. Len(w) \in Nat
    OBVIOUS
  <2>3. QED
    BY <1>1, <2>1, <2>2
<1>3. Suffix(z, 5) = w
  <2>1. 5 \in 1..(Len(q) + 1)
    BY <1>1
  <2>2. Suffix(z, 5) = Suffix(q, 5) \o w
    BY <1>1, <2>1, SuffixGrows
  <2>3. Suffix(q, 5) = <<>>
    BY <1>1, SubSeqEmpty DEF Suffix
  <2>4. QED
    BY <2>2, <2>3, ConcatEmptySeq
<1> HIDE DEF z
<1>4. IsPrefix(q, z)
  <2>1. IsPrefix(q, z) <=> Len(q) <= Len(z) /\ \A i \in 1..Len(q) : q[i] = z[i]
    BY <1>1, <1>2, PrefixMeans
  <2>2. Len(w) \in Nat
    OBVIOUS
  <2>3. QED
    BY <1>1, <1>2, <2>1, <2>2
<1>5. ~IsPrefix(z, q)
  <2>1. IsPrefix(z, q) => Len(z) <= Len(q)
    BY DEF IsPrefix
  <2>2. Len(w) \in Nat
    OBVIOUS
  <2>3. QED
    BY <1>1, <1>2, <2>1, <2>2
<1>6. Matches(z) = m
  BY <1>4, <1>5 DEF Matches, q
<1>7. m.kind = "query" /\ m.len = 4 /\ 1 + m.len = 5
  BY <1>1 DEF q
<1> HIDE DEF m
<1>8. z # <<>>
  BY <1>1, <1>2
<1>9. process(z) = Turned(m, z[1], process(w))
  BY <1>2, <1>3, <1>6, <1>7, <1>8, ProcessTurns
<1>10. process(w) \in Results(Byte)
  BY ProcessTypes
<1>11. QED
  BY <1>7, <1>9, <1>10 DEF Turned, Results, z, q

\* The same for a word that follows others.
LEMMA NextWordFiltered ==
  ASSUME NEW w \in AllWords, NEW p \in Leftovers
  PROVE  /\ p \in Seq(Byte)
         /\ process(p \o w).out = Filtered(w)
         /\ process(p \o w).pending \in Leftovers
<1>1. w \in Seq(Byte) /\ Len(w) >= 1 /\ process(w).out = Filtered(w) /\ process(w).pending \in Leftovers
  BY WordFiltered
<1>2. CASE p = <<>>
  <2>1. p \in Seq(Byte) /\ p \o w = w
    BY <1>1, <1>2, ConcatEmptySeq, EmptySeq
  <2>2. QED
    BY <1>1, <2>1
<1>3. CASE p = CursorPositionQuery
  BY <1>1, <1>3, QueryTaken, QueryHeld
<1>4. QED
  BY <1>2, <1>3 DEF Leftovers

\* What process makes of a whole script.
LEMMA ScriptFiltered ==
  ASSUME NEW ws \in Seq(AllWords), Len(ws) >= 1
  PROVE  /\ FlattenSeq(ws) \in Seq(Byte)
         /\ process(FlattenSeq(ws)).out = FlattenSeq([k \in DOMAIN ws |-> Filtered(ws[k])])
         /\ process(FlattenSeq(ws)).pending \in Leftovers
<1> DEFINE n == Len(ws)
           vs == [k \in DOMAIN ws |-> Filtered(ws[k])]
           F == FlatOf(ws)
           G == FlatOf(vs)
           Good(i) == process(F[i]).out = G[i] /\ process(F[i]).pending \in Leftovers
           T == {i \in 1..n : ~Good(i)}
<1>1. n \in Nat /\ DOMAIN ws = 1..n /\ \A i \in 1..n : ws[i] \in AllWords
  OBVIOUS
<1>2. \A i \in 1..n : ws[i] \in Seq(Byte) /\ Filtered(ws[i]) \in Seq(Byte)
  BY <1>1, WordFiltered, EmptySeq DEF Filtered
<1>3. ws \in Seq(Seq(Byte))
  BY <1>2
<1>4. vs \in Seq(Seq(Byte)) /\ Len(vs) = n /\ \A i \in 1..n : vs[i] = Filtered(ws[i])
  <2>1. vs \in [1..n -> Seq(Byte)]
    BY <1>1, <1>2
  <2>2. vs \in Seq(Seq(Byte)) /\ Len(vs) = n
    BY <1>1, <2>1
  <2>3. QED
    BY <1>1, <2>2
<1>5. \A i \in 1..n : F[i] = IF i = 1 THEN ws[i] ELSE F[i - 1] \o ws[i]
  BY <1>3, FlatUnfolds
<1>6. \A i \in 1..n : F[i] \in Seq(Byte)
  BY <1>3, FlatTypes
<1> HIDE DEF vs
<1>7. \A i \in 1..n : G[i] = IF i = 1 THEN vs[i] ELSE G[i - 1] \o vs[i]
  BY <1>4, FlatUnfolds
<1>8. FlattenSeq(ws) = F[n] /\ FlattenSeq(vs) = G[n]
  BY <1>1, <1>4, FlattenIsFlat
<1> HIDE DEF n, F, G
<1>9. ASSUME T # {} PROVE FALSE
  <2>1. T \subseteq Nat
    BY <1>1
  <2>2. PICK k \in T : \A j \in T : k <= j
    BY <1>9, <2>1, LeastNatural
  <2>3. k \in 1..n /\ ~Good(k)
    BY <2>2
  <2>4. CASE k = 1
    BY <2>3, <2>4, <1>1, <1>4, <1>5, <1>7, WordFiltered
  <2>5. CASE k # 1
    <3> DEFINE s == F[k - 1]
               w == ws[k]
               p == process(s)
    <3>1. k - 1 \in 1..n /\ ~(k <= k - 1)
      BY <1>1, <2>3, <2>5
    <3>2. Good(k - 1)
      BY <2>2, <3>1
    <3>3. s \in Seq(Byte) /\ w \in AllWords /\ w \in Seq(Byte)
      BY <1>1, <1>2, <1>6, <2>3, <3>1
    <3>4. F[k] = s \o w /\ G[k] = G[k - 1] \o Filtered(w)
      BY <1>4, <1>5, <1>7, <2>3, <2>5
    <3>5. p.out = G[k - 1] /\ p.pending \in Leftovers
      BY <3>2
    <3> HIDE DEF s, w
    <3>6. process(s \o w) = Joined(p, process(p.pending \o w))
      BY <3>3, ProcessJoins DEF JoinsAt
    <3> HIDE DEF p
    <3>7. process(p.pending \o w).out = Filtered(w) /\ process(p.pending \o w).pending \in Leftovers
      BY <3>3, <3>5, NextWordFiltered
    <3>8. process(s \o w).out = G[k - 1] \o Filtered(w) /\ process(s \o w).pending \in Leftovers
      BY <3>5, <3>6, <3>7 DEF Joined
    <3>9. QED
      BY <2>3, <3>4, <3>8
  <2>6. QED
    BY <2>4, <2>5
<1>10. Good(n) /\ F[n] \in Seq(Byte)
  BY <1>1, <1>6, <1>9 DEF n
<1>11. QED
  BY <1>8, <1>10 DEF vs

-----------------------------------------------------------------------------
(* What an anchor keeps *)

U16 == 0..MaxU16
ParamList == Seq({p \in Seq(U16) : Len(p) >= 1})
AttrNames == {"bold", "faint", "italic", "underline", "blink", "reverse", "strikethrough"}
Palette == {"palette"} \X (0..15)
Indexed == {"indexed"} \X (0..255)
Rgb == {"rgb"} \X (0..255) \X (0..255) \X (0..255)
Colors == {NoColor} \cup Palette \cup Indexed \cup Rgb
Sgrs == [on : SUBSET AttrNames, fg : Colors, bg : Colors]
Mice == {"off", "x10", "normal", "button_event", "any_event"}
AnchorStates(C) ==
  [row : U16, col : U16, sgr : Sgrs, modes : SUBSET Modes, mouse : Mice, g : [1..4 -> C]]

\* The tables of sgr and mode_set, entry by entry.
LEMMA AttrTable ==
  /\ DOMAIN Attr = {1, 2, 3, 4, 5, 7, 9}
  /\ Attr[1] = "bold" /\ Attr[2] = "faint" /\ Attr[3] = "italic" /\ Attr[4] = "underline"
  /\ Attr[5] = "blink" /\ Attr[7] = "reverse" /\ Attr[9] = "strikethrough"
BY DEF Attr

LEMMA AttrOffTable == DOMAIN AttrOff = {21, 22, 23, 24, 25, 27, 29}
BY DEF AttrOff

LEMMA ModeTable ==
  /\ DOMAIN ModeOf = {1, 6, 7, 1049, 2004}
  /\ ModeOf[1] = "cursor_keys" /\ ModeOf[6] = "origin" /\ ModeOf[7] = "autowrap"
  /\ ModeOf[1049] = "alt_screen" /\ ModeOf[2004] = "bracketed_paste"
BY DEF ModeOf

LEMMA MouseTable ==
  /\ DOMAIN MouseOf = {9, 1000, 1002, 1003}
  /\ MouseOf[9] = "x10" /\ MouseOf[1000] = "normal" /\ MouseOf[1002] = "button_event"
  /\ MouseOf[1003] = "any_event"
BY DEF MouseOf

-----------------------------------------------------------------------------
(* Loops *)

\* What the proofs need of u16; its largest value stays a name.
LEMMA U16Natural == MaxU16 \in Nat /\ U16 \subseteq Nat /\ \A x \in U16 : x \in Nat /\ x <= MaxU16
BY DEF U16, MaxU16

LEMMA U16Is == MaxU16 \in Nat /\ MaxU16 > 2004 /\ U16 = 0..MaxU16
<1>1. MaxU16 = 65535
  BY DEF MaxU16
<1>2. 65535 \in Nat /\ 65535 > 2004
  OBVIOUS
<1>3. QED
  BY <1>1, <1>2 DEF U16

\* A loop of N turns whose turns stay in S has a run.
LEMMA Iterates ==
  ASSUME NEW S, NEW a \in S, NEW N \in Nat, NEW step \in [1..N -> [S -> S]]
  PROVE  \E f \in [0..N -> S] : f[0] = a /\ \A n \in 1..N : f[n] = step[n][f[n - 1]]
<1> DEFINE Good(n) == \E f \in [0..n -> S] : f[0] = a /\ \A k \in 1..n : f[k] = step[k][f[k - 1]]
           Bad == {n \in 0..N : ~Good(n)}
<1>1. Good(0)
  <2> DEFINE f == [k \in 0..0 |-> a]
  <2>1. f \in [0..0 -> S] /\ f[0] = a /\ \A k \in 1..0 : f[k] = step[k][f[k - 1]]
    OBVIOUS
  <2>2. QED
    BY <2>1
<1>2. ASSUME NEW n \in 1..N, Good(n - 1) PROVE Good(n)
  <2>1. PICK f \in [0..(n - 1) -> S] : f[0] = a /\ \A k \in 1..(n - 1) : f[k] = step[k][f[k - 1]]
    BY <1>2
  <2> DEFINE v == step[n][f[n - 1]]
             h == [k \in 0..n |-> IF k = n THEN v ELSE f[k]]
  <2>2. f[n - 1] \in S /\ step[n] \in [S -> S]
    OBVIOUS
  <2>3. v \in S
    BY <2>2
  <2> HIDE DEF v
  <2>4. h \in [0..n -> S] /\ h[0] = a /\ h[n] = v
    BY <2>1, <2>3
  <2>5. ASSUME NEW k \in 1..n PROVE h[k] = step[k][h[k - 1]]
    <3>1. CASE k = n
      <4>1. h[n - 1] = f[n - 1]
        OBVIOUS
      <4>2. QED
        BY <3>1, <4>1, <2>4 DEF v
    <3>2. CASE k # n
      <4>1. k \in 1..(n - 1) /\ h[k] = f[k] /\ h[k - 1] = f[k - 1]
        BY <3>2
      <4>2. QED
        BY <4>1, <2>1
    <3>3. QED
      BY <3>1, <3>2
  <2>6. QED
    BY <2>4, <2>5
<1> HIDE DEF Good
<1>3. Bad = {}
  <2> SUFFICES ASSUME Bad # {} PROVE FALSE
    OBVIOUS
  <2>1. PICK x \in Bad : \A y \in Bad : x <= y
    <3>1. Bad \subseteq Nat
      OBVIOUS
    <3> HIDE DEF Bad
    <3>2. QED
      BY <3>1, LeastNatural
  <2>2. x # 0
    BY <1>1, <2>1
  <2>3. x \in 1..N /\ x - 1 \in 0..N /\ ~(x <= x - 1)
    BY <2>1, <2>2
  <2>4. Good(x - 1)
    BY <2>1, <2>3
  <2>5. QED
    BY <1>2, <2>1, <2>3, <2>4
<1>4. Good(N)
  BY <1>3
<1>5. QED
  BY <1>4 DEF Good

-----------------------------------------------------------------------------
(* Every control function keeps the state within its types *)

\* No colour is one of the colours an anchor may keep.
LEMMA NoColorIsColor == NoColor \in Colors
BY DEF Colors

\* A single SGR code keeps the attributes and colours within their types.
LEMMA SgrCodeTyped ==
  ASSUME NEW s \in Sgrs, NEW code \in Nat
  PROVE  SgrCode(s, code) \in Sgrs
<1>1. NoColor \in Colors
  BY NoColorIsColor
<1>11. PlainSgr \in Sgrs
  BY <1>1 DEF PlainSgr, Sgrs
<1>2. CASE code \in DOMAIN Attr
  <2>1. Attr[code] \in AttrNames /\ code # 0
    BY <1>2, AttrTable DEF AttrNames
  <2>2. SgrCode(s, code) = [s EXCEPT !.on = @ \cup {Attr[code]}]
    BY <1>2, <2>1, AttrTable, AttrOffTable DEF SgrCode
  <2>3. s.on \cup {Attr[code]} \in SUBSET AttrNames
    BY <2>1 DEF Sgrs
  <2>4. QED
    BY <2>2, <2>3 DEF Sgrs
<1>3. CASE code \in DOMAIN AttrOff
  <2>1. code \notin DOMAIN Attr /\ code # 0
    BY <1>3, AttrTable, AttrOffTable
  <2>2. SgrCode(s, code) = [s EXCEPT !.on = @ \ AttrOff[code]]
    BY <1>3, <2>1, AttrTable, AttrOffTable DEF SgrCode
  <2>3. s.on \ AttrOff[code] \in SUBSET AttrNames
    BY DEF Sgrs
  <2>4. QED
    BY <2>2, <2>3 DEF Sgrs
<1>4. CASE code \notin DOMAIN Attr \cup DOMAIN AttrOff
  <2>1. \A n \in 0..15 : <<"palette", n>> \in Colors
    BY DEF Colors, Palette
  <2>3. CASE code = 0
    BY <1>4, <1>11, <2>3 DEF SgrCode
  <2>4. CASE code \in 30..37
    <3>1. code - 30 \in 0..15
      BY <2>4
    <3>2. SgrCode(s, code) = [s EXCEPT !.fg = <<"palette", code - 30>>]
      BY <1>4, <2>4 DEF SgrCode
    <3>3. QED
      BY <2>1, <3>1, <3>2 DEF Sgrs
  <2>5. CASE code \in 40..47
    <3>1. code - 40 \in 0..15
      BY <2>5
    <3>2. SgrCode(s, code) = [s EXCEPT !.bg = <<"palette", code - 40>>]
      BY <1>4, <2>5 DEF SgrCode
    <3>3. QED
      BY <2>1, <3>1, <3>2 DEF Sgrs
  <2>6. CASE code \in 90..97
    <3>1. code - 82 \in 0..15
      BY <2>6
    <3>2. SgrCode(s, code) = [s EXCEPT !.fg = <<"palette", code - 82>>]
      BY <1>4, <2>6 DEF SgrCode
    <3>3. QED
      BY <2>1, <3>1, <3>2 DEF Sgrs
  <2>7. CASE code \in 100..107
    <3>1. code - 92 \in 0..15
      BY <2>7
    <3>2. SgrCode(s, code) = [s EXCEPT !.bg = <<"palette", code - 92>>]
      BY <1>4, <2>7 DEF SgrCode
    <3>3. QED
      BY <2>1, <3>1, <3>2 DEF Sgrs
  <2>8. CASE code \in {39, 49}
    BY <1>4, <1>1, <2>8 DEF SgrCode, Sgrs
  <2>9. CASE code \notin {0, 39, 49} \cup 30..37 \cup 40..47 \cup 90..97 \cup 100..107
    BY <1>4, <2>9 DEF SgrCode
  <2>10. QED
    BY <2>3, <2>4, <2>5, <2>6, <2>7, <2>8, <2>9
<1>5. QED
  BY <1>2, <1>3, <1>4

\* A single mode keeps the modes and the mouse within their types.
LEMMA SetModeTyped ==
  ASSUME NEW C, NEW a \in AnchorStates(C), NEW mode, NEW on \in BOOLEAN
  PROVE  SetMode(a, mode, on) \in AnchorStates(C)
<1>1. CASE mode \in DOMAIN ModeOf
  <2>1. ModeOf[mode] \in Modes
    BY <1>1, ModeTable DEF Modes
  <2> DEFINE m == IF on THEN a.modes \cup {ModeOf[mode]} ELSE a.modes \ {ModeOf[mode]}
  <2>2. SetMode(a, mode, on) = [a EXCEPT !.modes = m]
    BY <1>1, ModeTable, MouseTable DEF SetMode
  <2>3. m \in SUBSET Modes
    BY <2>1 DEF AnchorStates
  <2> HIDE DEF m
  <2>4. QED
    BY <2>2, <2>3 DEF AnchorStates
<1>2. CASE mode \notin DOMAIN ModeOf /\ mode \in DOMAIN MouseOf
  <2>1. MouseOf[mode] \in Mice /\ "off" \in Mice
    BY <1>2, MouseTable DEF Mice
  <2>2. QED
    BY <1>2, <2>1 DEF SetMode, AnchorStates
<1>3. CASE mode \notin DOMAIN ModeOf /\ mode \notin DOMAIN MouseOf
  BY <1>3 DEF SetMode
<1>4. QED
  BY <1>1, <1>2, <1>3

ParamOf == {p \in Seq(U16) : Len(p) >= 1}

\* The values parse_extended_color reads.
ColorValues(items, index) ==
  IF Len(items[index]) > 1 THEN SubSeq(items[index], 2, Len(items[index]))
  ELSE [k \in 1..(Len(items) - index) |-> items[index + k][1]]

\* A parameter of a control function is one or more u16.
LEMMA ItemTyped ==
  ASSUME NEW items \in ParamList, NEW i \in 1..Len(items)
  PROVE  items[i] \in Seq(U16) /\ Len(items[i]) \in Nat /\ Len(items[i]) >= 1 /\ items[i][1] \in U16
<1>1. items \in Seq(ParamOf)
  BY DEF ParamList, ParamOf
<1>2. items[i] \in ParamOf
  BY <1>1
<1>3. QED
  BY <1>2 DEF ParamOf

\* The values an extended colour is read from are u16.
LEMMA ColorValuesTyped ==
  ASSUME NEW items \in ParamList, NEW i \in 1..Len(items)
  PROVE  ColorValues(items, i) \in Seq(U16)
<1>1. Len(items) \in Nat
  BY DEF ParamList
<1>2. CASE Len(items[i]) > 1
  BY <1>2, ItemTyped DEF ColorValues
<1>3. CASE ~(Len(items[i]) > 1)
  <2> DEFINE n == Len(items) - i
  <2>1. n \in Nat
    BY <1>1
  <2>2. \A k \in 1..n : items[i + k][1] \in U16
    <3>1. ASSUME NEW k \in 1..n PROVE items[i + k][1] \in U16
      <4> DEFINE e == i + k
      <4>1. e \in 1..Len(items)
        BY <1>1
      <4> HIDE DEF e
      <4>2. items[e][1] \in U16
        BY <4>1, ItemTyped
      <4>3. QED
        BY <4>2 DEF e
    <3>2. QED
      BY <3>1
  <2> HIDE DEF n
  <2> DEFINE h == [k \in 1..n |-> items[i + k][1]]
  <2>3. h \in [1..n -> U16]
    BY <2>2
  <2> HIDE DEF h
  <2>4. h \in Seq(U16)
    BY <2>1, <2>3, SeqDef
  <2>5. QED
    BY <1>3, <2>4 DEF ColorValues, n, h
<1>4. QED
  BY <1>2, <1>3

\* A number that passed the test of u8::try_from is a byte.
LEMMA ByteOf == \A x \in Nat : x <= 255 => x \in 0..255
OBVIOUS

\* parse_extended_color gives a colour and takes parameters that are there.
LEMMA ColorParsed ==
  ASSUME NEW items \in ParamList, NEW i \in 1..Len(items)
  PROVE  /\ parse_extended_color(items, i).color \in Colors
         /\ parse_extended_color(items, i).consumed \in Nat \ {0}
<1> DEFINE v == ColorValues(items, i)
           inline == Len(items[i]) > 1
           one == Len(v) > 0 /\ v[1] = 5 /\ Len(v) > 1 /\ \A k \in 2..(1 + 1) : v[k] <= 255
           three == Len(v) > 0 /\ v[1] = 2 /\ Len(v) > 3 /\ \A k \in 2..(3 + 1) : v[k] <= 255
<1>1. v \in Seq(U16)
  BY ColorValuesTyped
<1>2. parse_extended_color(items, i) =
        IF one THEN [color |-> <<"indexed", v[2]>>, consumed |-> IF inline THEN 1 ELSE 1 + 2]
        ELSE IF three THEN [color |-> <<"rgb", v[2], v[3], v[4]>>, consumed |-> IF inline THEN 1 ELSE 3 + 2]
        ELSE [color |-> NoColor, consumed |-> 1]
  BY DEF parse_extended_color, ColorValues
<1> HIDE DEF v, inline
<1>21. Len(v) \in Nat /\ \A k \in 1..Len(v) : v[k] \in Nat
  <2>1. Len(v) \in Nat /\ \A k \in 1..Len(v) : v[k] \in U16
    BY <1>1, LenProperties, ElementOfSeq
  <2>2. QED
    BY <2>1, U16Natural
<1>3. one => v[2] \in 0..255
  <2> SUFFICES ASSUME one PROVE v[2] \in 0..255
    OBVIOUS
  <2>1. 2 \in 1..Len(v) /\ v[2] <= 255
    BY <1>21
  <2>2. v[2] \in Nat
    BY <1>21, <2>1
  <2>3. QED
    BY <2>1, <2>2, ByteOf, Zenon
<1>4. three => v[2] \in 0..255 /\ v[3] \in 0..255 /\ v[4] \in 0..255
  <2> SUFFICES ASSUME three PROVE v[2] \in 0..255 /\ v[3] \in 0..255 /\ v[4] \in 0..255
    OBVIOUS
  <2>1. /\ 2 \in 1..Len(v) /\ 3 \in 1..Len(v) /\ 4 \in 1..Len(v)
        /\ v[2] <= 255 /\ v[3] <= 255 /\ v[4] <= 255
    BY <1>21
  <2>2. v[2] \in Nat /\ v[3] \in Nat /\ v[4] \in Nat
    BY <1>21, <2>1
  <2>3. QED
    BY <2>1, <2>2, ByteOf, Zenon
<1> HIDE DEF one, three
<1>5. one => <<"indexed", v[2]>> \in Colors
  BY <1>3 DEF Colors, Indexed
<1>6. three => <<"rgb", v[2], v[3], v[4]>> \in Colors
  BY <1>4 DEF Colors, Rgb
<1>7. QED
  BY <1>2, <1>5, <1>6, NoColorIsColor

SgrAccs == [s : Sgrs, skip : Nat]

\* A turn of sgr keeps the attributes and colours within their types.
LEMMA SgrTurnTyped ==
  ASSUME NEW items \in ParamList, NEW i \in 1..Len(items), NEW acc \in SgrAccs
  PROVE  SgrTurn(items, acc, i) \in SgrAccs
<1> DEFINE code == items[i][1]
           ext == parse_extended_color(items, i)
<1>1. code \in Nat
  <2>1. code \in U16
    BY ItemTyped
  <2> HIDE DEF code
  <2>2. QED
    BY <2>1, U16Natural
<1>2. ext.color \in Colors /\ ext.consumed \in Nat \ {0}
  BY ColorParsed
<1>3. SgrTurn(items, acc, i) =
        IF acc.skip > 0 THEN [acc EXCEPT !.skip = @ - 1]
        ELSE IF code \notin {38, 48} THEN [acc EXCEPT !.s = SgrCode(@, code)]
        ELSE IF ext.color = NoColor THEN acc
        ELSE [s    |-> IF code = 38 THEN [acc.s EXCEPT !.fg = ext.color]
                                    ELSE [acc.s EXCEPT !.bg = ext.color],
              skip |-> ext.consumed - 1]
  BY DEF SgrTurn
<1> HIDE DEF code, ext
<1>4. SgrCode(acc.s, code) \in Sgrs
  BY <1>1, SgrCodeTyped DEF SgrAccs
<1>5. [acc.s EXCEPT !.fg = ext.color] \in Sgrs /\ [acc.s EXCEPT !.bg = ext.color] \in Sgrs
  BY <1>2 DEF SgrAccs, Sgrs
<1>6. QED
  BY <1>2, <1>3, <1>4, <1>5 DEF SgrAccs

SgrRun(s, items) ==
  CHOOSE run : run = [n \in 0..Len(items) |->
                        IF n = 0 THEN [s |-> s, skip |-> 0] ELSE SgrTurn(items, run[n - 1], n)]

\* The loop of sgr, turn by turn.
LEMMA SgrUnfolds ==
  ASSUME NEW s \in Sgrs, NEW items \in ParamList
  PROVE  /\ Len(items) \in Nat
         /\ SgrRun(s, items)[0] = [s |-> s, skip |-> 0]
         /\ \A n \in 1..Len(items) : SgrRun(s, items)[n] = SgrTurn(items, SgrRun(s, items)[n - 1], n)
         /\ \A n \in 0..Len(items) : SgrRun(s, items)[n] \in SgrAccs
         /\ sgr(s, items) = IF items = <<>> THEN PlainSgr ELSE SgrRun(s, items)[Len(items)].s
<1> DEFINE N == Len(items)
           a == [s |-> s, skip |-> 0]
           step == [n \in 1..N |-> [acc \in SgrAccs |-> SgrTurn(items, acc, n)]]
<1>1. N \in Nat
  BY DEF ParamList
<1>2. a \in SgrAccs
  BY DEF SgrAccs
<1>3. step \in [1..N -> [SgrAccs -> SgrAccs]]
  BY SgrTurnTyped
<1>4. \A n \in 1..N, acc \in SgrAccs : step[n][acc] = SgrTurn(items, acc, n)
  OBVIOUS
<1> HIDE DEF step, N, a
<1>5. PICK f \in [0..N -> SgrAccs] : f[0] = a /\ \A n \in 1..N : f[n] = step[n][f[n - 1]]
  BY <1>1, <1>2, <1>3, Iterates
<1>6. \A n \in 1..N : f[n - 1] \in SgrAccs
  BY <1>1
<1>7. \A n \in 1..N : f[n] = SgrTurn(items, f[n - 1], n)
  BY <1>4, <1>5, <1>6
<1>8. f = [n \in 0..N |-> IF n = 0 THEN a ELSE SgrTurn(items, f[n - 1], n)]
  BY <1>1, <1>5, <1>7
<1> DEFINE run == SgrRun(s, items)
<1>9. run = [n \in 0..N |-> IF n = 0 THEN a ELSE SgrTurn(items, run[n - 1], n)]
  BY <1>8 DEF SgrRun, N, a
<1>10. sgr(s, items) = IF items = <<>> THEN PlainSgr ELSE run[N].s
  BY DEF sgr, SgrRun, N
<1> HIDE DEF run
<1>11. run[0] = a
  BY <1>1, <1>9
<1>12. \A n \in 1..N : run[n] = SgrTurn(items, run[n - 1], n)
  BY <1>1, <1>9
<1>13. \A n \in 0..N : run[n] \in SgrAccs
  <2> DEFINE Bad == {n \in 0..N : run[n] \notin SgrAccs}
  <2> SUFFICES ASSUME Bad # {} PROVE FALSE
    OBVIOUS
  <2>1. Bad \subseteq Nat
    BY <1>1
  <2> HIDE DEF Bad
  <2>2. PICK x \in Bad : \A y \in Bad : x <= y
    BY <2>1, LeastNatural
  <2>3. x \in 0..N /\ run[x] \notin SgrAccs
    BY DEF Bad
  <2>4. x # 0
    BY <1>2, <1>11, <2>3
  <2>5. x \in 1..N /\ x - 1 \in 0..N /\ ~(x <= x - 1)
    BY <1>1, <2>3, <2>4
  <2>6. run[x - 1] \in SgrAccs
    BY <2>2, <2>5 DEF Bad
  <2>7. QED
    BY <2>3, <2>5, <2>6, <1>12, SgrTurnTyped DEF N
<1>14. QED
  BY <1>1, <1>10, <1>11, <1>12, <1>13 DEF run, N, a

\* So does the whole of sgr.
LEMMA SgrTyped ==
  ASSUME NEW s \in Sgrs, NEW items \in ParamList
  PROVE  sgr(s, items) \in Sgrs
<1>1. PlainSgr \in Sgrs
  BY NoColorIsColor DEF PlainSgr, Sgrs
<1>2. SgrRun(s, items)[Len(items)] \in SgrAccs
  <2>1. Len(items) \in 0..Len(items)
    BY SgrUnfolds
  <2>2. QED
    BY <2>1, SgrUnfolds
<1>3. QED
  BY <1>1, <1>2, SgrUnfolds DEF SgrAccs

ModeRun(a, params, on) ==
  CHOOSE run : run = [n \in 0..Len(params) |->
                        IF n = 0 THEN a ELSE SetMode(run[n - 1], params[n][1], on)]

\* The loop of mode_set, parameter by parameter.
LEMMA ModeSetUnfolds ==
  ASSUME NEW C, NEW a \in AnchorStates(C), NEW params \in ParamList, NEW on \in BOOLEAN
  PROVE  /\ Len(params) \in Nat
         /\ ModeRun(a, params, on)[0] = a
         /\ \A n \in 1..Len(params) : ModeRun(a, params, on)[n] = SetMode(ModeRun(a, params, on)[n - 1], params[n][1], on)
         /\ \A n \in 0..Len(params) : ModeRun(a, params, on)[n] \in AnchorStates(C)
         /\ mode_set(a, params, on) = ModeRun(a, params, on)[Len(params)]
<1> DEFINE N == Len(params)
           step == [n \in 1..N |-> [acc \in AnchorStates(C) |-> SetMode(acc, params[n][1], on)]]
<1>1. N \in Nat
  BY DEF ParamList
<1>2. a \in AnchorStates(C)
  OBVIOUS
<1>21. \A n \in 1..N, acc \in AnchorStates(C) : SetMode(acc, params[n][1], on) \in AnchorStates(C)
  BY SetModeTyped
<1>3. step \in [1..N -> [AnchorStates(C) -> AnchorStates(C)]]
  BY <1>21
<1>4. \A n \in 1..N, acc \in AnchorStates(C) : step[n][acc] = SetMode(acc, params[n][1], on)
  OBVIOUS
<1> HIDE DEF step, N
<1>5. PICK f \in [0..N -> AnchorStates(C)] : f[0] = a /\ \A n \in 1..N : f[n] = step[n][f[n - 1]]
  BY <1>1, <1>2, <1>3, Iterates
<1>6. \A n \in 1..N : f[n - 1] \in AnchorStates(C)
  BY <1>1
<1>7. \A n \in 1..N : f[n] = SetMode(f[n - 1], params[n][1], on)
  BY <1>4, <1>5, <1>6
<1>8. f = [n \in 0..N |-> IF n = 0 THEN a ELSE SetMode(f[n - 1], params[n][1], on)]
  BY <1>1, <1>5, <1>7
<1> DEFINE run == ModeRun(a, params, on)
<1>9. run = [n \in 0..N |-> IF n = 0 THEN a ELSE SetMode(run[n - 1], params[n][1], on)]
  BY <1>8 DEF ModeRun, N
<1>10. mode_set(a, params, on) = run[N]
  BY DEF mode_set, ModeRun, N
<1> HIDE DEF run
<1>11. run[0] = a
  BY <1>1, <1>9
<1>12. \A n \in 1..N : run[n] = SetMode(run[n - 1], params[n][1], on)
  BY <1>1, <1>9
<1>13. \A n \in 0..N : run[n] \in AnchorStates(C)
  <2> DEFINE Bad == {n \in 0..N : run[n] \notin AnchorStates(C)}
  <2> SUFFICES ASSUME Bad # {} PROVE FALSE
    OBVIOUS
  <2>1. Bad \subseteq Nat
    BY <1>1
  <2> HIDE DEF Bad
  <2>2. PICK x \in Bad : \A y \in Bad : x <= y
    BY <2>1, LeastNatural
  <2>3. x \in 0..N /\ run[x] \notin AnchorStates(C)
    BY DEF Bad
  <2>4. x # 0
    BY <1>2, <1>11, <2>3
  <2>5. x \in 1..N /\ x - 1 \in 0..N /\ ~(x <= x - 1)
    BY <1>1, <2>3, <2>4
  <2>6. run[x - 1] \in AnchorStates(C)
    BY <2>2, <2>5 DEF Bad
  <2>7. QED
    BY <2>3, <2>5, <2>6, <1>12, <1>21
<1>14. QED
  BY <1>1, <1>10, <1>11, <1>12, <1>13 DEF run, N

\* mode_set keeps the state within its types.
LEMMA ModeSetTyped ==
  ASSUME NEW C, NEW a \in AnchorStates(C), NEW params \in ParamList, NEW on \in BOOLEAN
  PROVE  mode_set(a, params, on) \in AnchorStates(C)
<1>1. Len(params) \in 0..Len(params)
  BY ModeSetUnfolds
<1>2. QED
  BY <1>1, ModeSetUnfolds

\* One mode.
LEMMA ModeSetOne ==
  ASSUME NEW C, NEW a \in AnchorStates(C), NEW m \in U16, NEW on \in BOOLEAN
  PROVE  mode_set(a, <<<<m>>>>, on) = SetMode(a, m, on)
<1> DEFINE params == <<<<m>>>>
<1>1. <<m>> \in ParamOf
  BY DEF ParamOf
<1>2. params \in ParamList
  BY <1>1 DEF ParamList, ParamOf
<1>3. Len(params) = 1 /\ params[1][1] = m
  OBVIOUS
<1> HIDE DEF params
<1>4. /\ ModeRun(a, params, on)[0] = a
      /\ ModeRun(a, params, on)[1] = SetMode(ModeRun(a, params, on)[1 - 1], params[1][1], on)
      /\ mode_set(a, params, on) = ModeRun(a, params, on)[1]
  BY <1>2, <1>3, ModeSetUnfolds
<1>5. mode_set(a, params, on) = SetMode(a, m, on)
  BY <1>3, <1>4
<1>6. QED
  BY <1>5 DEF params

\* What the parser may hand to the tracker.
Handed(C, c) ==
  /\ c.kind = "csi" => c.params \in ParamList
  /\ c.kind = "esc" => c.final \in C

\* Saturating arithmetic stays within a u16.
LEMMA SaturatingTyped ==
  /\ \A x \in U16, y \in U16 : saturating_add(x, y) \in U16 /\ saturating_sub(x, y) \in U16
  /\ 0 \in U16 /\ 1 \in U16 /\ 8 \in U16
<1>1. ASSUME NEW x \in U16, NEW y \in U16
      PROVE  saturating_add(x, y) \in U16 /\ saturating_sub(x, y) \in U16
  <2>1. x \in 0..MaxU16 /\ y \in 0..MaxU16
    BY U16Is
  <2>2. /\ saturating_add(x, y) = IF x + y > MaxU16 THEN MaxU16 ELSE x + y
        /\ saturating_sub(x, y) = IF x < y THEN 0 ELSE x - y
    BY U16Is DEF saturating_add, saturating_sub
  <2>3. saturating_add(x, y) \in 0..MaxU16 /\ saturating_sub(x, y) \in 0..MaxU16
    BY <2>1, <2>2, U16Is
  <2>4. QED
    BY <2>3, U16Is
<1>2. 0 \in U16 /\ 1 \in U16 /\ 8 \in U16
  BY U16Is
<1>3. QED
  BY <1>1, <1>2

\* A parameter that is missing or 0 reads as 1, any other as itself.
LEMMA ParamTyped ==
  ASSUME NEW params \in ParamList, NEW n \in 1..2
  PROVE  param(params, n) \in U16
<1>1. 1 \in U16
  BY SaturatingTyped
<1>2. Len(params) \in Nat
  BY DEF ParamList
<1>3. Len(params) >= n => params[n][1] \in U16
  <2> SUFFICES ASSUME Len(params) >= n PROVE params[n][1] \in U16
    OBVIOUS
  <2>1. n \in 1..Len(params)
    BY <1>2
  <2>2. QED
    BY <2>1, ItemTyped
<1>4. QED
  BY <1>1, <1>3 DEF param

\* csi_dispatch keeps the state within its types.
LEMMA CsiTyped ==
  ASSUME NEW C, NEW a \in AnchorStates(C), NEW c, c.params \in ParamList
  PROVE  csi_dispatch(a, c) \in AnchorStates(C)
<1> DEFINE n == param(c.params, 1)
           m == param(c.params, 2)
<1>1. n \in U16 /\ m \in U16
  BY ParamTyped
<1> HIDE DEF n, m
<1>2. a.row \in U16 /\ a.col \in U16 /\ a.sgr \in Sgrs
  BY DEF AnchorStates
<1>3. \A x \in U16, y \in U16 : saturating_add(x, y) \in U16 /\ saturating_sub(x, y) \in U16
  BY SaturatingTyped
<1>4. 0 \in U16 /\ 1 \in U16
  BY SaturatingTyped
<1>5. \A x \in U16 : [a EXCEPT !.row = x] \in AnchorStates(C) /\ [a EXCEPT !.col = x] \in AnchorStates(C)
  BY DEF AnchorStates
<1>6. \A x \in U16, y \in U16 : [a EXCEPT !.row = x, !.col = y] \in AnchorStates(C)
  BY DEF AnchorStates
<1>7. sgr(a.sgr, c.params) \in Sgrs
  BY <1>2, SgrTyped
<1>8. [a EXCEPT !.sgr = sgr(a.sgr, c.params)] \in AnchorStates(C)
  BY <1>7 DEF AnchorStates
<1>9. /\ mode_set(a, c.params, TRUE) \in AnchorStates(C)
      /\ mode_set(a, c.params, FALSE) \in AnchorStates(C)
  BY ModeSetTyped
<1>10. CASE c.final = "m"
  <2>1. csi_dispatch(a, c) = [a EXCEPT !.sgr = sgr(a.sgr, c.params)]
    BY <1>10 DEF csi_dispatch, n, m
  <2>2. QED
    BY <2>1, <1>1, <1>2, <1>3, <1>4, <1>5, <1>6, <1>8, <1>9
<1>11. CASE c.final = "H"
  <2>1. csi_dispatch(a, c) = [a EXCEPT !.row = saturating_sub(n, 1), !.col = saturating_sub(m, 1)]
    BY <1>11 DEF csi_dispatch, n, m
  <2>2. saturating_sub(n, 1) \in U16 /\ saturating_sub(m, 1) \in U16
    BY <1>1, <1>2, <1>3, <1>4
  <2>3. QED
    BY <2>1, <2>2, <1>4, <1>5, <1>6
<1>12. CASE c.final = "A"
  <2>1. csi_dispatch(a, c) = [a EXCEPT !.row = saturating_sub(a.row, n)]
    BY <1>12 DEF csi_dispatch, n, m
  <2>2. QED
    BY <2>1, <1>1, <1>2, <1>3, <1>4, <1>5, <1>6, <1>8, <1>9
<1>13. CASE c.final = "B"
  <2>1. csi_dispatch(a, c) = [a EXCEPT !.row = saturating_add(a.row, n)]
    BY <1>13 DEF csi_dispatch, n, m
  <2>2. QED
    BY <2>1, <1>1, <1>2, <1>3, <1>4, <1>5, <1>6, <1>8, <1>9
<1>14. CASE c.final = "C"
  <2>1. csi_dispatch(a, c) = [a EXCEPT !.col = saturating_add(a.col, n)]
    BY <1>14 DEF csi_dispatch, n, m
  <2>2. QED
    BY <2>1, <1>1, <1>2, <1>3, <1>4, <1>5, <1>6, <1>8, <1>9
<1>15. CASE c.final = "D"
  <2>1. csi_dispatch(a, c) = [a EXCEPT !.col = saturating_sub(a.col, n)]
    BY <1>15 DEF csi_dispatch, n, m
  <2>2. QED
    BY <2>1, <1>1, <1>2, <1>3, <1>4, <1>5, <1>6, <1>8, <1>9
<1>16. CASE c.final = "E"
  <2>1. csi_dispatch(a, c) = [a EXCEPT !.row = saturating_add(a.row, n), !.col = 0]
    BY <1>16 DEF csi_dispatch, n, m
  <2>2. saturating_add(a.row, n) \in U16
    BY <1>1, <1>2, <1>3, <1>4
  <2>3. QED
    BY <2>1, <2>2, <1>4, <1>5, <1>6
<1>17. CASE c.final = "F"
  <2>1. csi_dispatch(a, c) = [a EXCEPT !.row = saturating_sub(a.row, n), !.col = 0]
    BY <1>17 DEF csi_dispatch, n, m
  <2>2. saturating_sub(a.row, n) \in U16
    BY <1>1, <1>2, <1>3, <1>4
  <2>3. QED
    BY <2>1, <2>2, <1>4, <1>5, <1>6
<1>18. CASE c.final = "G"
  <2>1. csi_dispatch(a, c) = [a EXCEPT !.col = saturating_sub(n, 1)]
    BY <1>18 DEF csi_dispatch, n, m
  <2>2. saturating_sub(n, 1) \in U16
    BY <1>1, <1>2, <1>3, <1>4
  <2>3. QED
    BY <2>1, <2>2, <1>4, <1>5, <1>6
<1>19. CASE c.final = "d"
  <2>1. csi_dispatch(a, c) = [a EXCEPT !.row = saturating_sub(n, 1)]
    BY <1>19 DEF csi_dispatch, n, m
  <2>2. saturating_sub(n, 1) \in U16
    BY <1>1, <1>2, <1>3, <1>4
  <2>3. QED
    BY <2>1, <2>2, <1>4, <1>5, <1>6
<1>20. CASE c.final = "h"
  <2>1. csi_dispatch(a, c) = IF c.marker = "?" THEN mode_set(a, c.params, TRUE) ELSE a
    BY <1>20 DEF csi_dispatch, n, m
  <2>2. QED
    BY <2>1, <1>1, <1>2, <1>3, <1>4, <1>5, <1>6, <1>8, <1>9
<1>21. CASE c.final = "l"
  <2>1. csi_dispatch(a, c) = IF c.marker = "?" THEN mode_set(a, c.params, FALSE) ELSE a
    BY <1>21 DEF csi_dispatch, n, m
  <2>2. QED
    BY <2>1, <1>1, <1>2, <1>3, <1>4, <1>5, <1>6, <1>8, <1>9
<1>22. CASE c.final \notin {"m", "H", "A", "B", "C", "D", "E", "F", "G", "d", "h", "l"}
  BY <1>22 DEF csi_dispatch
<1>23. QED
  BY <1>10, <1>11, <1>12, <1>13, <1>14, <1>15, <1>16, <1>17, <1>18, <1>19, <1>20, <1>21, <1>22

\* Every control function keeps the state an anchor keeps within its types.
LEMMA PerformTyped ==
  ASSUME NEW C, NEW a \in AnchorStates(C), NEW c, Handed(C, c)
  PROVE  Perform(a, c) \in AnchorStates(C)
<1>1. CASE c.kind = "csi"
  BY <1>1, CsiTyped DEF Perform, Handed
<1>2. CASE c.kind = "esc"
  <2> DEFINE g == [i \in 1..4 |-> IF Markers[i] = c.marker THEN c.final ELSE a.g[i]]
  <2>1. g \in [1..4 -> C]
    BY <1>2 DEF Handed, AnchorStates
  <2>2. Perform(a, c) = [a EXCEPT !.g = g]
    BY <1>2 DEF Perform, esc_dispatch
  <2> HIDE DEF g
  <2>3. QED
    BY <2>1, <2>2 DEF AnchorStates
<1>3. CASE c.kind \notin {"csi", "esc"}
  <2>1. a.row \in U16 /\ a.col \in U16
    BY DEF AnchorStates
  <2>2. \A x \in U16 : [a EXCEPT !.row = x] \in AnchorStates(C) /\ [a EXCEPT !.col = x] \in AnchorStates(C)
    BY DEF AnchorStates
  <2>3. \A x \in U16, y \in U16 : [a EXCEPT !.row = x, !.col = y] \in AnchorStates(C)
    BY DEF AnchorStates
  <2>4. /\ saturating_add(a.row, 1) \in U16 /\ saturating_add(a.col, 1) \in U16
        /\ saturating_sub(a.col, 1) \in U16 /\ 0 \in U16
    BY <2>1, SaturatingTyped
  <2>5. saturating_add((a.col \div 8) * 8, 8) \in U16
    <3>1. \A x \in Nat : (x \div 8) * 8 \in Nat /\ (x \div 8) * 8 <= x
      OBVIOUS
    <3>2. a.col \in Nat /\ a.col <= MaxU16
      <4>1. a.col \in 0..MaxU16
        BY <2>1, U16Is
      <4>2. QED
        BY <4>1, U16Is
    <3> DEFINE e == (a.col \div 8) * 8
    <3>3. e \in Nat /\ e <= MaxU16
      BY <3>1, <3>2, U16Is
    <3> HIDE DEF e
    <3>31. e \in 0..MaxU16
      BY <3>3, U16Is
    <3>32. e \in U16
      BY <3>31, U16Is
    <3>33. saturating_add(e, 8) \in U16
      BY <3>32, SaturatingTyped
    <3>4. QED
      BY <3>33 DEF e
  <2>6. execute(a, c.final) \in AnchorStates(C)
    <3>1. CASE c.final = "nl"
      BY <3>1, <2>3, <2>4 DEF execute
    <3>2. CASE c.final = "cr"
      BY <3>2, <2>2, <2>4 DEF execute
    <3>3. CASE c.final = "bs"
      BY <3>3, <2>2, <2>4 DEF execute
    <3>4. CASE c.final = "tab"
      BY <3>4, <2>2, <2>5 DEF execute
    <3>5. CASE c.final \notin {"nl", "cr", "bs", "tab"}
      BY <3>5 DEF execute
    <3>6. QED
      BY <3>1, <3>2, <3>3, <3>4, <3>5
  <2>7. QED
    BY <1>3, <2>2, <2>4, <2>6 DEF Perform
<1>4. QED
  BY <1>1, <1>2, <1>3

ReplayRun(a, functions) ==
  CHOOSE run : run = [n \in 0..Len(functions) |->
                        IF n = 0 THEN a ELSE Perform(run[n - 1], functions[n])]

\* Replaying, function by function.
LEMMA ReplayUnfolds ==
  ASSUME NEW C, NEW a \in AnchorStates(C), NEW functions, Len(functions) \in Nat,
         \A n \in 1..Len(functions) : Handed(C, functions[n])
  PROVE  /\ Len(functions) \in Nat
         /\ ReplayRun(a, functions)[0] = a
         /\ \A n \in 1..Len(functions) : ReplayRun(a, functions)[n] = Perform(ReplayRun(a, functions)[n - 1], functions[n])
         /\ \A n \in 0..Len(functions) : ReplayRun(a, functions)[n] \in AnchorStates(C)
         /\ Replay(a, functions) = ReplayRun(a, functions)[Len(functions)]
<1> DEFINE N == Len(functions)
           step == [n \in 1..N |-> [acc \in AnchorStates(C) |-> Perform(acc, functions[n])]]
<1>1. N \in Nat
  OBVIOUS
<1>2. a \in AnchorStates(C)
  OBVIOUS
<1>21. \A n \in 1..N, acc \in AnchorStates(C) : Perform(acc, functions[n]) \in AnchorStates(C)
  BY PerformTyped
<1>3. step \in [1..N -> [AnchorStates(C) -> AnchorStates(C)]]
  BY <1>21
<1>4. \A n \in 1..N, acc \in AnchorStates(C) : step[n][acc] = Perform(acc, functions[n])
  OBVIOUS
<1> HIDE DEF step, N
<1>5. PICK f \in [0..N -> AnchorStates(C)] : f[0] = a /\ \A n \in 1..N : f[n] = step[n][f[n - 1]]
  BY <1>1, <1>2, <1>3, Iterates
<1>6. \A n \in 1..N : f[n - 1] \in AnchorStates(C)
  BY <1>1
<1>7. \A n \in 1..N : f[n] = Perform(f[n - 1], functions[n])
  BY <1>4, <1>5, <1>6
<1>8. f = [n \in 0..N |-> IF n = 0 THEN a ELSE Perform(f[n - 1], functions[n])]
  BY <1>1, <1>5, <1>7
<1> DEFINE run == ReplayRun(a, functions)
<1>9. run = [n \in 0..N |-> IF n = 0 THEN a ELSE Perform(run[n - 1], functions[n])]
  BY <1>8 DEF ReplayRun, N
<1>10. Replay(a, functions) = run[N]
  BY DEF Replay, ReplayRun, N
<1> HIDE DEF run
<1>11. run[0] = a
  BY <1>1, <1>9
<1>12. \A n \in 1..N : run[n] = Perform(run[n - 1], functions[n])
  BY <1>1, <1>9
<1>13. \A n \in 0..N : run[n] \in AnchorStates(C)
  <2> DEFINE Bad == {n \in 0..N : run[n] \notin AnchorStates(C)}
  <2> SUFFICES ASSUME Bad # {} PROVE FALSE
    OBVIOUS
  <2>1. Bad \subseteq Nat
    BY <1>1
  <2> HIDE DEF Bad
  <2>2. PICK x \in Bad : \A y \in Bad : x <= y
    BY <2>1, LeastNatural
  <2>3. x \in 0..N /\ run[x] \notin AnchorStates(C)
    BY DEF Bad
  <2>4. x # 0
    BY <1>2, <1>11, <2>3
  <2>5. x \in 1..N /\ x - 1 \in 0..N /\ ~(x <= x - 1)
    BY <1>1, <2>3, <2>4
  <2>6. run[x - 1] \in AnchorStates(C)
    BY <2>2, <2>5 DEF Bad
  <2>7. QED
    BY <2>3, <2>5, <2>6, <1>12, <1>21
<1>14. QED
  BY <1>1, <1>10, <1>11, <1>12, <1>13 DEF run, N

-----------------------------------------------------------------------------
(* What sgr makes of the parameters apply_sgr writes *)

\* The code of an attribute switches it on and changes nothing else.
LEMMA SgrCodeAttr ==
  ASSUME NEW t \in Sgrs, NEW code \in DOMAIN Attr
  PROVE  /\ SgrCode(t, code) = [t EXCEPT !.on = @ \cup {Attr[code]}]
         /\ code \notin {38, 48} /\ code \in U16 /\ Attr[code] \in AttrNames
<1>1. /\ SgrCode(t, code) = [t EXCEPT !.on = @ \cup {Attr[code]}]
      /\ code \notin {38, 48}
  BY AttrTable, AttrOffTable DEF SgrCode
<1>2. Attr[code] \in AttrNames /\ code \in 0..255
  BY AttrTable DEF AttrNames
<1>3. \A n \in 0..255 : n \in U16
  BY U16Is
<1>4. code \in U16
  BY <1>2, <1>3
<1>5. QED
  BY <1>1, <1>2, <1>4

\* The code of a palette colour gives that colour.
LEMMA SgrCodePalette ==
  ASSUME NEW t \in Sgrs, NEW n \in 0..15
  PROVE  /\ SgrCode(t, (IF n < 8 THEN 30 ELSE 90) + (n % 8)) = [t EXCEPT !.fg = <<"palette", n>>]
         /\ SgrCode(t, (IF n < 8 THEN 40 ELSE 100) + (n % 8)) = [t EXCEPT !.bg = <<"palette", n>>]
         /\ (IF n < 8 THEN 30 ELSE 90) + (n % 8) \in 30..97 \ {38, 48}
         /\ (IF n < 8 THEN 40 ELSE 100) + (n % 8) \in 40..107 \ {38, 48}
<1> DEFINE f == (IF n < 8 THEN 30 ELSE 90) + (n % 8)
           b == (IF n < 8 THEN 40 ELSE 100) + (n % 8)
<1>1. n % 8 = IF n < 8 THEN n ELSE n - 8
  OBVIOUS
<1>2. CASE n < 8
  <2>1. f = 30 + n /\ b = 40 + n
    BY <1>1, <1>2
  <2> HIDE DEF f, b
  <2>2. f \in 30..37 /\ f - 30 = n /\ b \in 40..47 /\ b - 40 = n
    BY <1>2, <2>1
  <2>3. SgrCode(t, f) = [t EXCEPT !.fg = <<"palette", f - 30>>]
    BY <2>2, AttrTable, AttrOffTable DEF SgrCode
  <2>4. SgrCode(t, b) = [t EXCEPT !.bg = <<"palette", b - 40>>]
    BY <2>2, AttrTable, AttrOffTable DEF SgrCode
  <2>5. f \in 30..97 \ {38, 48} /\ b \in 40..107 \ {38, 48}
    BY <2>2
  <2>6. QED
    BY <2>2, <2>3, <2>4, <2>5 DEF f, b
<1>3. CASE ~(n < 8)
  <2>1. f = 82 + n /\ b = 92 + n
    BY <1>1, <1>3
  <2> HIDE DEF f, b
  <2>2. f \in 90..97 /\ f - 82 = n /\ b \in 100..107 /\ b - 92 = n
    BY <1>3, <2>1
  <2>3. SgrCode(t, f) = [t EXCEPT !.fg = <<"palette", f - 82>>]
    BY <2>2, AttrTable, AttrOffTable DEF SgrCode
  <2>4. SgrCode(t, b) = [t EXCEPT !.bg = <<"palette", b - 92>>]
    BY <2>2, AttrTable, AttrOffTable DEF SgrCode
  <2>5. f \in 30..97 \ {38, 48} /\ b \in 40..107 \ {38, 48}
    BY <2>2
  <2>6. QED
    BY <2>2, <2>3, <2>4, <2>5 DEF f, b
<1>4. QED
  BY <1>2, <1>3

Begins(items, x) == Len(x) <= Len(items) /\ \A k \in 1..Len(x) : items[k] = x[k]

\* What begins a longer list begins every list that continues it.
LEMMA BeginsLeft ==
  ASSUME NEW S, NEW items, NEW x \in Seq(S), NEW y \in Seq(S), Len(items) \in Nat, Begins(items, x \o y)
  PROVE  /\ Begins(items, x)
         /\ Len(x \o y) = Len(x) + Len(y)
         /\ Len(x) + Len(y) <= Len(items)
         /\ \A k \in 1..Len(y) : items[Len(x) + k] = y[k]
<1>1. /\ Len(x \o y) = Len(x) + Len(y) /\ Len(x) \in Nat /\ Len(y) \in Nat
      /\ \A i \in 1..(Len(x) + Len(y)) :
           (x \o y)[i] = IF i <= Len(x) THEN x[i] ELSE y[i - Len(x)]
  BY ConcatProperties, LenProperties
<1>2. Len(x) + Len(y) <= Len(items) /\ \A i \in 1..(Len(x) + Len(y)) : items[i] = (x \o y)[i]
  BY <1>1 DEF Begins
<1>3. ASSUME NEW k \in 1..Len(x) PROVE items[k] = x[k]
  <2>1. k \in 1..(Len(x) + Len(y)) /\ k <= Len(x)
    BY <1>1
  <2>2. QED
    BY <1>1, <1>2, <2>1
<1>4. ASSUME NEW k \in 1..Len(y) PROVE items[Len(x) + k] = y[k]
  <2> DEFINE e == Len(x) + k
  <2>1. e \in 1..(Len(x) + Len(y)) /\ ~(e <= Len(x)) /\ e - Len(x) = k
    BY <1>1
  <2> HIDE DEF e
  <2>2. items[e] = (x \o y)[e] /\ (x \o y)[e] = y[e - Len(x)]
    BY <1>1, <1>2, <2>1
  <2>3. QED
    BY <2>1, <2>2 DEF e
<1>5. QED
  BY <1>1, <1>2, <1>3, <1>4 DEF Begins

AttrSet(s, t, code) == [t EXCEPT !.on = @ \cup ({Attr[code]} \cap s.on)]

\* An attribute's code turns the attribute on if it is on in s.
LEMMA AttrBlock ==
  ASSUME NEW s \in Sgrs, NEW t \in Sgrs, NEW items \in ParamList, NEW x \in ParamList,
         NEW code \in DOMAIN Attr, Begins(items, x \o AttrParam(s, code)),
         SgrRun(PlainSgr, items)[Len(x)] = [s |-> t, skip |-> 0]
  PROVE  /\ SgrRun(PlainSgr, items)[Len(x \o AttrParam(s, code))] = [s |-> AttrSet(s, t, code), skip |-> 0]
         /\ AttrSet(s, t, code) \in Sgrs /\ Begins(items, x)
         /\ x \o AttrParam(s, code) \in ParamList
<1> DEFINE y == AttrParam(s, code)
           run == SgrRun(PlainSgr, items)
<1>1. y \in ParamList
  <2>1. code \in U16
    BY SgrCodeAttr
  <2>2. <<code>> \in ParamOf
    BY <2>1 DEF ParamOf
  <2>3. <<>> \in Seq(ParamOf) /\ <<<<code>>>> \in Seq(ParamOf)
    BY <2>2
  <2>4. QED
    BY <2>3 DEF AttrParam, ParamList, ParamOf
<1>2. Len(items) \in Nat /\ Len(x) \in Nat
  BY DEF ParamList
<1>3. PlainSgr \in Sgrs
  BY NoColorIsColor DEF PlainSgr, Sgrs
<1>4. /\ x \in Seq(ParamOf) /\ y \in Seq(ParamOf)
      /\ x \o y \in Seq(ParamOf)
  <2>1. x \in Seq(ParamOf) /\ y \in Seq(ParamOf)
    BY <1>1 DEF ParamList, ParamOf
  <2> HIDE DEF y
  <2>2. QED
    BY <2>1, ConcatProperties
<1>5. /\ Len(x \o y) = Len(x) + Len(y) /\ Len(x) + Len(y) <= Len(items)
      /\ \A k \in 1..Len(y) : items[Len(x) + k] = y[k]
      /\ Begins(items, x)
  <2> HIDE DEF y
  <2>1. Begins(items, x \o y)
    BY DEF y
  <2>2. QED
    BY <1>2, <1>4, <2>1, BeginsLeft
<1>6. AttrSet(s, t, code) \in Sgrs
  BY SgrCodeAttr DEF AttrSet, Sgrs
<1>7. CASE Attr[code] \in s.on
  <2>1. y = <<<<code>>>>
    BY <1>7 DEF AttrParam
  <2>2. Len(y) = 1 /\ y[1] = <<code>>
    BY <2>1
  <2> HIDE DEF y
  <2> DEFINE e == Len(x) + 1
  <2>3. items[e] = <<code>>
    BY <1>5, <2>2
  <2>4. e \in 1..Len(items) /\ e - 1 = Len(x)
    BY <1>2, <1>5, <2>2
  <2> HIDE DEF e
  <2>5. run[e] = SgrTurn(items, run[e - 1], e)
    BY <1>3, <2>4, SgrUnfolds
  <2>6. run[e - 1] = [s |-> t, skip |-> 0]
    BY <2>4
  <2>7. items[e][1] = code
    BY <2>3
  <2>8. SgrTurn(items, [s |-> t, skip |-> 0], e) = [s |-> SgrCode(t, code), skip |-> 0]
    BY <2>7, SgrCodeAttr DEF SgrTurn
  <2>9. SgrCode(t, code) = AttrSet(s, t, code)
    BY <1>7, SgrCodeAttr DEF AttrSet
  <2>10. run[e] = [s |-> AttrSet(s, t, code), skip |-> 0]
    BY <2>5, <2>6, <2>8, <2>9
  <2>11. Len(x \o y) = e
    BY <1>5, <2>2 DEF e
  <2>12. QED
    BY <1>4, <1>5, <1>6, <2>10, <2>11 DEF y, ParamList, ParamOf
<1>8. CASE Attr[code] \notin s.on
  <2>1. y = <<>>
    BY <1>8 DEF AttrParam
  <2>2. x \o y = x
    BY <1>4, <2>1
  <2>3. AttrSet(s, t, code) = t
    <3>1. {Attr[code]} \cap s.on = {}
      BY <1>8
    <3>2. QED
      BY <3>1 DEF AttrSet, Sgrs
  <2>4. QED
    BY <1>4, <1>5, <1>6, <2>2, <2>3 DEF ParamList, ParamOf
<1>9. QED
  BY <1>7, <1>8

ColorSet(t, c, foreground) == IF foreground THEN [t EXCEPT !.fg = c] ELSE [t EXCEPT !.bg = c]
ColorOf(t, foreground) == IF foreground THEN t.fg ELSE t.bg
ColorCode(foreground) == IF foreground THEN 38 ELSE 48

\* A byte is a u16 and by itself a parameter.
LEMMA SmallNumbers == \A n \in 0..255 : n \in U16 /\ <<n>> \in ParamOf
<1>1. \A n \in 0..255 : n \in U16
  BY U16Is
<1>2. ASSUME NEW n \in U16 PROVE <<n>> \in ParamOf
  BY DEF ParamOf
<1>3. ASSUME NEW n \in 0..255 PROVE n \in U16 /\ <<n>> \in ParamOf
  BY <1>1, <1>2
<1>4. QED
  BY <1>3

\* What color_params writes are parameters.
LEMMA ColorParamsTyped ==
  ASSUME NEW c \in Colors, NEW foreground \in BOOLEAN
  PROVE  color_params(c, foreground) \in Seq(ParamOf)
<1>1. CASE c = NoColor
  BY <1>1 DEF color_params, NoColor
<1>2. CASE c # NoColor /\ c \in Palette
  <2> DEFINE n == c[2]
             e == (IF n < 8 THEN (IF foreground THEN 30 ELSE 40) ELSE (IF foreground THEN 90 ELSE 100)) + (n % 8)
  <2>1. c[1] = "palette" /\ n \in 0..15
    BY <1>2 DEF Palette
  <2>2. color_params(c, foreground) = <<<<e>>>>
    BY <1>2, <2>1 DEF color_params
  <2>3. n % 8 \in 0..7
    BY <2>1
  <2>4. e \in 0..255
    BY <2>1, <2>3
  <2> HIDE DEF e
  <2>5. <<e>> \in ParamOf
    BY <2>4, SmallNumbers
  <2>6. QED
    BY <2>2, <2>5
<1>3. CASE c # NoColor /\ c \in Indexed
  <2>1. c[1] = "indexed" /\ c[2] \in 0..255
    BY <1>3 DEF Indexed
  <2>2. color_params(c, foreground) = <<<<ColorCode(foreground)>>, <<5>>, <<c[2]>>>>
    BY <1>3, <2>1 DEF color_params, ColorCode
  <2> DEFINE m == ColorCode(foreground)
  <2>21. m \in 0..255 /\ 5 \in 0..255
    BY DEF ColorCode
  <2> HIDE DEF m
  <2>3. <<m>> \in ParamOf /\ <<5>> \in ParamOf /\ <<c[2]>> \in ParamOf
    BY <2>1, <2>21, SmallNumbers
  <2>4. QED
    BY <2>2, <2>3 DEF m
<1>4. CASE c # NoColor /\ c \in Rgb
  <2>1. c[1] = "rgb" /\ c[2] \in 0..255 /\ c[3] \in 0..255 /\ c[4] \in 0..255
    BY <1>4 DEF Rgb
  <2>2. color_params(c, foreground) =
          <<<<ColorCode(foreground)>>, <<2>>, <<c[2]>>, <<c[3]>>, <<c[4]>>>>
    BY <1>4, <2>1 DEF color_params, ColorCode
  <2> DEFINE m == ColorCode(foreground)
  <2>21. m \in 0..255 /\ 2 \in 0..255
    BY DEF ColorCode
  <2> HIDE DEF m
  <2>3. /\ <<m>> \in ParamOf /\ <<2>> \in ParamOf /\ <<c[2]>> \in ParamOf
        /\ <<c[3]>> \in ParamOf /\ <<c[4]>> \in ParamOf
    BY <2>1, <2>21, SmallNumbers
  <2>4. QED
    BY <2>2, <2>3 DEF m
<1>5. QED
  BY <1>1, <1>2, <1>3, <1>4 DEF Colors

\* A 38 or 48 that stands alone reads the parameters behind it.
LEMMA ColorValuesBehind ==
  ASSUME NEW items \in ParamList, NEW e \in 1..Len(items), Len(items[e]) = 1
  PROVE  /\ Len(items) \in Nat
         /\ Len(ColorValues(items, e)) = Len(items) - e
         /\ \A k \in 1..(Len(items) - e) : ColorValues(items, e)[k] = items[e + k][1]
<1> DEFINE N == Len(items) - e
           v == ColorValues(items, e)
<1>1. Len(items) \in Nat
  BY DEF ParamList
<1>2. N \in Nat
  BY <1>1
<1>3. v \in Seq(U16)
  BY ColorValuesTyped
<1>4. v = [k \in 1..N |-> items[e + k][1]]
  BY DEF ColorValues
<1> HIDE DEF v, N
<1>5. DOMAIN v = 1..N
  BY <1>4
<1>6. Len(v) = N
  BY <1>2, <1>3, <1>5, LenProperties
<1>7. \A k \in 1..N : v[k] = items[e + k][1]
  BY <1>4
<1>8. QED
  BY <1>1, <1>6, <1>7 DEF v, N

\* parse_extended_color reads back the colours that color_params writes.
LEMMA IndexedReadBack ==
  ASSUME NEW items \in ParamList, NEW e \in 1..Len(items), Len(items[e]) = 1, NEW c \in Indexed,
         e + 2 <= Len(items), items[e + 1] = << 5 >>, items[e + 2] = <<c[2]>>
  PROVE  parse_extended_color(items, e) = [color |-> c, consumed |-> 3]
<1> DEFINE v == ColorValues(items, e)
           L == Len(items)
           one == Len(v) > 0 /\ v[1] = 5 /\ Len(v) > 1 /\ \A k \in 2..(1 + 1) : v[k] <= 255
<1>1. one => parse_extended_color(items, e) = [color |-> <<"indexed", v[2]>>, consumed |-> 3]
  BY DEF parse_extended_color, ColorValues
<1>2. L \in Nat /\ Len(v) = L - e /\ \A k \in 1..(L - e) : v[k] = items[e + k][1]
  BY ColorValuesBehind
<1> HIDE DEF v, L
<1>3. 1 \in 1..(L - e) /\ 2 \in 1..(L - e) /\ Len(v) > 1 /\ Len(v) > 0
  BY <1>2 DEF L
<1>4. v[1] = items[e + 1][1] /\ v[2] = items[e + 2][1]
  BY <1>2, <1>3
<1>5. v[1] = 5 /\ v[2] = c[2]
  BY <1>4
<1>6. c = <<"indexed", c[2]>> /\ c[2] \in 0..255
  BY DEF Indexed
<1>7. one
  <2>1. \A k \in 2..(1 + 1) : k = 2
    OBVIOUS
  <2>2. \A n \in 0..255 : n <= 255
    OBVIOUS
  <2>3. v[2] <= 255
    BY <1>5, <1>6, <2>2
  <2>4. \A k \in 2..(1 + 1) : v[k] <= 255
    BY <2>1, <2>3
  <2>5. QED
    BY <1>3, <1>5, <2>4
<1> HIDE DEF one
<1>8. QED
  BY <1>1, <1>5, <1>6, <1>7

\* parse_extended_color reads back the RGB colour color_params wrote.
LEMMA RgbReadBack ==
  ASSUME NEW items \in ParamList, NEW e \in 1..Len(items), Len(items[e]) = 1, NEW c \in Rgb,
         e + 4 <= Len(items), items[e + 1] = << 2 >>, items[e + 2] = <<c[2]>>,
         items[e + 3] = <<c[3]>>, items[e + 4] = <<c[4]>>
  PROVE  parse_extended_color(items, e) = [color |-> c, consumed |-> 5]
<1> DEFINE v == ColorValues(items, e)
           L == Len(items)
           three == Len(v) > 0 /\ v[1] = 2 /\ Len(v) > 3 /\ \A k \in 2..(3 + 1) : v[k] <= 255
<1>1. three => parse_extended_color(items, e) =
                 [color |-> <<"rgb", v[2], v[3], v[4]>>, consumed |-> 5]
  BY DEF parse_extended_color, ColorValues
<1>2. L \in Nat /\ Len(v) = L - e /\ \A k \in 1..(L - e) : v[k] = items[e + k][1]
  BY ColorValuesBehind
<1> HIDE DEF v, L
<1>3. /\ 1 \in 1..(L - e) /\ 2 \in 1..(L - e) /\ 3 \in 1..(L - e) /\ 4 \in 1..(L - e)
      /\ Len(v) > 3 /\ Len(v) > 0
  BY <1>2 DEF L
<1>4. /\ v[1] = items[e + 1][1] /\ v[2] = items[e + 2][1]
      /\ v[3] = items[e + 3][1] /\ v[4] = items[e + 4][1]
  BY <1>2, <1>3
<1>5. v[1] = 2 /\ v[2] = c[2] /\ v[3] = c[3] /\ v[4] = c[4]
  BY <1>4
<1>6. c = <<"rgb", c[2], c[3], c[4]>> /\ c[2] <= 255 /\ c[3] <= 255 /\ c[4] <= 255
  <2>1. c = <<"rgb", c[2], c[3], c[4]>>
    BY DEF Rgb
  <2>2. c[2] \in 0..255 /\ c[3] \in 0..255 /\ c[4] \in 0..255
    BY DEF Rgb
  <2>3. \A n \in 0..255 : n <= 255
    OBVIOUS
  <2>4. QED
    BY <2>1, <2>2, <2>3
<1>7. \A k \in 2..(3 + 1) : v[k] <= 255
  <2>1. \A k \in 2..(3 + 1) : k = 2 \/ k = 3 \/ k = 4
    OBVIOUS
  <2>2. v[2] <= 255 /\ v[3] <= 255 /\ v[4] <= 255
    BY <1>5, <1>6
  <2>3. QED
    BY <2>1, <2>2
<1>8. three
  BY <1>3, <1>5, <1>7
<1> HIDE DEF three
<1>9. QED
  BY <1>1, <1>5, <1>6, <1>8

\* Turns that only skip.
LEMMA SgrSkips ==
  ASSUME NEW items \in ParamList, NEW n \in 1..Len(items), NEW t \in Sgrs, NEW k \in Nat \ {0},
         SgrRun(PlainSgr, items)[n - 1] = [s |-> t, skip |-> k]
  PROVE  SgrRun(PlainSgr, items)[n] = [s |-> t, skip |-> k - 1]
<1>1. PlainSgr \in Sgrs
  BY NoColorIsColor DEF PlainSgr, Sgrs
<1>2. SgrRun(PlainSgr, items)[n] = SgrTurn(items, SgrRun(PlainSgr, items)[n - 1], n)
  BY <1>1, SgrUnfolds
<1>3. SgrTurn(items, [s |-> t, skip |-> k], n) = [s |-> t, skip |-> k - 1]
  BY DEF SgrTurn
<1>4. QED
  BY <1>2, <1>3

\* A list that begins with two blocks has the second behind the first.
LEMMA BeginsCut ==
  ASSUME NEW items \in ParamList, NEW x \in Seq(ParamOf), NEW y \in Seq(ParamOf), Begins(items, x \o y)
  PROVE  /\ Len(x \o y) = Len(x) + Len(y) /\ Len(x) + Len(y) <= Len(items)
         /\ \A k \in 1..Len(y) : items[Len(x) + k] = y[k]
         /\ Begins(items, x)
<1>1. Len(items) \in Nat
  BY DEF ParamList
<1>2. QED
  BY <1>1, BeginsLeft

\* The parameters of a colour set the colour.
LEMMA ColorBlock ==
  ASSUME NEW t \in Sgrs, NEW c \in Colors, NEW foreground \in BOOLEAN,
         NEW items \in ParamList, NEW x \in ParamList,
         Begins(items, x \o color_params(c, foreground)),
         SgrRun(PlainSgr, items)[Len(x)] = [s |-> t, skip |-> 0],
         ColorOf(t, foreground) = NoColor
  PROVE  /\ SgrRun(PlainSgr, items)[Len(x \o color_params(c, foreground))]
              = [s |-> ColorSet(t, c, foreground), skip |-> 0]
         /\ ColorSet(t, c, foreground) \in Sgrs /\ Begins(items, x)
         /\ x \o color_params(c, foreground) \in ParamList
<1> DEFINE y == color_params(c, foreground)
<1>1. PlainSgr \in Sgrs
  BY NoColorIsColor DEF PlainSgr, Sgrs
<1>2. Len(items) \in Nat /\ Len(x) \in Nat
  BY DEF ParamList
<1>3. /\ x \in Seq(ParamOf) /\ y \in Seq(ParamOf)
      /\ x \o y \in Seq(ParamOf)
  <2>1. x \in Seq(ParamOf) /\ y \in Seq(ParamOf)
    BY ColorParamsTyped DEF ParamList, ParamOf
  <2> HIDE DEF y
  <2>2. QED
    BY <2>1, ConcatProperties
<1>4. /\ Len(x \o y) = Len(x) + Len(y) /\ Len(x) + Len(y) <= Len(items)
      /\ \A k \in 1..Len(y) : items[Len(x) + k] = y[k]
      /\ Begins(items, x)
  <2> HIDE DEF y
  <2>1. Begins(items, x \o y)
    BY DEF y
  <2>2. QED
    BY <1>3, <2>1, BeginsCut
<1> DEFINE run == SgrRun(PlainSgr, items)
           e == Len(x) + 1
           code == ColorCode(foreground)
           u == ColorSet(t, c, foreground)
<1>5. u \in Sgrs
  BY DEF ColorSet, Sgrs
<1>6. x \o y \in ParamList
  BY <1>3 DEF ParamList, ParamOf
<1>7. code \in {38, 48} /\ (code = 38 <=> foreground)
  BY DEF ColorCode
<1> HIDE DEF run, u
<1>8. \A n \in 1..Len(items) : run[n] = SgrTurn(items, run[n - 1], n)
  BY <1>1, SgrUnfolds DEF run
<1>9. \A n \in 1..Len(items), k \in Nat \ {0} :
        run[n - 1] = [s |-> u, skip |-> k] => run[n] = [s |-> u, skip |-> k - 1]
  BY <1>5, SgrSkips DEF run
<1>10. run[Len(x)] = [s |-> t, skip |-> 0]
  BY DEF run
\* The code of an extended colour, where the colour has been read.
<1>11. ASSUME NEW k \in 2..4, Len(y) = k + 1, y[1] = <<code>>, c # NoColor,
              parse_extended_color(items, e) = [color |-> c, consumed |-> k + 1]
       PROVE  e \in 1..Len(items) /\ run[e] = [s |-> u, skip |-> k]
  <2>1. e \in 1..Len(items) /\ e - 1 = Len(x) /\ 1 \in 1..Len(y)
    BY <1>2, <1>4, <1>11
  <2>2. items[e] = <<code>>
    BY <1>4, <1>11, <2>1
  <2> HIDE DEF e, code, y
  <2>3. items[e][1] = code
    BY <2>2
  <2>4. (k + 1) - 1 = k
    OBVIOUS
  <2>5. SgrTurn(items, [s |-> t, skip |-> 0], e)
          = [s |-> IF code = 38 THEN [t EXCEPT !.fg = c] ELSE [t EXCEPT !.bg = c],
             skip |-> (k + 1) - 1]
    BY <1>7, <1>11, <2>3 DEF SgrTurn
  <2>6. u = IF code = 38 THEN [t EXCEPT !.fg = c] ELSE [t EXCEPT !.bg = c]
    BY <1>7 DEF u, ColorSet
  <2>7. run[e] = SgrTurn(items, run[e - 1], e) /\ run[e - 1] = [s |-> t, skip |-> 0]
    BY <1>8, <1>10, <2>1
  <2>8. QED
    BY <2>1, <2>4, <2>5, <2>6, <2>7
<1>12. CASE c = NoColor
  <2>1. y = <<>>
    BY <1>12 DEF color_params, NoColor
  <2>2. x \o y = x
    BY <1>3, <2>1
  <2>3. u = t
    BY <1>12 DEF u, ColorSet, ColorOf, Sgrs
  <2>4. QED
    BY <1>4, <1>5, <1>6, <1>10, <2>2, <2>3 DEF u, run
<1>13. CASE c # NoColor /\ c \in Palette
  <2> DEFINE n == c[2]
             f == IF foreground THEN (IF n < 8 THEN 30 ELSE 90) + (n % 8)
                                ELSE (IF n < 8 THEN 40 ELSE 100) + (n % 8)
  <2>1. c[1] = "palette" /\ n \in 0..15 /\ c = <<"palette", n>>
    BY <1>13 DEF Palette
  <2>2. y = <<<<f>>>>
    BY <1>13, <2>1 DEF color_params
  <2>3. SgrCode(t, f) = ColorSet(t, c, foreground) /\ f \notin {38, 48}
    <3> HIDE DEF n
    <3>1. CASE foreground
      BY <2>1, <3>1, SgrCodePalette DEF ColorSet
    <3>2. CASE ~foreground
      BY <2>1, <3>2, SgrCodePalette DEF ColorSet
    <3>3. QED
      BY <3>1, <3>2
  <2> HIDE DEF f
  <2>4. Len(y) = 1 /\ y[1] = <<f>>
    BY <2>2
  <2>5. e \in 1..Len(items) /\ e - 1 = Len(x) /\ 1 \in 1..Len(y)
    BY <1>2, <1>4, <2>4
  <2>6. items[e] = <<f>>
    BY <1>4, <2>4, <2>5
  <2>7. Len(x \o y) = e
    BY <1>4, <2>4
  <2> HIDE DEF e, y
  <2>8. items[e][1] = f
    BY <2>6
  <2>9. SgrTurn(items, [s |-> t, skip |-> 0], e) = [s |-> SgrCode(t, f), skip |-> 0]
    BY <2>3, <2>8 DEF SgrTurn
  <2>10. run[e] = SgrTurn(items, run[e - 1], e) /\ run[e - 1] = [s |-> t, skip |-> 0]
    BY <1>8, <1>10, <2>5
  <2>11. run[e] = [s |-> u, skip |-> 0]
    BY <2>3, <2>9, <2>10 DEF u
  <2>12. QED
    BY <1>4, <1>5, <1>6, <2>7, <2>11 DEF u, run, y
<1>14. CASE c # NoColor /\ c \in Indexed
  <2> DEFINE n == c[2]
  <2>1. c[1] = "indexed" /\ n \in 0..255 /\ c = <<"indexed", n>>
    BY <1>14 DEF Indexed
  <2>2. y = <<<<code>>, <<5>>, <<n>>>>
    BY <1>14, <2>1 DEF color_params, ColorCode
  <2> HIDE DEF code, n
  <2>3. Len(y) = 3 /\ y[1] = <<code>> /\ y[2] = <<5>> /\ y[3] = <<n>>
    BY <2>2
  <2> HIDE DEF y
  <2>4. /\ e \in 1..Len(items) /\ e + 2 <= Len(items)
        /\ e + 1 = Len(x) + 2 /\ e + 2 = Len(x) + 3
        /\ 1 \in 1..Len(y) /\ 2 \in 1..Len(y) /\ 3 \in 1..Len(y)
    BY <1>2, <1>4, <2>3
  <2>5. items[e] = <<code>> /\ items[e + 1] = <<5>> /\ items[e + 2] = <<n>>
    <3>1. items[Len(x) + 1] = y[1] /\ items[Len(x) + 2] = y[2] /\ items[Len(x) + 3] = y[3]
      BY <1>4, <2>4
    <3>2. QED
      BY <2>3, <2>4, <3>1
  <2>6. Len(x \o y) = e + 2
    BY <1>4, <2>3, <2>4
  <2> HIDE DEF e
  <2>7. Len(items[e]) = 1
    BY <2>5
  <2>8. parse_extended_color(items, e) = [color |-> c, consumed |-> 2 + 1]
    <3>1. parse_extended_color(items, e) = [color |-> c, consumed |-> 3]
      <4>1. c \in Indexed /\ e \in 1..Len(items) /\ e + 2 <= Len(items)
        BY <1>14, <2>4
      <4>2. items[e + 1] = <<5>> /\ items[e + 2] = <<c[2]>>
        BY <2>5 DEF n
      <4>3. QED
        BY <4>1, <4>2, <2>7, IndexedReadBack
    <3>2. 2 + 1 = 3
      OBVIOUS
    <3>3. QED
      BY <2>1, <3>1, <3>2
  <2>9. run[e] = [s |-> u, skip |-> 2]
    BY <1>11, <1>14, <2>3, <2>8
  <2>10. run[e + 1] = [s |-> u, skip |-> 1]
    <3>1. e + 1 \in 1..Len(items) /\ (e + 1) - 1 = e /\ 2 - 1 = 1
      BY <1>2, <2>4
    <3>2. QED
      BY <1>9, <2>9, <3>1
  <2>11. run[e + 2] = [s |-> u, skip |-> 0]
    <3>1. e + 2 \in 1..Len(items) /\ (e + 2) - 1 = e + 1 /\ 1 - 1 = 0
      BY <1>2, <2>4
    <3>2. QED
      BY <1>9, <2>10, <3>1
  <2>12. QED
    BY <1>4, <1>5, <1>6, <2>6, <2>11 DEF u, run, y
<1>15. CASE c # NoColor /\ c \in Rgb
  <2> DEFINE r == c[2]
             g == c[3]
             b == c[4]
  <2>1. /\ c[1] = "rgb" /\ r \in 0..255 /\ g \in 0..255 /\ b \in 0..255
        /\ c = <<"rgb", r, g, b>>
    BY <1>15 DEF Rgb
  <2>2. y = <<<<code>>, <<2>>, <<r>>, <<g>>, <<b>>>>
    BY <1>15, <2>1 DEF color_params, ColorCode
  <2> HIDE DEF code, r, g, b
  <2>3. Len(y) = 5 /\ y[1] = <<code>> /\ y[2] = <<2>> /\ y[3] = <<r>> /\ y[4] = <<g>> /\ y[5] = <<b>>
    BY <2>2
  <2> HIDE DEF y
  <2>4. /\ e \in 1..Len(items) /\ e + 4 <= Len(items)
        /\ e + 1 = Len(x) + 2 /\ e + 2 = Len(x) + 3 /\ e + 3 = Len(x) + 4 /\ e + 4 = Len(x) + 5
        /\ 1 \in 1..Len(y) /\ 2 \in 1..Len(y) /\ 3 \in 1..Len(y) /\ 4 \in 1..Len(y) /\ 5 \in 1..Len(y)
    BY <1>2, <1>4, <2>3
  <2>5. /\ items[e] = <<code>> /\ items[e + 1] = <<2>> /\ items[e + 2] = <<r>>
        /\ items[e + 3] = <<g>> /\ items[e + 4] = <<b>>
    <3>1. /\ items[Len(x) + 1] = y[1] /\ items[Len(x) + 2] = y[2] /\ items[Len(x) + 3] = y[3]
          /\ items[Len(x) + 4] = y[4] /\ items[Len(x) + 5] = y[5]
      BY <1>4, <2>4
    <3>2. QED
      BY <2>3, <2>4, <3>1
  <2>6. Len(x \o y) = e + 4
    BY <1>4, <2>3, <2>4
  <2> HIDE DEF e
  <2>7. Len(items[e]) = 1
    BY <2>5
  <2>8. parse_extended_color(items, e) = [color |-> c, consumed |-> 4 + 1]
    <3>1. parse_extended_color(items, e) = [color |-> c, consumed |-> 5]
      <4>1. c \in Rgb /\ e \in 1..Len(items) /\ e + 4 <= Len(items)
        BY <1>15, <2>4
      <4>2. /\ items[e + 1] = <<2>> /\ items[e + 2] = <<c[2]>>
            /\ items[e + 3] = <<c[3]>> /\ items[e + 4] = <<c[4]>>
        BY <2>5 DEF r, g, b
      <4>3. QED
        BY <4>1, <4>2, <2>7, RgbReadBack
    <3>2. 4 + 1 = 5
      OBVIOUS
    <3>3. QED
      BY <2>1, <3>1, <3>2
  <2>9. run[e] = [s |-> u, skip |-> 4]
    BY <1>11, <1>15, <2>3, <2>8
  <2>10. run[e + 1] = [s |-> u, skip |-> 3]
    <3>1. e + 1 \in 1..Len(items) /\ (e + 1) - 1 = e /\ 4 - 1 = 3
      BY <1>2, <2>4
    <3>2. QED
      BY <1>9, <2>9, <3>1
  <2>11. run[e + 2] = [s |-> u, skip |-> 2]
    <3>1. e + 2 \in 1..Len(items) /\ (e + 2) - 1 = e + 1 /\ 3 - 1 = 2
      BY <1>2, <2>4
    <3>2. QED
      BY <1>9, <2>10, <3>1
  <2>12. run[e + 3] = [s |-> u, skip |-> 1]
    <3>1. e + 3 \in 1..Len(items) /\ (e + 3) - 1 = e + 2 /\ 2 - 1 = 1
      BY <1>2, <2>4
    <3>2. QED
      BY <1>9, <2>11, <3>1
  <2>13. run[e + 4] = [s |-> u, skip |-> 0]
    <3>1. e + 4 \in 1..Len(items) /\ (e + 4) - 1 = e + 3 /\ 1 - 1 = 0
      BY <1>2, <2>4
    <3>2. QED
      BY <1>9, <2>12, <3>1
  <2>14. QED
    BY <1>4, <1>5, <1>6, <2>6, <2>13 DEF u, run, y
<1>16. QED
  BY <1>12, <1>13, <1>14, <1>15 DEF Colors

\* sgr reads back the foreground color_params wrote.
LEMMA ForegroundBlock ==
  ASSUME NEW t \in Sgrs, NEW c \in Colors, NEW items \in ParamList, NEW x \in ParamList,
         Begins(items, x \o color_params(c, TRUE)),
         SgrRun(PlainSgr, items)[Len(x)] = [s |-> t, skip |-> 0],
         ColorOf(t, TRUE) = NoColor
  PROVE  /\ SgrRun(PlainSgr, items)[Len(x \o color_params(c, TRUE))]
              = [s |-> ColorSet(t, c, TRUE), skip |-> 0]
         /\ ColorSet(t, c, TRUE) \in Sgrs
<1> DEFINE f == TRUE
<1>1. f \in BOOLEAN
  OBVIOUS
<1>2. Begins(items, x \o color_params(c, f)) /\ ColorOf(t, f) = NoColor
  OBVIOUS
<1> HIDE DEF f
<1>3. /\ SgrRun(PlainSgr, items)[Len(x \o color_params(c, f))] = [s |-> ColorSet(t, c, f), skip |-> 0]
      /\ ColorSet(t, c, f) \in Sgrs
  BY <1>1, <1>2, ColorBlock
<1>4. QED
  BY <1>3 DEF f

\* And the background.
LEMMA BackgroundBlock ==
  ASSUME NEW t \in Sgrs, NEW c \in Colors, NEW items \in ParamList, NEW x \in ParamList,
         Begins(items, x \o color_params(c, FALSE)),
         SgrRun(PlainSgr, items)[Len(x)] = [s |-> t, skip |-> 0],
         ColorOf(t, FALSE) = NoColor
  PROVE  /\ SgrRun(PlainSgr, items)[Len(x \o color_params(c, FALSE))]
              = [s |-> ColorSet(t, c, FALSE), skip |-> 0]
         /\ ColorSet(t, c, FALSE) \in Sgrs
<1> DEFINE f == FALSE
<1>1. f \in BOOLEAN
  OBVIOUS
<1>2. Begins(items, x \o color_params(c, f)) /\ ColorOf(t, f) = NoColor
  OBVIOUS
<1> HIDE DEF f
<1>3. /\ SgrRun(PlainSgr, items)[Len(x \o color_params(c, f))] = [s |-> ColorSet(t, c, f), skip |-> 0]
      /\ ColorSet(t, c, f) \in Sgrs
  BY <1>1, <1>2, ColorBlock
<1>4. QED
  BY <1>3 DEF f

SgrParams(s) ==
  AttrParam(s, 1) \o AttrParam(s, 2) \o AttrParam(s, 3) \o AttrParam(s, 4)
    \o AttrParam(s, 5) \o AttrParam(s, 7) \o AttrParam(s, 9)
    \o color_params(s.fg, TRUE) \o color_params(s.bg, FALSE)

\* What apply_sgr writes for an attribute are parameters.
LEMMA AttrParamTyped ==
  ASSUME NEW s, NEW code \in {1, 2, 3, 4, 5, 7, 9}
  PROVE  AttrParam(s, code) \in Seq(ParamOf)
<1>1. code \in 0..255
  OBVIOUS
<1>2. <<code>> \in ParamOf
  BY <1>1, SmallNumbers
<1>3. <<>> \in Seq(ParamOf) /\ <<<<code>>>> \in Seq(ParamOf)
  BY <1>2
<1>4. QED
  BY <1>3 DEF AttrParam

\* Lists of parameters joined are a list of parameters.
LEMMA JoinTyped ==
  ASSUME NEW x \in Seq(ParamOf), NEW y \in Seq(ParamOf)
  PROVE  x \o y \in Seq(ParamOf)
BY ConcatProperties

\* sgr gives a plain terminal the attributes and colours apply_sgr wrote down.
LEMMA SgrBack ==
  ASSUME NEW s \in Sgrs
  PROVE  /\ SgrParams(s) \in ParamList
         /\ sgr(PlainSgr, SgrParams(s)) = s
<1> DEFINE x0 == <<>>
           x1 == AttrParam(s, 1)
           x2 == x1 \o AttrParam(s, 2)
           x3 == x2 \o AttrParam(s, 3)
           x4 == x3 \o AttrParam(s, 4)
           x5 == x4 \o AttrParam(s, 5)
           x6 == x5 \o AttrParam(s, 7)
           x7 == x6 \o AttrParam(s, 9)
           x8 == x7 \o color_params(s.fg, TRUE)
           x9 == x8 \o color_params(s.bg, FALSE)
<1>1. SgrParams(s) = x9
  BY DEF SgrParams
<1>2. s.fg \in Colors /\ s.bg \in Colors /\ s.on \in SUBSET AttrNames
  BY DEF Sgrs
<1>3. x1 \in Seq(ParamOf)
  BY AttrParamTyped
<1>4. x2 \in Seq(ParamOf)
  <2>1. AttrParam(s, 2) \in Seq(ParamOf)
    BY AttrParamTyped
  <2> HIDE DEF x1
  <2>2. QED
    BY <1>3, <2>1, JoinTyped
<1>5. x3 \in Seq(ParamOf)
  <2>1. AttrParam(s, 3) \in Seq(ParamOf)
    BY AttrParamTyped
  <2> HIDE DEF x2
  <2>2. QED
    BY <1>4, <2>1, JoinTyped
<1>6. x4 \in Seq(ParamOf)
  <2>1. AttrParam(s, 4) \in Seq(ParamOf)
    BY AttrParamTyped
  <2> HIDE DEF x3
  <2>2. QED
    BY <1>5, <2>1, JoinTyped
<1>7. x5 \in Seq(ParamOf)
  <2>1. AttrParam(s, 5) \in Seq(ParamOf)
    BY AttrParamTyped
  <2> HIDE DEF x4
  <2>2. QED
    BY <1>6, <2>1, JoinTyped
<1>8. x6 \in Seq(ParamOf)
  <2>1. AttrParam(s, 7) \in Seq(ParamOf)
    BY AttrParamTyped
  <2> HIDE DEF x5
  <2>2. QED
    BY <1>7, <2>1, JoinTyped
<1>9. x7 \in Seq(ParamOf)
  <2>1. AttrParam(s, 9) \in Seq(ParamOf)
    BY AttrParamTyped
  <2> HIDE DEF x6
  <2>2. QED
    BY <1>8, <2>1, JoinTyped
<1>10. x8 \in Seq(ParamOf)
  <2>1. color_params(s.fg, TRUE) \in Seq(ParamOf)
    BY <1>2, ColorParamsTyped
  <2> HIDE DEF x7
  <2>2. QED
    BY <1>9, <2>1, JoinTyped
<1>11. x9 \in Seq(ParamOf)
  <2>1. color_params(s.bg, FALSE) \in Seq(ParamOf)
    BY <1>2, ColorParamsTyped
  <2> HIDE DEF x8
  <2>2. QED
    BY <1>10, <2>1, JoinTyped
<1>12. x9 \in ParamList
  BY <1>11 DEF ParamList, ParamOf
<1> DEFINE items == x9
<1>13. Begins(items, x9)
  <2> HIDE DEF x9
  <2>1. Len(x9) \in Nat
    BY <1>11, LenProperties
  <2>2. QED
    BY <2>1 DEF Begins
<1> HIDE DEF items
<1>14. items \in ParamList
  BY <1>12 DEF items
<1>15. Begins(items, x8)
  <2>1. color_params(s.bg, FALSE) \in Seq(ParamOf)
    BY <1>2, ColorParamsTyped
  <2> HIDE DEF x8
  <2>2. QED
    BY <1>10, <1>13, <1>14, <2>1, BeginsCut
<1>16. Begins(items, x7)
  <2>1. color_params(s.fg, TRUE) \in Seq(ParamOf)
    BY <1>2, ColorParamsTyped
  <2> HIDE DEF x7
  <2>2. QED
    BY <1>9, <1>15, <1>14, <2>1, BeginsCut
<1>17. Begins(items, x6)
  <2>1. AttrParam(s, 9) \in Seq(ParamOf)
    BY AttrParamTyped
  <2> HIDE DEF x6
  <2>2. QED
    BY <1>8, <1>16, <1>14, <2>1, BeginsCut
<1>18. Begins(items, x5)
  <2>1. AttrParam(s, 7) \in Seq(ParamOf)
    BY AttrParamTyped
  <2> HIDE DEF x5
  <2>2. QED
    BY <1>7, <1>17, <1>14, <2>1, BeginsCut
<1>19. Begins(items, x4)
  <2>1. AttrParam(s, 5) \in Seq(ParamOf)
    BY AttrParamTyped
  <2> HIDE DEF x4
  <2>2. QED
    BY <1>6, <1>18, <1>14, <2>1, BeginsCut
<1>20. Begins(items, x3)
  <2>1. AttrParam(s, 4) \in Seq(ParamOf)
    BY AttrParamTyped
  <2> HIDE DEF x3
  <2>2. QED
    BY <1>5, <1>19, <1>14, <2>1, BeginsCut
<1>21. Begins(items, x2)
  <2>1. AttrParam(s, 3) \in Seq(ParamOf)
    BY AttrParamTyped
  <2> HIDE DEF x2
  <2>2. QED
    BY <1>4, <1>20, <1>14, <2>1, BeginsCut
<1>22. Begins(items, x1)
  <2>1. AttrParam(s, 2) \in Seq(ParamOf)
    BY AttrParamTyped
  <2> HIDE DEF x1
  <2>2. QED
    BY <1>3, <1>21, <1>14, <2>1, BeginsCut
<1>23. PlainSgr \in Sgrs /\ PlainSgr.on = {} /\ PlainSgr.fg = NoColor /\ PlainSgr.bg = NoColor
  BY NoColorIsColor DEF PlainSgr, Sgrs
<1> DEFINE run == SgrRun(PlainSgr, items)
           t0 == PlainSgr
           t1 == AttrSet(s, t0, 1)
           t2 == AttrSet(s, t1, 2)
           t3 == AttrSet(s, t2, 3)
           t4 == AttrSet(s, t3, 4)
           t5 == AttrSet(s, t4, 5)
           t6 == AttrSet(s, t5, 7)
           t7 == AttrSet(s, t6, 9)
           t8 == ColorSet(t7, s.fg, TRUE)
           t9 == ColorSet(t8, s.bg, FALSE)
<1>24. run[0] = [s |-> t0, skip |-> 0]
  BY <1>14, <1>23, SgrUnfolds
<1>25. run[Len(x1)] = [s |-> t1, skip |-> 0] /\ t1 \in Sgrs
  <2> DEFINE z == <<>>
  <2>1. z \in ParamList /\ Len(z) = 0
    BY DEF ParamList
  <2>01. z \in ParamList
    BY <2>1
  <2>2. z \o AttrParam(s, 1) = x1
    BY AttrParamTyped
  <2> HIDE DEF z, x1
  <2>3. Begins(items, z \o AttrParam(s, 1)) /\ run[Len(z)] = [s |-> t0, skip |-> 0]
    BY <1>22, <1>24, <2>1, <2>2
  <2>4. 1 \in DOMAIN Attr
    BY AttrTable
  <2> HIDE DEF t0
  <2>5. t0 \in Sgrs
    BY <1>23 DEF t0
  <2>6. /\ run[Len(z \o AttrParam(s, 1))] = [s |-> AttrSet(s, t0, 1), skip |-> 0]
        /\ AttrSet(s, t0, 1) \in Sgrs
    <3> DEFINE c == 1
    <3>1. c \in DOMAIN Attr /\ Begins(items, z \o AttrParam(s, c))
      BY <2>3, <2>4
    <3> HIDE DEF c
    <3>2. /\ run[Len(z \o AttrParam(s, c))] = [s |-> AttrSet(s, t0, c), skip |-> 0]
          /\ AttrSet(s, t0, c) \in Sgrs
      BY <1>14, <2>01, <2>3, <2>5, <3>1, AttrBlock
    <3>3. QED
      BY <3>2 DEF c
  <2>7. QED
    BY <2>2, <2>6
<1>26. run[Len(x2)] = [s |-> t2, skip |-> 0] /\ t2 \in Sgrs
  <2> HIDE DEF x1, t1
  <2>1. x1 \in ParamList
    BY <1>3 DEF ParamList, ParamOf
  <2>2. 2 \in DOMAIN Attr
    BY AttrTable
  <2>3. QED
    BY <1>14, <1>21, <1>25, <2>1, <2>2, AttrBlock
<1>27. run[Len(x3)] = [s |-> t3, skip |-> 0] /\ t3 \in Sgrs
  <2> HIDE DEF x2, t2
  <2>1. x2 \in ParamList
    BY <1>4 DEF ParamList, ParamOf
  <2>2. 3 \in DOMAIN Attr
    BY AttrTable
  <2>3. QED
    BY <1>14, <1>20, <1>26, <2>1, <2>2, AttrBlock
<1>28. run[Len(x4)] = [s |-> t4, skip |-> 0] /\ t4 \in Sgrs
  <2> HIDE DEF x3, t3
  <2>1. x3 \in ParamList
    BY <1>5 DEF ParamList, ParamOf
  <2>2. 4 \in DOMAIN Attr
    BY AttrTable
  <2>3. QED
    BY <1>14, <1>19, <1>27, <2>1, <2>2, AttrBlock
<1>29. run[Len(x5)] = [s |-> t5, skip |-> 0] /\ t5 \in Sgrs
  <2> HIDE DEF x4, t4
  <2>1. x4 \in ParamList
    BY <1>6 DEF ParamList, ParamOf
  <2>2. 5 \in DOMAIN Attr
    BY AttrTable
  <2>3. QED
    BY <1>14, <1>18, <1>28, <2>1, <2>2, AttrBlock
<1>30. run[Len(x6)] = [s |-> t6, skip |-> 0] /\ t6 \in Sgrs
  <2> HIDE DEF x5, t5
  <2>1. x5 \in ParamList
    BY <1>7 DEF ParamList, ParamOf
  <2>2. 7 \in DOMAIN Attr
    BY AttrTable
  <2>3. QED
    BY <1>14, <1>17, <1>29, <2>1, <2>2, AttrBlock
<1>31. run[Len(x7)] = [s |-> t7, skip |-> 0] /\ t7 \in Sgrs
  <2> HIDE DEF x6, t6
  <2>1. x6 \in ParamList
    BY <1>8 DEF ParamList, ParamOf
  <2>2. 9 \in DOMAIN Attr
    BY AttrTable
  <2>3. QED
    BY <1>14, <1>16, <1>30, <2>1, <2>2, AttrBlock
<1>32. t7.fg = NoColor /\ t7.bg = NoColor /\ t7.on = s.on
  <2>1. t1.fg = NoColor /\ t1.bg = NoColor /\ t1.on = t0.on \cup ({Attr[1]} \cap s.on)
    <3>1. t0 \in Sgrs /\ t0.fg = NoColor /\ t0.bg = NoColor
      BY <1>23
    <3> HIDE DEF t0
    <3>2. QED
      BY <3>1 DEF AttrSet, Sgrs
  <2>2. t2.fg = NoColor /\ t2.bg = NoColor /\ t2.on = t1.on \cup ({Attr[2]} \cap s.on)
    <3>1. t1 \in Sgrs /\ t1.fg = NoColor /\ t1.bg = NoColor
      BY <1>25, <2>1
    <3> HIDE DEF t1
    <3>2. QED
      BY <3>1 DEF AttrSet, Sgrs
  <2>3. t3.fg = NoColor /\ t3.bg = NoColor /\ t3.on = t2.on \cup ({Attr[3]} \cap s.on)
    <3>1. t2 \in Sgrs /\ t2.fg = NoColor /\ t2.bg = NoColor
      BY <1>26, <2>2
    <3> HIDE DEF t2
    <3>2. QED
      BY <3>1 DEF AttrSet, Sgrs
  <2>4. t4.fg = NoColor /\ t4.bg = NoColor /\ t4.on = t3.on \cup ({Attr[4]} \cap s.on)
    <3>1. t3 \in Sgrs /\ t3.fg = NoColor /\ t3.bg = NoColor
      BY <1>27, <2>3
    <3> HIDE DEF t3
    <3>2. QED
      BY <3>1 DEF AttrSet, Sgrs
  <2>5. t5.fg = NoColor /\ t5.bg = NoColor /\ t5.on = t4.on \cup ({Attr[5]} \cap s.on)
    <3>1. t4 \in Sgrs /\ t4.fg = NoColor /\ t4.bg = NoColor
      BY <1>28, <2>4
    <3> HIDE DEF t4
    <3>2. QED
      BY <3>1 DEF AttrSet, Sgrs
  <2>6. t6.fg = NoColor /\ t6.bg = NoColor /\ t6.on = t5.on \cup ({Attr[7]} \cap s.on)
    <3>1. t5 \in Sgrs /\ t5.fg = NoColor /\ t5.bg = NoColor
      BY <1>29, <2>5
    <3> HIDE DEF t5
    <3>2. QED
      BY <3>1 DEF AttrSet, Sgrs
  <2>7. t7.fg = NoColor /\ t7.bg = NoColor /\ t7.on = t6.on \cup ({Attr[9]} \cap s.on)
    <3>1. t6 \in Sgrs /\ t6.fg = NoColor /\ t6.bg = NoColor
      BY <1>30, <2>6
    <3> HIDE DEF t6
    <3>2. QED
      BY <3>1 DEF AttrSet, Sgrs
  <2> HIDE DEF t1, t2, t3, t4, t5, t6, t7
  <2>8. t0.on = {}
    BY <1>23
  <2> HIDE DEF t0
  <2>9. t7.on = s.on
    <3>1. t7.on = s.on \cap {Attr[1], Attr[2], Attr[3], Attr[4], Attr[5], Attr[7], Attr[9]}
      BY <2>1, <2>2, <2>3, <2>4, <2>5, <2>6, <2>7, <2>8
    <3>2. {Attr[1], Attr[2], Attr[3], Attr[4], Attr[5], Attr[7], Attr[9]} = AttrNames
      BY AttrTable DEF AttrNames
    <3>3. QED
      BY <1>2, <3>1, <3>2
  <2>10. QED
    BY <2>7, <2>9
<1>33. run[Len(x8)] = [s |-> t8, skip |-> 0] /\ t8 \in Sgrs
  <2> HIDE DEF x7, t7
  <2>1. x7 \in ParamList
    BY <1>9 DEF ParamList, ParamOf
  <2>2. ColorOf(t7, TRUE) = NoColor
    BY <1>32 DEF ColorOf
  <2>3. QED
    BY <1>2, <1>14, <1>15, <1>31, <2>1, <2>2, ForegroundBlock
<1>34. run[Len(x9)] = [s |-> t9, skip |-> 0] /\ t9 \in Sgrs
  <2>1. ColorOf(t8, FALSE) = NoColor
    <3> HIDE DEF t7
    <3>1. QED
      BY <1>31, <1>32 DEF ColorOf, ColorSet, Sgrs
  <2> HIDE DEF x8, t8
  <2>2. x8 \in ParamList
    BY <1>10 DEF ParamList, ParamOf
  <2>3. QED
    BY <1>2, <1>14, <1>13, <1>33, <2>1, <2>2, BackgroundBlock
<1>35. t9 = s
  <2> HIDE DEF t7
  <2>1. t9.on = s.on /\ t9.fg = s.fg /\ t9.bg = s.bg
    BY <1>31, <1>32 DEF ColorSet, Sgrs
  <2> HIDE DEF t9
  <2>2. QED
    BY <1>34, <2>1 DEF Sgrs
<1>36. sgr(PlainSgr, items) = s
  <2> HIDE DEF x9, t9
  <2>1. CASE items = <<>>
    <3>1. Len(x9) = 0
      BY <2>1 DEF items
    <3>2. t9 = PlainSgr
      BY <1>24, <1>34, <3>1
    <3>3. QED
      BY <1>14, <1>23, <1>35, <2>1, <3>2, SgrUnfolds
  <2>2. CASE items # <<>>
    <3>1. sgr(PlainSgr, items) = run[Len(items)].s
      BY <1>14, <1>23, <2>2, SgrUnfolds
    <3>2. QED
      BY <1>34, <1>35, <3>1 DEF items
  <2>3. QED
    BY <2>1, <2>2
<1>37. QED
  BY <1>1, <1>14, <1>36 DEF items

-----------------------------------------------------------------------------
(* Replaying the prefix *)

\* What a prefix is made of.
Sent(C) ==
  [kind : {"csi", "esc", "execute"}, marker : {"", "?", "(", ")", "*", "+"},
   params : ParamList, final : C]

HasFinals(C) == {"m", "h", "l", "H", "si"} \subseteq C

\* What the prefix sends is what the parser hands over.
LEMMA SentHanded == ASSUME NEW C, NEW c \in Sent(C) PROVE Handed(C, c)
BY DEF Sent, Handed

\* The run of a replay: a state for every function, each from the one before.
LEMMA ReplayOf ==
  ASSUME NEW C, NEW a \in AnchorStates(C), NEW x \in Seq(Sent(C))
  PROVE  /\ Len(x) \in Nat
         /\ ReplayRun(a, x)[0] = a
         /\ \A n \in 1..Len(x) : ReplayRun(a, x)[n] = Perform(ReplayRun(a, x)[n - 1], x[n])
         /\ \A n \in 0..Len(x) : ReplayRun(a, x)[n] \in AnchorStates(C)
         /\ Replay(a, x) = ReplayRun(a, x)[Len(x)]
         /\ Replay(a, x) \in AnchorStates(C)
<1>1. Len(x) \in Nat /\ \A n \in 1..Len(x) : x[n] \in Sent(C)
  BY LenProperties, ElementOfSeq
<1>2. \A n \in 1..Len(x) : Handed(C, x[n])
  BY <1>1, SentHanded
<1>3. /\ ReplayRun(a, x)[0] = a
      /\ \A n \in 1..Len(x) : ReplayRun(a, x)[n] = Perform(ReplayRun(a, x)[n - 1], x[n])
      /\ \A n \in 0..Len(x) : ReplayRun(a, x)[n] \in AnchorStates(C)
      /\ Replay(a, x) = ReplayRun(a, x)[Len(x)]
  BY <1>1, <1>2, ReplayUnfolds
<1>4. Len(x) \in 0..Len(x)
  BY <1>1
<1>5. QED
  BY <1>1, <1>3, <1>4

\* Replaying two sequences is replaying one after the other.
LEMMA ReplayJoins ==
  ASSUME NEW C, NEW a \in AnchorStates(C), NEW x \in Seq(Sent(C)), NEW y \in Seq(Sent(C))
  PROVE  x \o y \in Seq(Sent(C)) /\ Replay(a, x \o y) = Replay(Replay(a, x), y)
<1> DEFINE z == x \o y
           b == Replay(a, x)
           P == ReplayRun(a, x)
           Q == ReplayRun(b, y)
           R == ReplayRun(a, z)
<1>1. /\ z \in Seq(Sent(C)) /\ Len(z) = Len(x) + Len(y) /\ Len(x) \in Nat /\ Len(y) \in Nat
      /\ \A i \in 1..(Len(x) + Len(y)) : z[i] = IF i <= Len(x) THEN x[i] ELSE y[i - Len(x)]
  BY ConcatProperties, LenProperties
<1>2. /\ P[0] = a /\ b = P[Len(x)] /\ b \in AnchorStates(C)
      /\ \A n \in 1..Len(x) : P[n] = Perform(P[n - 1], x[n])
  BY ReplayOf
<1> HIDE DEF b, z
<1>3. /\ Q[0] = b /\ Replay(b, y) = Q[Len(y)]
      /\ \A n \in 1..Len(y) : Q[n] = Perform(Q[n - 1], y[n])
  BY <1>2, ReplayOf
<1>11. z \in Seq(Sent(C))
  BY <1>1
<1>4. /\ R[0] = a /\ Replay(a, z) = R[Len(z)]
      /\ \A n \in 1..Len(z) : R[n] = Perform(R[n - 1], z[n])
  BY <1>11, ReplayOf
<1> HIDE DEF P, Q, R
<1>5. \A n \in 0..Len(x) : R[n] = P[n]
  <2> DEFINE Bad == {n \in 0..Len(x) : R[n] # P[n]}
  <2> SUFFICES ASSUME Bad # {} PROVE FALSE
    OBVIOUS
  <2>1. Bad \subseteq Nat
    BY <1>1
  <2> HIDE DEF Bad
  <2>2. PICK n \in Bad : \A m \in Bad : n <= m
    BY <2>1, LeastNatural
  <2>3. n \in 0..Len(x) /\ R[n] # P[n]
    BY DEF Bad
  <2>4. n # 0
    BY <1>2, <1>4, <2>3
  <2>5. n \in 1..Len(x) /\ n \in 1..(Len(x) + Len(y)) /\ n <= Len(x) /\ n - 1 \in 0..Len(x) /\ ~(n <= n - 1)
    BY <1>1, <2>3, <2>4
  <2>6. R[n - 1] = P[n - 1]
    BY <2>2, <2>5 DEF Bad
  <2>7. z[n] = x[n]
    BY <1>1, <2>5
  <2>8. QED
    BY <1>1, <1>2, <1>4, <2>3, <2>5, <2>6, <2>7
<1>6. \A n \in 0..Len(y) : R[Len(x) + n] = Q[n]
  <2> DEFINE Bad == {n \in 0..Len(y) : R[Len(x) + n] # Q[n]}
  <2> SUFFICES ASSUME Bad # {} PROVE FALSE
    OBVIOUS
  <2>1. Bad \subseteq Nat
    BY <1>1
  <2> HIDE DEF Bad
  <2>2. PICK n \in Bad : \A m \in Bad : n <= m
    BY <2>1, LeastNatural
  <2>3. n \in 0..Len(y) /\ R[Len(x) + n] # Q[n]
    BY DEF Bad
  <2>4. n # 0
    <3>1. Len(x) + 0 = Len(x) /\ Len(x) \in 0..Len(x)
      BY <1>1
    <3>2. R[Len(x) + 0] = Q[0]
      BY <1>2, <1>3, <1>5, <3>1
    <3>3. QED
      BY <2>3, <3>2
  <2> DEFINE e == Len(x) + n
  <2>5. /\ n \in 1..Len(y) /\ n - 1 \in 0..Len(y) /\ ~(n <= n - 1)
        /\ e \in 1..(Len(x) + Len(y)) /\ ~(e <= Len(x)) /\ e - Len(x) = n
        /\ Len(x) + (n - 1) = e - 1
    BY <1>1, <2>3, <2>4
  <2> HIDE DEF e
  <2>6. R[Len(x) + (n - 1)] = Q[n - 1]
    BY <2>2, <2>5 DEF Bad
  <2>7. z[e] = y[n]
    BY <1>1, <2>5
  <2>8. R[e] = Perform(R[e - 1], z[e]) /\ Q[n] = Perform(Q[n - 1], y[n])
    BY <1>1, <1>3, <1>4, <2>5
  <2>9. R[e] = Q[n]
    BY <2>5, <2>6, <2>7, <2>8
  <2>10. QED
    BY <2>3, <2>9 DEF e
<1>7. Len(y) \in 0..Len(y)
  BY <1>1
<1>8. Replay(a, z) = Replay(b, y)
  BY <1>1, <1>3, <1>4, <1>6, <1>7
<1>9. QED
  BY <1>1, <1>8 DEF z, b

\* One control function, and one more.
LEMMA ReplayOne ==
  ASSUME NEW C, NEW a \in AnchorStates(C), NEW c \in Sent(C)
  PROVE  Replay(a, <<c>>) = Perform(a, c) /\ Perform(a, c) \in AnchorStates(C)
<1> DEFINE x == <<c>>
<1>1. x \in Seq(Sent(C)) /\ Len(x) = 1 /\ x[1] = c
  OBVIOUS
<1> HIDE DEF x
<1>11. x \in Seq(Sent(C))
  BY <1>1
<1>2. /\ ReplayRun(a, x)[0] = a
      /\ \A n \in 1..Len(x) : ReplayRun(a, x)[n] = Perform(ReplayRun(a, x)[n - 1], x[n])
      /\ Replay(a, x) = ReplayRun(a, x)[Len(x)] /\ Replay(a, x) \in AnchorStates(C)
  BY <1>11, ReplayOf
<1>3. ReplayRun(a, x)[1] = Perform(ReplayRun(a, x)[0], x[1])
  <2>1. 1 \in 1..Len(x) /\ 1 - 1 = 0
    BY <1>1
  <2>2. QED
    BY <1>2, <2>1
<1>4. Replay(a, x) = Perform(a, c)
  BY <1>1, <1>2, <1>3
<1>5. QED
  BY <1>2, <1>4 DEF x

\* Setting a private mode.
LEMMA ModeSent ==
  ASSUME NEW C, HasFinals(C), NEW a \in AnchorStates(C),
         NEW m \in U16, NEW on \in BOOLEAN
  PROVE  /\ set_private_mode(m, on) \in Sent(C)
         /\ Perform(a, set_private_mode(m, on)) = SetMode(a, m, on)
         /\ SetMode(a, m, on) \in AnchorStates(C)
<1> DEFINE c == set_private_mode(m, on)
           params == <<<<m>>>>
<1>1. <<m>> \in ParamOf
  BY DEF ParamOf
<1>2. params \in ParamList
  BY <1>1 DEF ParamList, ParamOf
<1>3. mode_set(a, params, on) = SetMode(a, m, on)
  BY ModeSetOne
<1> HIDE DEF params
<1>4. c = [kind |-> "csi", marker |-> "?", params |-> params, final |-> IF on THEN "h" ELSE "l"]
  BY DEF set_private_mode, Csi, params
<1> HIDE DEF c
<1>5. c \in Sent(C)
  BY <1>2, <1>4 DEF Sent, HasFinals
<1>6. Perform(a, c) = csi_dispatch(a, c)
  BY <1>4 DEF Perform
<1>7. CASE on = TRUE
  <2>1. csi_dispatch(a, c) = mode_set(a, params, TRUE)
    BY <1>4, <1>7 DEF csi_dispatch
  <2>2. QED
    BY <1>3, <1>5, <1>6, <1>7, <2>1, SetModeTyped DEF c
<1>8. CASE on = FALSE
  <2>1. csi_dispatch(a, c) = mode_set(a, params, FALSE)
    BY <1>4, <1>8 DEF csi_dispatch
  <2>2. QED
    BY <1>3, <1>5, <1>6, <1>8, <2>1, SetModeTyped DEF c
<1>9. QED
  BY <1>7, <1>8

\* What a private mode changes.
SameBut(b, r) == r.row = b.row /\ r.col = b.col /\ r.sgr = b.sgr /\ r.g = b.g

\* What a single mode changes, field by field.
LEMMA SetModeFields ==
  ASSUME NEW C, NEW b \in AnchorStates(C), NEW m, NEW on \in BOOLEAN
  PROVE  /\ SameBut(b, SetMode(b, m, on))
         /\ m \in DOMAIN ModeOf =>
              /\ on => SetMode(b, m, on).modes = b.modes \cup {ModeOf[m]}
              /\ ~on => SetMode(b, m, on).modes = b.modes \ {ModeOf[m]}
              /\ SetMode(b, m, on).mouse = b.mouse
         /\ m \in DOMAIN MouseOf =>
              /\ SetMode(b, m, on).modes = b.modes
              /\ on => SetMode(b, m, on).mouse = MouseOf[m]
              /\ ~on => SetMode(b, m, on).mouse = "off"
         /\ m \notin DOMAIN ModeOf \cup DOMAIN MouseOf => SetMode(b, m, on) = b
<1>1. CASE m \in DOMAIN ModeOf
  <2>1. m \notin DOMAIN MouseOf
    BY <1>1, ModeTable, MouseTable
  <2> DEFINE s == IF on THEN b.modes \cup {ModeOf[m]} ELSE b.modes \ {ModeOf[m]}
  <2>2. SetMode(b, m, on) = [b EXCEPT !.modes = s]
    BY <1>1, <2>1 DEF SetMode
  <2>3. (on => s = b.modes \cup {ModeOf[m]}) /\ (~on => s = b.modes \ {ModeOf[m]})
    OBVIOUS
  <2> HIDE DEF s
  <2>4. SetMode(b, m, on).modes = s /\ SetMode(b, m, on).mouse = b.mouse /\ SameBut(b, SetMode(b, m, on))
    BY <2>2 DEF AnchorStates, SameBut
  <2>5. QED
    BY <1>1, <2>1, <2>3, <2>4
<1>2. CASE m \in DOMAIN MouseOf
  <2>1. m \notin DOMAIN ModeOf
    BY <1>2, ModeTable, MouseTable
  <2> DEFINE s == IF on THEN MouseOf[m] ELSE "off"
  <2>2. SetMode(b, m, on) = [b EXCEPT !.mouse = s]
    BY <1>2, <2>1 DEF SetMode
  <2>3. (on => s = MouseOf[m]) /\ (~on => s = "off")
    OBVIOUS
  <2> HIDE DEF s
  <2>4. SetMode(b, m, on).mouse = s /\ SetMode(b, m, on).modes = b.modes /\ SameBut(b, SetMode(b, m, on))
    BY <2>2 DEF AnchorStates, SameBut
  <2>5. QED
    BY <1>2, <2>1, <2>3, <2>4
<1>3. CASE m \notin DOMAIN ModeOf \cup DOMAIN MouseOf
  <2>1. SetMode(b, m, on) = b
    BY <1>3 DEF SetMode
  <2>2. QED
    BY <1>3, <2>1 DEF SameBut
<1>4. QED
  BY <1>1, <1>2, <1>3

ModeList(o1, o2, o3, o4, o5, o6, o7, o8, o9, o10) ==
  <<set_private_mode(1, o1),
    set_private_mode(6, o2),
    set_private_mode(7, o3),
    set_private_mode(1000, o4),
    set_private_mode(1002, o5),
    set_private_mode(1003, o6),
    set_private_mode(1005, o7),
    set_private_mode(1006, o8),
    set_private_mode(1049, o9),
    set_private_mode(2004, o10)>>

\* The ten modes of apply_modes: each of the five modes is what it is set to,
\* and the mouse what the last of its modes is set to.
ModesBack(C, a, b) ==
  LET back == Replay(b, apply_modes(a))
  IN  /\ apply_modes(a) \in Seq(Sent(C))
      /\ SameBut(b, back)
      /\ \A m \in Modes : m \in back.modes <=> m \in a.modes
      /\ back.mouse \in {a.mouse, "off"}

LEMMA ModesReplayed ==
  ASSUME NEW C, HasFinals(C), NEW a \in AnchorStates(C), NEW b \in AnchorStates(C)
  PROVE  ModesBack(C, a, b)
<1> DEFINE o1 == "cursor_keys" \in a.modes
           o2 == "origin" \in a.modes
           o3 == "autowrap" \in a.modes
           o4 == a.mouse # "off"
           o5 == a.mouse = "button_event"
           o6 == a.mouse = "any_event"
           o7 == FALSE
           o8 == a.mouse # "off"
           o9 == "alt_screen" \in a.modes
           o10 == "bracketed_paste" \in a.modes
<1>01. /\ o1 \in BOOLEAN /\ o2 \in BOOLEAN /\ o3 \in BOOLEAN /\ o4 \in BOOLEAN /\ o5 \in BOOLEAN
       /\ o6 \in BOOLEAN /\ o7 \in BOOLEAN /\ o8 \in BOOLEAN /\ o9 \in BOOLEAN /\ o10 \in BOOLEAN
  OBVIOUS
<1>02. apply_modes(a) = ModeList(o1, o2, o3, o4, o5, o6, o7, o8, o9, o10)
  BY DEF apply_modes, ModeList
<1> HIDE DEF o1, o2, o3, o4, o5, o6, o7, o8, o9, o10
<1> DEFINE M == ModeList(o1, o2, o3, o4, o5, o6, o7, o8, o9, o10)
<1>1. \A m \in {1, 6, 7, 1000, 1002, 1003, 1005, 1006, 1049, 2004} : m \in U16
  BY U16Is
<1>2. /\ set_private_mode(1, o1) \in Sent(C)
      /\ set_private_mode(6, o2) \in Sent(C)
      /\ set_private_mode(7, o3) \in Sent(C)
      /\ set_private_mode(1000, o4) \in Sent(C)
      /\ set_private_mode(1002, o5) \in Sent(C)
      /\ set_private_mode(1003, o6) \in Sent(C)
      /\ set_private_mode(1005, o7) \in Sent(C)
      /\ set_private_mode(1006, o8) \in Sent(C)
      /\ set_private_mode(1049, o9) \in Sent(C)
      /\ set_private_mode(2004, o10) \in Sent(C)
  BY <1>01, <1>1, ModeSent
<1>3. M \in Seq(Sent(C))
  BY <1>2 DEF ModeList
<1>4. Len(M) = 10
  BY DEF ModeList
<1>5. /\ M[1] = set_private_mode(1, o1)
      /\ M[2] = set_private_mode(6, o2)
      /\ M[3] = set_private_mode(7, o3)
      /\ M[4] = set_private_mode(1000, o4)
      /\ M[5] = set_private_mode(1002, o5)
      /\ M[6] = set_private_mode(1003, o6)
      /\ M[7] = set_private_mode(1005, o7)
      /\ M[8] = set_private_mode(1006, o8)
      /\ M[9] = set_private_mode(1049, o9)
      /\ M[10] = set_private_mode(2004, o10)
  BY DEF ModeList
<1> HIDE DEF M
<1> DEFINE R == ReplayRun(b, M)
<1>6. /\ R[0] = b /\ Replay(b, M) = R[Len(M)]
      /\ \A n \in 1..Len(M) : R[n] = Perform(R[n - 1], M[n])
  BY <1>3, ReplayOf
<1> HIDE DEF R
<1>7. R[0] \in AnchorStates(C)
  BY <1>6
<1>8. R[1] = SetMode(R[0], 1, o1) /\ R[1] \in AnchorStates(C)
  <2>1. 1 \in 1..Len(M) /\ 1 - 1 = 0
    BY <1>4
  <2>2. R[1] = Perform(R[0], set_private_mode(1, o1))
    BY <1>5, <1>6, <2>1
  <2>3. 1 \in U16
    BY <1>1
  <2>4. QED
    BY <1>01, <1>7, <2>2, <2>3, ModeSent
<1>9. R[2] = SetMode(R[1], 6, o2) /\ R[2] \in AnchorStates(C)
  <2>1. 2 \in 1..Len(M) /\ 2 - 1 = 1
    BY <1>4
  <2>2. R[2] = Perform(R[1], set_private_mode(6, o2))
    BY <1>5, <1>6, <2>1
  <2>3. 6 \in U16
    BY <1>1
  <2>4. QED
    BY <1>01, <1>8, <2>2, <2>3, ModeSent
<1>10. R[3] = SetMode(R[2], 7, o3) /\ R[3] \in AnchorStates(C)
  <2>1. 3 \in 1..Len(M) /\ 3 - 1 = 2
    BY <1>4
  <2>2. R[3] = Perform(R[2], set_private_mode(7, o3))
    BY <1>5, <1>6, <2>1
  <2>3. 7 \in U16
    BY <1>1
  <2>4. QED
    BY <1>01, <1>9, <2>2, <2>3, ModeSent
<1>11. R[4] = SetMode(R[3], 1000, o4) /\ R[4] \in AnchorStates(C)
  <2>1. 4 \in 1..Len(M) /\ 4 - 1 = 3
    BY <1>4
  <2>2. R[4] = Perform(R[3], set_private_mode(1000, o4))
    BY <1>5, <1>6, <2>1
  <2>3. 1000 \in U16
    BY <1>1
  <2>4. QED
    BY <1>01, <1>10, <2>2, <2>3, ModeSent
<1>12. R[5] = SetMode(R[4], 1002, o5) /\ R[5] \in AnchorStates(C)
  <2>1. 5 \in 1..Len(M) /\ 5 - 1 = 4
    BY <1>4
  <2>2. R[5] = Perform(R[4], set_private_mode(1002, o5))
    BY <1>5, <1>6, <2>1
  <2>3. 1002 \in U16
    BY <1>1
  <2>4. QED
    BY <1>01, <1>11, <2>2, <2>3, ModeSent
<1>13. R[6] = SetMode(R[5], 1003, o6) /\ R[6] \in AnchorStates(C)
  <2>1. 6 \in 1..Len(M) /\ 6 - 1 = 5
    BY <1>4
  <2>2. R[6] = Perform(R[5], set_private_mode(1003, o6))
    BY <1>5, <1>6, <2>1
  <2>3. 1003 \in U16
    BY <1>1
  <2>4. QED
    BY <1>01, <1>12, <2>2, <2>3, ModeSent
<1>14. R[7] = SetMode(R[6], 1005, o7) /\ R[7] \in AnchorStates(C)
  <2>1. 7 \in 1..Len(M) /\ 7 - 1 = 6
    BY <1>4
  <2>2. R[7] = Perform(R[6], set_private_mode(1005, o7))
    BY <1>5, <1>6, <2>1
  <2>3. 1005 \in U16
    BY <1>1
  <2>4. QED
    BY <1>01, <1>13, <2>2, <2>3, ModeSent
<1>15. R[8] = SetMode(R[7], 1006, o8) /\ R[8] \in AnchorStates(C)
  <2>1. 8 \in 1..Len(M) /\ 8 - 1 = 7
    BY <1>4
  <2>2. R[8] = Perform(R[7], set_private_mode(1006, o8))
    BY <1>5, <1>6, <2>1
  <2>3. 1006 \in U16
    BY <1>1
  <2>4. QED
    BY <1>01, <1>14, <2>2, <2>3, ModeSent
<1>16. R[9] = SetMode(R[8], 1049, o9) /\ R[9] \in AnchorStates(C)
  <2>1. 9 \in 1..Len(M) /\ 9 - 1 = 8
    BY <1>4
  <2>2. R[9] = Perform(R[8], set_private_mode(1049, o9))
    BY <1>5, <1>6, <2>1
  <2>3. 1049 \in U16
    BY <1>1
  <2>4. QED
    BY <1>01, <1>15, <2>2, <2>3, ModeSent
<1>17. R[10] = SetMode(R[9], 2004, o10) /\ R[10] \in AnchorStates(C)
  <2>1. 10 \in 1..Len(M) /\ 10 - 1 = 9
    BY <1>4
  <2>2. R[10] = Perform(R[9], set_private_mode(2004, o10))
    BY <1>5, <1>6, <2>1
  <2>3. 2004 \in U16
    BY <1>1
  <2>4. QED
    BY <1>01, <1>16, <2>2, <2>3, ModeSent
<1>18. /\ o1 => R[1].modes = R[0].modes \cup {"cursor_keys"}
       /\ ~o1 => R[1].modes = R[0].modes \ {"cursor_keys"}
       /\ R[1].mouse = R[0].mouse
       /\ SameBut(R[0], R[1])
  <2>1. 1 \in DOMAIN ModeOf /\ ModeOf[1] = "cursor_keys"
    BY ModeTable, MouseTable
  <2>2. QED
    BY <1>01, <1>7, <1>8, <2>1, SetModeFields
<1>19. /\ o2 => R[2].modes = R[1].modes \cup {"origin"}
       /\ ~o2 => R[2].modes = R[1].modes \ {"origin"}
       /\ R[2].mouse = R[1].mouse
       /\ SameBut(R[1], R[2])
  <2>1. 6 \in DOMAIN ModeOf /\ ModeOf[6] = "origin"
    BY ModeTable, MouseTable
  <2>2. QED
    BY <1>01, <1>8, <1>9, <2>1, SetModeFields
<1>20. /\ o3 => R[3].modes = R[2].modes \cup {"autowrap"}
       /\ ~o3 => R[3].modes = R[2].modes \ {"autowrap"}
       /\ R[3].mouse = R[2].mouse
       /\ SameBut(R[2], R[3])
  <2>1. 7 \in DOMAIN ModeOf /\ ModeOf[7] = "autowrap"
    BY ModeTable, MouseTable
  <2>2. QED
    BY <1>01, <1>9, <1>10, <2>1, SetModeFields
<1>21. /\ R[4].modes = R[3].modes
       /\ o4 => R[4].mouse = "normal"
       /\ ~o4 => R[4].mouse = "off"
       /\ SameBut(R[3], R[4])
  <2>1. 1000 \in DOMAIN MouseOf /\ MouseOf[1000] = "normal"
    BY ModeTable, MouseTable
  <2>2. QED
    BY <1>01, <1>10, <1>11, <2>1, SetModeFields
<1>22. /\ R[5].modes = R[4].modes
       /\ o5 => R[5].mouse = "button_event"
       /\ ~o5 => R[5].mouse = "off"
       /\ SameBut(R[4], R[5])
  <2>1. 1002 \in DOMAIN MouseOf /\ MouseOf[1002] = "button_event"
    BY ModeTable, MouseTable
  <2>2. QED
    BY <1>01, <1>11, <1>12, <2>1, SetModeFields
<1>23. /\ R[6].modes = R[5].modes
       /\ o6 => R[6].mouse = "any_event"
       /\ ~o6 => R[6].mouse = "off"
       /\ SameBut(R[5], R[6])
  <2>1. 1003 \in DOMAIN MouseOf /\ MouseOf[1003] = "any_event"
    BY ModeTable, MouseTable
  <2>2. QED
    BY <1>01, <1>12, <1>13, <2>1, SetModeFields
<1>24. /\ R[7].modes = R[6].modes /\ R[7].mouse = R[6].mouse
       /\ SameBut(R[6], R[7])
  <2>1. 1005 \notin DOMAIN ModeOf \cup DOMAIN MouseOf
    BY ModeTable, MouseTable
  <2>2. QED
    BY <1>01, <1>13, <1>14, <2>1, SetModeFields
<1>25. /\ R[8].modes = R[7].modes /\ R[8].mouse = R[7].mouse
       /\ SameBut(R[7], R[8])
  <2>1. 1006 \notin DOMAIN ModeOf \cup DOMAIN MouseOf
    BY ModeTable, MouseTable
  <2>2. QED
    BY <1>01, <1>14, <1>15, <2>1, SetModeFields
<1>26. /\ o9 => R[9].modes = R[8].modes \cup {"alt_screen"}
       /\ ~o9 => R[9].modes = R[8].modes \ {"alt_screen"}
       /\ R[9].mouse = R[8].mouse
       /\ SameBut(R[8], R[9])
  <2>1. 1049 \in DOMAIN ModeOf /\ ModeOf[1049] = "alt_screen"
    BY ModeTable, MouseTable
  <2>2. QED
    BY <1>01, <1>15, <1>16, <2>1, SetModeFields
<1>27. /\ o10 => R[10].modes = R[9].modes \cup {"bracketed_paste"}
       /\ ~o10 => R[10].modes = R[9].modes \ {"bracketed_paste"}
       /\ R[10].mouse = R[9].mouse
       /\ SameBut(R[9], R[10])
  <2>1. 2004 \in DOMAIN ModeOf /\ ModeOf[2004] = "bracketed_paste"
    BY ModeTable, MouseTable
  <2>2. QED
    BY <1>01, <1>16, <1>17, <2>1, SetModeFields
<1>28. SameBut(R[0], R[10])
  BY <1>18, <1>19, <1>20, <1>21, <1>22, <1>23, <1>24, <1>25, <1>26, <1>27 DEF SameBut
<1>29. /\ ("cursor_keys" \in R[10].modes) <=> o1
       /\ ("origin" \in R[10].modes) <=> o2
       /\ ("autowrap" \in R[10].modes) <=> o3
       /\ ("alt_screen" \in R[10].modes) <=> o9
       /\ ("bracketed_paste" \in R[10].modes) <=> o10
  <2>1. R[8].modes = R[3].modes
    BY <1>18, <1>19, <1>20, <1>21, <1>22, <1>23, <1>24, <1>25, <1>26, <1>27
  <2>2. ("cursor_keys" \in R[10].modes) <=> o1
    BY <1>18, <1>19, <1>20, <1>26, <1>27, <2>1
  <2>3. ("origin" \in R[10].modes) <=> o2
    BY <1>18, <1>19, <1>20, <1>26, <1>27, <2>1
  <2>4. ("autowrap" \in R[10].modes) <=> o3
    BY <1>18, <1>19, <1>20, <1>26, <1>27, <2>1
  <2>5. ("alt_screen" \in R[10].modes) <=> o9
    BY <1>18, <1>19, <1>20, <1>26, <1>27, <2>1
  <2>6. ("bracketed_paste" \in R[10].modes) <=> o10
    BY <1>18, <1>19, <1>20, <1>26, <1>27, <2>1
  <2>7. QED
    BY <2>2, <2>3, <2>4, <2>5, <2>6
<1>30. (o6 => R[10].mouse = "any_event") /\ (~o6 => R[10].mouse = "off")
  BY <1>18, <1>19, <1>20, <1>21, <1>22, <1>23, <1>24, <1>25, <1>26, <1>27
<1>31. Replay(b, M) = R[10] /\ R[0] = b
  BY <1>4, <1>6
<1>32. QED
  <2> DEFINE back == Replay(b, apply_modes(a))
  <2>1. apply_modes(a) = M /\ back = R[10]
    BY <1>02, <1>31 DEF M
  <2>2. \A m \in Modes : m \in back.modes <=> m \in a.modes
    BY <1>29, <2>1 DEF Modes, o1, o2, o3, o9, o10
  <2>3. back.mouse \in {a.mouse, "off"}
    BY <1>30, <2>1 DEF o6
  <2> HIDE DEF R
  <2>4. SameBut(b, back)
    BY <1>28, <1>31, <2>1
  <2>5. QED
    BY <1>3, <2>1, <2>2, <2>3, <2>4 DEF ModesBack

\* CSI 0 m leaves no attribute and no colour.
LEMMA SgrReset ==
  ASSUME NEW s \in Sgrs
  PROVE  <<<<0>>>> \in ParamList /\ sgr(s, <<<<0>>>>) = PlainSgr
<1> DEFINE items == <<<<0>>>>
<1>1. <<0>> \in ParamOf
  BY SmallNumbers
<1>2. items \in ParamList
  BY <1>1 DEF ParamList, ParamOf
<1>3. Len(items) = 1 /\ items[1][1] = 0 /\ items # <<>>
  OBVIOUS
<1> HIDE DEF items
<1>4. /\ SgrRun(s, items)[0] = [s |-> s, skip |-> 0]
      /\ \A n \in 1..Len(items) : SgrRun(s, items)[n] = SgrTurn(items, SgrRun(s, items)[n - 1], n)
      /\ sgr(s, items) = IF items = <<>> THEN PlainSgr ELSE SgrRun(s, items)[Len(items)].s
  BY <1>2, SgrUnfolds
<1>5. SgrRun(s, items)[1] = SgrTurn(items, SgrRun(s, items)[0], 1)
  <2>1. 1 \in 1..Len(items) /\ 1 - 1 = 0
    BY <1>3
  <2>2. QED
    BY <1>4, <2>1
<1>6. SgrTurn(items, [s |-> s, skip |-> 0], 1) = [s |-> SgrCode(s, 0), skip |-> 0]
  BY <1>3 DEF SgrTurn
<1>7. SgrCode(s, 0) = PlainSgr
  BY AttrTable, AttrOffTable DEF SgrCode
<1>8. sgr(s, items) = PlainSgr
  BY <1>3, <1>4, <1>5, <1>6, <1>7
<1>9. QED
  BY <1>2, <1>8 DEF items

\* A control function that selects a graphic rendition.
LEMMA SgrSent ==
  ASSUME NEW C, HasFinals(C), NEW b \in AnchorStates(C),
         NEW params \in ParamList
  PROVE  /\ Csi("", params, "m") \in Sent(C)
         /\ Perform(b, Csi("", params, "m")) = [b EXCEPT !.sgr = sgr(b.sgr, params)]
<1> DEFINE c == Csi("", params, "m")
<1>1. c = [kind |-> "csi", marker |-> "", params |-> params, final |-> "m"]
  BY DEF Csi
<1> HIDE DEF c
<1>2. c \in Sent(C)
  BY <1>1 DEF Sent, HasFinals
<1>3. Perform(b, c) = csi_dispatch(b, c)
  BY <1>1 DEF Perform
<1>4. csi_dispatch(b, c) = [b EXCEPT !.sgr = sgr(b.sgr, params)]
  BY <1>1 DEF csi_dispatch
<1>5. QED
  BY <1>2, <1>3, <1>4 DEF c

\* apply_sgr, on a terminal without attributes and colours.
LEMMA SgrReplayed ==
  ASSUME NEW C, HasFinals(C), NEW b \in AnchorStates(C),
         b.sgr = PlainSgr, NEW s \in Sgrs
  PROVE  /\ apply_sgr(s) \in Seq(Sent(C))
         /\ Replay(b, apply_sgr(s)) = [b EXCEPT !.sgr = s]
<1> DEFINE items == SgrParams(s)
<1>1. apply_sgr(s) = IF items = <<>> THEN <<>> ELSE <<Csi("", items, "m")>>
  BY DEF apply_sgr, SgrParams
<1>2. items \in ParamList /\ sgr(PlainSgr, items) = s
  BY SgrBack
<1> HIDE DEF items
<1>3. CASE items = <<>>
  <2>1. s = PlainSgr
    BY <1>2, <1>3 DEF sgr
  <2>2. apply_sgr(s) = <<>>
    BY <1>1, <1>3
  <2> DEFINE x == <<>>
  <2>3. x \in Seq(Sent(C)) /\ Len(x) = 0
    OBVIOUS
  <2>31. x \in Seq(Sent(C))
    BY <2>3
  <2> HIDE DEF x
  <2>4. Replay(b, x) = ReplayRun(b, x)[Len(x)] /\ ReplayRun(b, x)[0] = b
    BY <2>31, ReplayOf
  <2>5. Replay(b, x) = b
    BY <2>3, <2>4
  <2>6. b = [b EXCEPT !.sgr = s]
    BY <2>1 DEF AnchorStates
  <2>7. apply_sgr(s) = x
    BY <2>2 DEF x
  <2>8. QED
    BY <2>31, <2>5, <2>6, <2>7
<1>4. CASE items # <<>>
  <2>1. apply_sgr(s) = <<Csi("", items, "m")>>
    BY <1>1, <1>4
  <2>2. Csi("", items, "m") \in Sent(C)
    BY <1>2, SgrSent
  <2>3. Perform(b, Csi("", items, "m")) = [b EXCEPT !.sgr = s]
    BY <1>2, SgrSent
  <2> DEFINE c == Csi("", items, "m")
  <2> HIDE DEF c
  <2>4. c \in Sent(C) /\ apply_sgr(s) = <<c>>
    BY <2>1, <2>2 DEF c
  <2>5. Replay(b, <<c>>) = Perform(b, c)
    BY <2>4, ReplayOne
  <2>6. <<c>> \in Seq(Sent(C))
    BY <2>4
  <2>7. QED
    BY <2>3, <2>4, <2>5, <2>6 DEF c
<1>5. QED
  BY <1>3, <1>4

\* apply_charset.
LEMMA CharsetsReplayed ==
  ASSUME NEW C, HasFinals(C), NEW a \in AnchorStates(C),
         NEW b \in AnchorStates(C)
  PROVE  /\ apply_charset(a) \in Seq(Sent(C))
         /\ Replay(b, apply_charset(a)) = [b EXCEPT !.g = a.g]
<1> DEFINE x == [i \in 1..4 |-> Esc(Markers[i], a.g[i])]
           si == Execute("si")
<1>1. Markers[1] = "(" /\ Markers[2] = ")" /\ Markers[3] = "*" /\ Markers[4] = "+"
  BY DEF Markers
<1>2. \A i \in 1..4 : i = 1 \/ i = 2 \/ i = 3 \/ i = 4
  OBVIOUS
<1>3. a.g \in [1..4 -> C] /\ b.g \in [1..4 -> C]
  BY DEF AnchorStates
<1>4. <<>> \in ParamList
  BY DEF ParamList
<1>5. ASSUME NEW i \in 1..4 PROVE Esc(Markers[i], a.g[i]) \in Sent(C)
  <2>1. Markers[i] \in {"", "?", "(", ")", "*", "+"}
    BY <1>1, <1>2
  <2>2. a.g[i] \in C
    BY <1>3
  <2>3. Esc(Markers[i], a.g[i]) =
          [kind |-> "esc", marker |-> Markers[i], params |-> <<>>, final |-> a.g[i]]
    BY DEF Esc
  <2> DEFINE e == <<>>
  <2>4. e \in ParamList
    BY <1>4
  <2> HIDE DEF e
  <2>5. [kind |-> "esc", marker |-> Markers[i], params |-> e, final |-> a.g[i]] \in Sent(C)
    BY <2>1, <2>2, <2>4 DEF Sent, HasFinals
  <2>6. QED
    BY <2>3, <2>5 DEF e
<1>6. x \in [1..4 -> Sent(C)]
  BY <1>5
<1>7. \A i \in 1..4 : x[i] = [kind |-> "esc", marker |-> Markers[i], params |-> <<>>, final |-> a.g[i]]
  BY DEF Esc
<1> HIDE DEF x
<1>8. x \in Seq(Sent(C))
  <2>1. 4 \in Nat
    OBVIOUS
  <2>2. QED
    BY <1>6, <2>1, SeqDef
<1>9. DOMAIN x = 1..4
  BY <1>6
<1>10. Len(x) = 4
  BY <1>8, <1>9, LenProperties
<1>11. si = [kind |-> "execute", marker |-> "", params |-> <<>>, final |-> "si"]
  BY DEF Execute
<1> HIDE DEF si
<1>12. si \in Sent(C)
  BY <1>4, <1>11 DEF Sent, HasFinals
<1> DEFINE R == ReplayRun(b, x)
           r == Replay(b, x)
<1>13. /\ R[0] = b /\ r = R[Len(x)] /\ r \in AnchorStates(C)
       /\ \A n \in 1..Len(x) : R[n] = Perform(R[n - 1], x[n])
       /\ \A n \in 0..Len(x) : R[n] \in AnchorStates(C)
  BY <1>8, ReplayOf
<1> HIDE DEF R, r
<1>14. ASSUME NEW n \in 1..4
       PROVE  R[n] = [R[n - 1] EXCEPT !.g = [i \in 1..4 |-> IF Markers[i] = Markers[n] THEN a.g[n]
                                                                         ELSE R[n - 1].g[i]]]
  <2>1. R[n] = Perform(R[n - 1], x[n])
    BY <1>10, <1>13
  <2> DEFINE c == x[n]
  <2>2. c.kind = "esc" /\ c.marker = Markers[n] /\ c.final = a.g[n]
    BY <1>7
  <2> HIDE DEF c
  <2>3. Perform(R[n - 1], c) = esc_dispatch(R[n - 1], c)
    BY <2>2 DEF Perform
  <2>4. QED
    BY <2>1, <2>2, <2>3 DEF esc_dispatch, c
<1>15. R[0] \in AnchorStates(C) /\ R[1] \in AnchorStates(C) /\ R[2] \in AnchorStates(C) /\ R[3] \in AnchorStates(C)
       /\ R[4] \in AnchorStates(C)
  BY <1>10, <1>13
<1>16. ASSUME NEW n \in 1..4, R[n - 1] \in AnchorStates(C)
       PROVE  /\ R[n].row = R[n - 1].row /\ R[n].col = R[n - 1].col /\ R[n].sgr = R[n - 1].sgr
              /\ R[n].modes = R[n - 1].modes /\ R[n].mouse = R[n - 1].mouse
              /\ R[n].g[n] = a.g[n]
              /\ \A i \in 1..4 : i # n => R[n].g[i] = R[n - 1].g[i]
  <2> DEFINE p == R[n - 1]
             g == [i \in 1..4 |-> IF Markers[i] = Markers[n] THEN a.g[n] ELSE p.g[i]]
  <2>1. R[n] = [p EXCEPT !.g = g]
    BY <1>14
  <2>2. \A i \in 1..4 : i # n => Markers[i] # Markers[n]
    BY <1>1, <1>2
  <2>3. g[n] = a.g[n] /\ \A i \in 1..4 : i # n => g[i] = p.g[i]
    BY <2>2
  <2>4. p \in AnchorStates(C)
    BY <1>16
  <2> HIDE DEF g, p
  <2>5. /\ R[n].row = p.row /\ R[n].col = p.col /\ R[n].sgr = p.sgr
        /\ R[n].modes = p.modes /\ R[n].mouse = p.mouse /\ R[n].g = g
    BY <2>1, <2>4 DEF AnchorStates
  <2>6. QED
    BY <2>3, <2>5 DEF p
<1>17. /\ 1 \in 1..4 /\ 2 \in 1..4 /\ 3 \in 1..4 /\ 4 \in 1..4
       /\ 1 - 1 = 0 /\ 2 - 1 = 1 /\ 3 - 1 = 2 /\ 4 - 1 = 3
  OBVIOUS
<1>18. /\ R[4].row = b.row /\ R[4].col = b.col /\ R[4].sgr = b.sgr
       /\ R[4].modes = b.modes /\ R[4].mouse = b.mouse
  BY <1>13, <1>15, <1>16, <1>17
<1>19. R[4].g[1] = a.g[1] /\ R[4].g[2] = a.g[2] /\ R[4].g[3] = a.g[3] /\ R[4].g[4] = a.g[4]
  BY <1>15, <1>16, <1>17
<1>20. R[4].g = a.g
  <2>1. R[4].g \in [1..4 -> C]
    BY <1>15 DEF AnchorStates
  <2>2. \A i \in 1..4 : R[4].g[i] = a.g[i]
    BY <1>2, <1>19
  <2>3. QED
    BY <1>3, <2>1, <2>2
<1>21. r = R[4]
  BY <1>10, <1>13
<1>22. r = [b EXCEPT !.g = a.g]
  BY <1>15, <1>18, <1>20, <1>21 DEF AnchorStates
<1>23. Replay(r, <<si>>) = r
  <2>1. Replay(r, <<si>>) = Perform(r, si)
    BY <1>12, <1>13, ReplayOne
  <2>2. Perform(r, si) = execute(r, "si")
    BY <1>11 DEF Perform
  <2>3. execute(r, "si") = r
    BY DEF execute
  <2>4. QED
    BY <2>1, <2>2, <2>3
<1>24. apply_charset(a) = x \o <<si>>
  BY DEF apply_charset, x, si
<1> DEFINE y == <<si>>
<1>25. y \in Seq(Sent(C))
  BY <1>12
<1> HIDE DEF y
<1>26. x \o y \in Seq(Sent(C)) /\ Replay(b, x \o y) = Replay(r, y)
  BY <1>8, <1>25, ReplayJoins DEF r
<1>27. QED
  BY <1>22, <1>23, <1>24, <1>26 DEF y

\* The cursor position at the end of the prefix; the last cell of a u16 is lost.
Place(row, col) == Csi("", <<<<saturating_add(row, 1)>>, <<saturating_add(col, 1)>>>>, "H")
Placed(x) == IF x = MaxU16 THEN MaxU16 - 1 ELSE x

CursorBack(C, b, row, col) ==
  /\ Place(row, col) \in Sent(C)
  /\ Perform(b, Place(row, col)) = [b EXCEPT !.row = Placed(row), !.col = Placed(col)]

\* The prefix puts the cursor where it was, except in the last cell of a u16.
LEMMA CursorReplayed ==
  ASSUME NEW C, HasFinals(C), NEW b \in AnchorStates(C),
         NEW row \in U16, NEW col \in U16
  PROVE  CursorBack(C, b, row, col)
<1> DEFINE n == saturating_add(row, 1)
           m == saturating_add(col, 1)
           params == <<<<n>>, <<m>>>>
           c == Csi("", params, "H")
<1>1. n \in U16 /\ m \in U16
  BY SaturatingTyped
<1>2. /\ n # 0 /\ saturating_sub(n, 1) = Placed(row)
      /\ m # 0 /\ saturating_sub(m, 1) = Placed(col)
  BY U16Is DEF saturating_add, saturating_sub, Placed
<1> HIDE DEF n, m
<1>3. <<n>> \in ParamOf /\ <<m>> \in ParamOf
  BY <1>1 DEF ParamOf
<1>4. params \in ParamList
  BY <1>3 DEF ParamList, ParamOf
<1>5. Len(params) = 2 /\ params[1][1] = n /\ params[2][1] = m
  OBVIOUS
<1> HIDE DEF params
<1>6. param(params, 1) = n /\ param(params, 2) = m
  BY <1>2, <1>5 DEF param
<1>7. c = [kind |-> "csi", marker |-> "", params |-> params, final |-> "H"]
  BY DEF Csi
<1> HIDE DEF c
<1>8. c \in Sent(C)
  BY <1>4, <1>7 DEF Sent, HasFinals
<1>9. Perform(b, c) = csi_dispatch(b, c)
  BY <1>7 DEF Perform
<1>10. csi_dispatch(b, c) = [b EXCEPT !.row = saturating_sub(n, 1), !.col = saturating_sub(m, 1)]
  BY <1>6, <1>7 DEF csi_dispatch
<1>11. QED
  BY <1>2, <1>8, <1>9, <1>10 DEF c, params, n, m, Place, CursorBack

\* Two functions are one after the other.
LEMMA PairJoined ==
  ASSUME NEW S, NEW c \in S, NEW d \in S
  PROVE  <<c, d>> = <<c>> \o <<d>>
<1> DEFINE x == <<c>>
           y == <<d>>
           z == <<c, d>>
<1>1. x \in Seq(S) /\ y \in Seq(S) /\ z \in Seq(S)
  OBVIOUS
<1>2. Len(x) = 1 /\ x[1] = c /\ Len(y) = 1 /\ y[1] = d /\ Len(z) = 2 /\ z[1] = c /\ z[2] = d
  OBVIOUS
<1> HIDE DEF x, y, z
<1>3. /\ x \o y \in Seq(S) /\ Len(x \o y) = Len(x) + Len(y)
      /\ \A i \in 1..(Len(x) + Len(y)) : (x \o y)[i] = IF i <= Len(x) THEN x[i] ELSE y[i - Len(x)]
  BY <1>1, ConcatProperties
<1>4. Len(x \o y) = 2 /\ (x \o y)[1] = c /\ (x \o y)[2] = d
  BY <1>2, <1>3
<1>5. \A i \in 1..2 : i = 1 \/ i = 2
  OBVIOUS
<1>6. \A i \in 1..Len(z) : z[i] = (x \o y)[i]
  BY <1>2, <1>4, <1>5
<1>7. z = x \o y
  BY <1>1, <1>2, <1>3, <1>4, <1>6, SeqEqual
<1>8. QED
  BY <1>7 DEF x, y, z

\* The prefix gives any terminal, whatever its state, the state it was made
\* from, whatever that is.
THEOREM PrefixBack ==
  ASSUME NEW C, HasFinals(C), NEW a \in AnchorStates(C),
         NEW dirty \in AnchorStates(C)
  PROVE  LET back == Replay(dirty, render_prefix_from_anchor(a))
         IN  /\ back.sgr = a.sgr /\ back.modes = a.modes /\ back.g = a.g
             /\ back.mouse \in {a.mouse, "off"}
             /\ back.row = Placed(a.row) /\ back.col = Placed(a.col)
<1> DEFINE zero == <<<<0>>>>
           c1 == Csi("", zero, "m")
           c2 == set_private_mode(25, TRUE)
           reset == <<c1, c2>>
           attrs == apply_sgr(a.sgr)
           modes == apply_modes(a)
           sets == apply_charset(a)
           place == Place(a.row, a.col)
           last == <<place>>
<1>1. render_prefix_from_anchor(a) = reset \o attrs \o modes \o sets \o last
  BY DEF render_prefix_from_anchor, Place
<1>2. a.row \in U16 /\ a.col \in U16 /\ a.sgr \in Sgrs /\ a.modes \in SUBSET Modes /\ a.mouse \in Mice
  BY DEF AnchorStates
\* The first two functions.
<1> DEFINE b1 == Replay(dirty, reset)
<1>4. reset \in Seq(Sent(C)) /\ b1 \in AnchorStates(C) /\ b1.sgr = PlainSgr
  <2>1. dirty.sgr \in Sgrs
    BY DEF AnchorStates
  <2>2. zero \in ParamList /\ sgr(dirty.sgr, zero) = PlainSgr
    BY <2>1, SgrReset
  <2> HIDE DEF zero
  <2>3. c1 \in Sent(C) /\ Perform(dirty, c1) = [dirty EXCEPT !.sgr = PlainSgr]
    BY <2>2, SgrSent
  <2> DEFINE on == TRUE
  <2>4. on \in BOOLEAN /\ 25 \in U16
    BY SmallNumbers
  <2> HIDE DEF on
  <2> DEFINE d == Perform(dirty, c1)
  <2>5. Replay(dirty, <<c1>>) = d /\ d \in AnchorStates(C)
    BY <2>3, ReplayOne
  <2> HIDE DEF c1
  <2>6. d.sgr = PlainSgr
    BY <2>3 DEF AnchorStates
  <2> HIDE DEF d
  <2>7. /\ set_private_mode(25, on) \in Sent(C)
        /\ Perform(d, set_private_mode(25, on)) = SetMode(d, 25, on)
        /\ SetMode(d, 25, on) \in AnchorStates(C)
    BY <2>4, <2>5, ModeSent
  <2>8. SetMode(d, 25, on) = d
    BY ModeTable, MouseTable DEF SetMode
  <2>9. c2 \in Sent(C) /\ Perform(d, c2) = d
    BY <2>7, <2>8 DEF on
  <2> HIDE DEF c2
  <2>10. Replay(d, <<c2>>) = d
    BY <2>5, <2>9, ReplayOne
  <2> DEFINE x == <<c1>>
             y == <<c2>>
  <2>11. x \in Seq(Sent(C)) /\ y \in Seq(Sent(C)) /\ reset = x \o y
    <3>1. c1 \in Sent(C) /\ c2 \in Sent(C)
      BY <2>3, <2>9
    <3>2. x \in Seq(Sent(C)) /\ y \in Seq(Sent(C))
      BY <3>1
    <3>3. reset = x \o y
      BY <3>1, PairJoined
    <3>4. QED
      BY <3>2, <3>3
  <2>12. Replay(dirty, x) = d /\ Replay(d, y) = d
    BY <2>5, <2>10
  <2> HIDE DEF x, y, reset
  <2>13. x \o y \in Seq(Sent(C)) /\ Replay(dirty, x \o y) = Replay(Replay(dirty, x), y)
    BY <2>11, ReplayJoins
  <2>14. b1 = d
    BY <2>11, <2>12, <2>13
  <2>15. QED
    BY <2>5, <2>6, <2>11, <2>13, <2>14
<1> HIDE DEF reset
<1> DEFINE b2 == Replay(b1, attrs)
<1>5. attrs \in Seq(Sent(C)) /\ b2 = [b1 EXCEPT !.sgr = a.sgr]
  <2> HIDE DEF b1
  <2>1. QED
    BY <1>2, <1>4, SgrReplayed
<1>6. reset \o attrs \in Seq(Sent(C)) /\ Replay(dirty, reset \o attrs) = b2
  <2> HIDE DEF attrs
  <2>1. QED
    BY <1>4, <1>5, ReplayJoins
<1>7. b2 \in AnchorStates(C) /\ b2.sgr = a.sgr
  <2> HIDE DEF b1, b2
  <2>1. QED
    BY <1>2, <1>4, <1>5 DEF AnchorStates
<1> HIDE DEF attrs
<1> DEFINE b3 == Replay(b2, modes)
<1>8. /\ modes \in Seq(Sent(C)) /\ SameBut(b2, b3)
      /\ \A m \in Modes : m \in b3.modes <=> m \in a.modes
      /\ b3.mouse \in {a.mouse, "off"}
  <2> HIDE DEF b2
  <2>1. ModesBack(C, a, b2)
    BY <1>7, ModesReplayed
  <2>2. QED
    BY <2>1 DEF ModesBack
<1> HIDE DEF modes
<1>9. b3 \in AnchorStates(C)
  <2> HIDE DEF b2
  <2>1. QED
    BY <1>7, <1>8, ReplayOf
<1>10. reset \o attrs \o modes \in Seq(Sent(C)) /\ Replay(dirty, reset \o attrs \o modes) = b3
  <2> DEFINE x == reset \o attrs
  <2>1. x \in Seq(Sent(C)) /\ Replay(dirty, x) = b2
    BY <1>6
  <2> HIDE DEF x, b2
  <2>2. x \o modes \in Seq(Sent(C)) /\ Replay(dirty, x \o modes) = Replay(Replay(dirty, x), modes)
    BY <1>8, <2>1, ReplayJoins
  <2>3. QED
    BY <2>1, <2>2 DEF x
<1> HIDE DEF b3
<1>11. b3.modes = a.modes
  <2>1. b3.modes \in SUBSET Modes
    BY <1>9 DEF AnchorStates
  <2>2. QED
    BY <1>2, <1>8, <2>1
<1>12. b3.sgr = a.sgr /\ b3.mouse \in {a.mouse, "off"}
  BY <1>7, <1>8 DEF SameBut
<1> DEFINE b4 == Replay(b3, sets)
<1>13. sets \in Seq(Sent(C)) /\ b4 = [b3 EXCEPT !.g = a.g]
  BY <1>9, CharsetsReplayed
<1> HIDE DEF sets
<1>14. /\ reset \o attrs \o modes \o sets \in Seq(Sent(C))
       /\ Replay(dirty, reset \o attrs \o modes \o sets) = b4
  <2> DEFINE x == reset \o attrs \o modes
  <2>1. x \in Seq(Sent(C)) /\ Replay(dirty, x) = b3
    BY <1>10
  <2> HIDE DEF x
  <2>2. x \o sets \in Seq(Sent(C)) /\ Replay(dirty, x \o sets) = Replay(Replay(dirty, x), sets)
    BY <1>13, <2>1, ReplayJoins
  <2>3. QED
    BY <2>1, <2>2 DEF x
<1>15. /\ b4 \in AnchorStates(C) /\ b4.sgr = a.sgr /\ b4.modes = a.modes /\ b4.g = a.g
       /\ b4.mouse \in {a.mouse, "off"}
  <2> HIDE DEF b4
  <2>1. a.g \in [1..4 -> C]
    BY DEF AnchorStates
  <2>2. QED
    BY <1>9, <1>11, <1>12, <1>13, <2>1 DEF AnchorStates
<1> HIDE DEF b4
<1> DEFINE b5 == Replay(b4, last)
           row == Placed(a.row)
           col == Placed(a.col)
<1>16. last \in Seq(Sent(C)) /\ b5 = [b4 EXCEPT !.row = row, !.col = col]
  <2> DEFINE p == a.row
             q == a.col
  <2>0. p \in U16 /\ q \in U16 /\ b4 \in AnchorStates(C)
    BY <1>2, <1>15
  <2> HIDE DEF p, q
  <2>01. CursorBack(C, b4, p, q)
    BY <2>0, CursorReplayed, Zenon
  <2>1. place \in Sent(C) /\ Perform(b4, place) = [b4 EXCEPT !.row = row, !.col = col]
    BY <2>01 DEF p, q, CursorBack
  <2> HIDE DEF place, row, col
  <2>2. b5 = Perform(b4, place)
    BY <1>15, <2>1, ReplayOne
  <2>3. QED
    BY <2>1, <2>2
<1> HIDE DEF last, row, col
<1>17. Replay(dirty, reset \o attrs \o modes \o sets \o last) = b5
  <2> DEFINE x == reset \o attrs \o modes \o sets
  <2>1. x \in Seq(Sent(C)) /\ Replay(dirty, x) = b4
    BY <1>14
  <2> HIDE DEF x
  <2>2. x \o last \in Seq(Sent(C)) /\ Replay(dirty, x \o last) = Replay(Replay(dirty, x), last)
    BY <1>16, <2>1, ReplayJoins
  <2>3. QED
    BY <2>1, <2>2 DEF x
<1> HIDE DEF b5
<1>18. /\ b5.sgr = a.sgr /\ b5.modes = a.modes /\ b5.g = a.g /\ b5.mouse \in {a.mouse, "off"}
       /\ b5.row = row /\ b5.col = col
  BY <1>15, <1>16 DEF AnchorStates
<1>19. QED
  BY <1>1, <1>17, <1>18 DEF row, col

-----------------------------------------------------------------------------
(* The reader thread *)

\* The output path drives the ring: every byte it pushes is a step of the
\* ring's specification, and reading leaves the ring alone.
THEOREM PathDrivesRing == PathSpec => Spec
<1>1. PathInit => Init
  BY DEF PathInit
<1>2. ASSUME [PathNext]_pathVars PROVE [Next]_vars
  <2>1. CASE \E n \in 1..Len(Script) : Read(n)
    BY <2>1 DEF Read
  <2>2. CASE Push
    <3>1. tracker'.safe \in BOOLEAN
      BY <2>2 DEF Push, advance, SafeAfter
    <3>2. PushByte(tracker'.safe)
      BY <2>2 DEF Push
    <3>3. QED
      BY <3>1, <3>2 DEF Next
  <2>3. CASE UNCHANGED pathVars
    BY <2>3 DEF pathVars
  <2>4. QED
    BY <1>2, <2>1, <2>2, <2>3 DEF PathNext
<1>3. QED
  BY <1>1, <1>2, PTL DEF PathSpec, Spec

ScriptInv ==
  /\ words \in Seq(AllWords)
  /\ Len(words) >= 1
  /\ position \in 0..Len(Script)
  /\ windows \in BOOLEAN /\ skip \in BOOLEAN
  /\ \E S : reports \in Seq(S)

ReaderInv == ScriptInv /\ ChunkIndependent

LEMMA ScriptsAre ==
  ASSUME NEW ws \in Scripts
  PROVE  ws \in Seq(AllWords) /\ Len(ws) >= 1
<1>1. PICK n \in 1..MaxWords, S \in {KeptWords \cup StrippedWords, StateWords} : ws \in [1..n -> S]
  BY DEF Scripts
<1>2. S \subseteq AllWords
  BY DEF AllWords
<1>3. n \in Nat /\ n >= 1
  OBVIOUS
<1>4. ws \in [1..n -> AllWords]
  BY <1>1, <1>2
<1>5. QED
  BY <1>3, <1>4

LEMMA ScriptIs ==
  ASSUME ScriptInv
  PROVE  /\ Script \in Seq(Byte)
         /\ Len(Script) \in Nat
         /\ process(Script).out = FlattenSeq([k \in DOMAIN words |-> Filtered(words[k])])
         /\ process(Script).pending \in Leftovers
BY ScriptFiltered DEF ScriptInv, Script

LEMMA LastOfJoined ==
  ASSUME NEW S, NEW a \in Seq(S), NEW b \in Seq(S)
  PROVE  /\ b # <<>> => a \o b # <<>> /\ Last(a \o b) = Last(b)
         /\ b = <<>> => a \o b = a
<1>1. a \o b \in Seq(S) /\ Len(a \o b) = Len(a) + Len(b)
      /\ \A i \in 1..(Len(a) + Len(b)) : (a \o b)[i] = IF i <= Len(a) THEN a[i] ELSE b[i - Len(a)]
  BY ConcatProperties
<1>2. Len(a) \in Nat /\ Len(b) \in Nat
  OBVIOUS
<1>3. ASSUME b # <<>> PROVE a \o b # <<>> /\ Last(a \o b) = Last(b)
  <2> DEFINE c == a \o b
  <2>1. Len(b) >= 1
    BY <1>2, <1>3
  <2>2. Len(c) = Len(a) + Len(b) /\ Len(c) >= 1
    BY <1>1, <1>2, <2>1
  <2>3. c[Len(a) + Len(b)] = b[(Len(a) + Len(b)) - Len(a)]
    BY <1>1, <1>2, <2>1
  <2>4. (Len(a) + Len(b)) - Len(a) = Len(b)
    BY <1>2
  <2> HIDE DEF c
  <2>5. c # <<>> /\ c[Len(c)] = b[Len(b)]
    BY <2>2, <2>3, <2>4
  <2>6. QED
    BY <2>5 DEF Last, c
<1>4. ASSUME b = <<>> PROVE a \o b = a
  BY <1>4, ConcatEmptySeq
<1>5. QED
  BY <1>3, <1>4

LEMMA ReportsGrow ==
  ASSUME NEW S, NEW s \in Seq(S), NEW c, NEW m \in Nat
  PROVE  LET e == s \o [k \in 1..m |-> c]
         IN  (\E T : e \in Seq(T)) /\ Len(e) = Len(s) + m
<1> DEFINE T == S \cup {c}
           f == [k \in 1..m |-> c]
<1>1. s \in Seq(T)
  OBVIOUS
<1>2. f \in Seq(T) /\ Len(f) = m
  OBVIOUS
<1> HIDE DEF T, f
<1>3. s \o f \in Seq(T) /\ Len(s \o f) = Len(s) + Len(f)
  BY <1>1, <1>2, ConcatProperties
<1>4. QED
  BY <1>2, <1>3 DEF f

LEMMA ReaderInit == PathInit => ReaderInv
<1> SUFFICES ASSUME PathInit PROVE ReaderInv
  OBVIOUS
<1>1. words \in Seq(AllWords) /\ Len(words) >= 1
  BY ScriptsAre DEF PathInit
<1>2. position = 0 /\ output = <<>> /\ pending = <<>> /\ title = <<>>
  BY DEF PathInit
<1>3. Script \in Seq(Byte) /\ Len(Script) \in Nat
  <2>1. FlattenSeq(words) \in Seq(Byte)
    BY <1>1, ScriptFiltered
  <2>2. Script \in Seq(Byte)
    BY <2>1 DEF Script
  <2>3. QED
    BY <2>2
<1>q. windows \in BOOLEAN /\ skip = windows /\ reports = <<>>
  BY DEF PathInit
<1>r. reports \in Seq({0}) /\ skip \in BOOLEAN
  BY <1>q
<1>4. ScriptInv
  BY <1>1, <1>2, <1>3, <1>q, <1>r DEF ScriptInv
<1>5. SubSeq(Script, 1, position) = <<>>
  BY <1>2, SubSeqEmpty
<1>6. process(<<>>) = Stopped(<<>>)
  BY ProcessStops, EmptySeq
<1>7. ChunkIndependent
  <2> DEFINE all == process(SubSeq(Script, 1, position))
  <2>1. all = Stopped(<<>>)
    BY <1>5, <1>6
  <2> HIDE DEF all
  <2>2. all.out = <<>> /\ all.pending = <<>> /\ all.titles = <<>> /\ all.queries = 0
    BY <2>1 DEF Stopped
  <2>3. Len(reports) = 0
    BY <1>q
  <2>4. QED
    BY <1>2, <1>q, <2>2, <2>3 DEF ChunkIndependent, all
<1>8. QED
  BY <1>4, <1>7 DEF ReaderInv

\* One read keeps the filter where one read of everything so far would be.
LEMMA ReadKeeps ==
  ASSUME ReaderInv, NEW n \in 1..Len(Script), Read(n)
  PROVE  ReaderInv'
<1> DEFINE S == Script
           x == SubSeq(S, 1, position)
           y == SubSeq(S, position + 1, position + n)
           p == process(x)
           r == process(pending \o y)
<1>1. S \in Seq(Byte) /\ Len(S) \in Nat /\ position \in 0..Len(S) /\ ScriptInv /\ ChunkIndependent
  BY ScriptIs DEF ReaderInv, ScriptInv
<1>2. words' = words /\ Script' = S /\ windows' = windows
  BY DEF Read, Script
<1>3. /\ position + n <= Len(S) /\ position' = position + n
      /\ pending' = r.pending
      /\ title' = IF r.titles = <<>> THEN title ELSE Last(r.titles)
      /\ output' = output \o r.out
  BY DEF Read
<1>q. /\ skip' = (skip /\ r.queries = 0)
      /\ reports' = reports \o [k \in 1..Answered(r.queries) |-> tracker.anchor.col]
  BY DEF Read
<1>4. output = p.out /\ pending = p.pending /\ title = IF p.titles = <<>> THEN <<>> ELSE Last(p.titles)
  BY <1>1 DEF ChunkIndependent
<1> HIDE DEF S
<1>5. position' \in 0..Len(S)
  BY <1>1, <1>3
<1>6. x \in Seq(Byte) /\ y \in Seq(Byte) /\ x \o y = SubSeq(S, 1, position')
  <2>1. x \in Seq(Byte)
    BY <1>1
  <2>2. y \in Seq(Byte)
    BY <1>1, <1>3
  <2>3. /\ 1 \in 1..(Len(S) + 1) /\ position \in (1 - 1)..Len(S)
        /\ position' \in position..Len(S) /\ position + n = position'
    BY <1>1, <1>3
  <2>4. SubSeq(S, 1, position) \o SubSeq(S, position + 1, position') = SubSeq(S, 1, position')
    BY <1>1, <2>3, ConcatAdjacentSubSeq
  <2>5. QED
    BY <2>1, <2>2, <2>3, <2>4
<1> HIDE DEF x, y
<1>7. process(x \o y) = Joined(p, process(p.pending \o y))
  BY <1>6, ProcessJoins DEF JoinsAt
<1>8. process(x \o y) = Joined(p, r)
  BY <1>4, <1>7
<1>9. p \in Results(Byte) /\ r \in Results(Byte)
  <2>1. p \in Results(Byte)
    BY <1>6, ProcessTypes
  <2>2. pending \o y \in Seq(Byte)
    BY <1>4, <1>6, <2>1, ConcatProperties DEF Results
  <2>3. QED
    BY <2>1, <2>2, ProcessTypes
<1> HIDE DEF p, r
<1>10. p.titles \in Seq(Seq(Byte)) /\ r.titles \in Seq(Seq(Byte))
  BY <1>9 DEF Results
<1>11. /\ r.titles # <<>> => p.titles \o r.titles # <<>> /\ Last(p.titles \o r.titles) = Last(r.titles)
       /\ r.titles = <<>> => p.titles \o r.titles = p.titles
  BY <1>10, LastOfJoined
<1> DEFINE all == process(SubSeq(S, 1, position'))
<1>a. all = Joined(p, r)
  BY <1>6, <1>8
<1> HIDE DEF all
<1>12. /\ all.out = p.out \o r.out /\ all.pending = r.pending /\ all.titles = p.titles \o r.titles
       /\ all.queries = p.queries + r.queries
  BY <1>a DEF Joined
<1>13. /\ output' = all.out /\ pending' = all.pending
       /\ title' = IF all.titles = <<>> THEN <<>> ELSE Last(all.titles)
  BY <1>3, <1>4, <1>11, <1>12
<1>14. p.queries \in Nat /\ r.queries \in Nat /\ Answered(r.queries) \in Nat
  BY <1>9 DEF Results, Answered
<1>15. PICK T : reports \in Seq(T)
  BY <1>1 DEF ScriptInv
<1>16. (\E U : reports' \in Seq(U)) /\ Len(reports') = Len(reports) + Answered(r.queries)
  BY <1>q, <1>14, <1>15, ReportsGrow
<1>17. /\ windows \in BOOLEAN /\ skip \in BOOLEAN
       /\ skip <=> windows /\ ~ (windows /\ p.queries > 0)
       /\ Len(reports) = IF windows /\ p.queries > 0 THEN p.queries - 1 ELSE p.queries
  BY <1>1, <1>4 DEF ScriptInv, ChunkIndependent, p, x, S
<1>18. /\ skip' <=> windows /\ ~ (windows /\ all.queries > 0)
       /\ Len(reports') = IF windows /\ all.queries > 0 THEN all.queries - 1 ELSE all.queries
  <2> DEFINE k == p.queries
             q == r.queries
  <2> HIDE DEF k, q
  <2>1. k \in Nat /\ q \in Nat /\ all.queries = k + q /\ Len(reports') = Len(reports) + Answered(q)
    BY <1>12, <1>14, <1>16 DEF k, q
  <2>2. /\ windows \in BOOLEAN /\ skip \in BOOLEAN /\ (skip <=> windows /\ ~ (windows /\ k > 0))
        /\ Len(reports) = IF windows /\ k > 0 THEN k - 1 ELSE k
    BY <1>17 DEF k
  <2>3. skip' <=> skip /\ q = 0
    BY <1>q DEF q
  <2>4. CASE windows
    <3>1. CASE k > 0
      BY <2>1, <2>2, <2>3, <2>4, <3>1 DEF Answered
    <3>2. CASE k = 0
      BY <2>1, <2>2, <2>3, <2>4, <3>2 DEF Answered
    <3>3. QED
      BY <2>1, <3>1, <3>2
  <2>5. CASE ~ windows
    BY <2>1, <2>2, <2>3, <2>5 DEF Answered
  <2>6. QED
    BY <2>4, <2>5
<1>19. ChunkIndependent'
  BY <1>2, <1>13, <1>18 DEF ChunkIndependent, all
<1>20. ScriptInv'
  BY <1>1, <1>2, <1>5, <1>16, <1>q DEF ScriptInv, S
<1>21. QED
  BY <1>19, <1>20 DEF ReaderInv

LEMMA ReaderStep == ReaderInv /\ [PathNext]_pathVars => ReaderInv'
<1> SUFFICES ASSUME ReaderInv, [PathNext]_pathVars PROVE ReaderInv'
  OBVIOUS
<1>1. CASE \E n \in 1..Len(Script) : Read(n)
  BY <1>1, ReadKeeps
<1>2. ASSUME UNCHANGED <<words, position, pending, windows, skip, output, reports, title>>
      PROVE  ReaderInv'
  BY <1>2 DEF ReaderInv, ScriptInv, ChunkIndependent, Script
<1>3. CASE Push
  BY <1>2, <1>3 DEF Push
<1>4. CASE UNCHANGED pathVars
  BY <1>2, <1>4 DEF pathVars
<1>5. QED
  BY <1>1, <1>3, <1>4 DEF PathNext

\* However the reader's chunks fall, what process has passed on, holds back and
\* took for the title is what one call on the whole output would give, and it
\* has answered as many queries.
THEOREM FilterIgnoresChunks == PathSpec => []ChunkIndependent
<1>1. ReaderInv => ChunkIndependent
  BY DEF ReaderInv
<1>2. QED
  BY <1>1, ReaderInit, ReaderStep, PTL DEF PathSpec

\* Every word but the ones the server handles reaches the clients, whole.
THEOREM WordsSurviveFilter == PathSpec => []FiltersWholeWords
<1>1. ReaderInv => FiltersWholeWords
  <2> SUFFICES ASSUME ReaderInv, position = Len(Script) PROVE
        /\ output = FlattenSeq([k \in DOMAIN words |->
                              IF words[k] \in StrippedWords THEN <<>> ELSE words[k]])
        /\ pending \in {<<>>, CursorPositionQuery}
    BY DEF FiltersWholeWords
  <2>1. ScriptInv /\ ChunkIndependent
    BY DEF ReaderInv
  <2>2. Script \in Seq(Byte)
    BY <2>1, ScriptIs
  <2>3. SubSeq(Script, 1, position) = Script
    BY <2>2, SubSeqFull
  <2>4. output = process(Script).out /\ pending = process(Script).pending
    BY <2>1, <2>3 DEF ChunkIndependent
  <2>5. QED
    BY <2>1, <2>4, ScriptIs DEF Filtered, Leftovers
<1>2. QED
  BY <1>1, ReaderInit, ReaderStep, PTL DEF PathSpec

\* The bytes still to be pushed are the output behind the ring's head.
ChunkIsTail ==
  /\ output \in Seq(Byte)
  /\ chunk \in Seq(Byte)
  /\ head_seq \in Nat
  /\ Len(output) = head_seq + Len(chunk)
  /\ \A k \in 1..Len(chunk) : chunk[k] = output[head_seq + k]

SplitBehindHead ==
  (tracker.safe /\ tracker.state # "ground") =>
     head_seq >= 1 /\ output[head_seq] \in Controls \cup {"esc"}

PushInv == ChunkIsTail /\ SplitBehindHead

\* The parser reports a safe split and stays in a sequence only for an ESC,
\* which ends a string and begins a sequence, and for a control.
LEMMA SplitInSequence ==
  ASSUME NEW state, NEW b, SafeAfter(Vte(state, b).calls), Vte(state, b).next # "ground"
  PROVE  b \in Controls \cup {"esc"}
BY DEF Vte, SafeAfter

LEMMA PushInit == PathInit => PushInv
<1> SUFFICES ASSUME PathInit PROVE PushInv
  OBVIOUS
<1>1. output = <<>> /\ chunk = <<>> /\ head_seq = 0 /\ tracker.state = "ground"
  BY DEF PathInit, Init
<1>2. ChunkIsTail
  BY <1>1, EmptySeq DEF ChunkIsTail
<1>3. QED
  BY <1>1, <1>2 DEF PushInv, SplitBehindHead

LEMMA PushStep == ReaderInv /\ PushInv /\ [PathNext]_pathVars => PushInv'
<1> SUFFICES ASSUME ReaderInv, PushInv, [PathNext]_pathVars PROVE PushInv'
  OBVIOUS
<1>1. ASSUME NEW n \in 1..Len(Script), Read(n) PROVE PushInv'
  <2> DEFINE y == SubSeq(Script, position + 1, position + n)
             r == process(pending \o y)
  <2>1. /\ chunk = <<>> /\ chunk' = r.out /\ output' = output \o r.out
        /\ head_seq' = head_seq /\ tracker' = tracker
    BY <1>1 DEF Read, vars
  <2>2. /\ output \in Seq(Byte) /\ head_seq \in Nat /\ Len(output) = head_seq
    BY <2>1 DEF PushInv, ChunkIsTail
  <2>3. r.out \in Seq(Byte)
    <3>1. Script \in Seq(Byte) /\ position \in 0..Len(Script) /\ position + n <= Len(Script)
      BY <1>1, ScriptIs DEF ReaderInv, ScriptInv, Read
    <3>2. y \in Seq(Byte)
      BY <3>1
    <3>3. pending \in Seq(Byte)
      <4>1. pending = process(SubSeq(Script, 1, position)).pending
        BY DEF ReaderInv, ChunkIndependent
      <4>2. SubSeq(Script, 1, position) \in Seq(Byte)
        BY <3>1
      <4>3. QED
        BY <4>1, <4>2, ProcessTypes DEF Results
    <3> HIDE DEF y
    <3>4. pending \o y \in Seq(Byte)
      BY <3>2, <3>3, ConcatProperties
    <3>5. QED
      BY <3>4, ProcessTypes DEF Results
  <2> HIDE DEF r
  <2>4. /\ output \o r.out \in Seq(Byte) /\ Len(output \o r.out) = Len(output) + Len(r.out)
        /\ \A i \in 1..(Len(output) + Len(r.out)) :
             (output \o r.out)[i] = IF i <= Len(output) THEN output[i] ELSE r.out[i - Len(output)]
    BY <2>2, <2>3, ConcatProperties
  <2>5. Len(r.out) \in Nat
    BY <2>3
  <2>6. \A k \in 1..Len(r.out) : (output \o r.out)[head_seq + k] = r.out[k]
    <3>1. ASSUME NEW k \in 1..Len(r.out) PROVE (output \o r.out)[head_seq + k] = r.out[k]
      <4> DEFINE e == head_seq + k
      <4>1. e \in 1..(Len(output) + Len(r.out)) /\ ~(e <= Len(output)) /\ e - Len(output) = k
        BY <2>2, <2>5
      <4> HIDE DEF e
      <4>2. (output \o r.out)[e] = r.out[e - Len(output)]
        BY <4>1, <2>4
      <4>3. (output \o r.out)[e] = r.out[k]
        BY <4>1, <4>2
      <4>4. QED
        BY <4>3 DEF e
    <3>2. QED
      BY <3>1
  <2>7. ChunkIsTail'
    BY <2>1, <2>2, <2>3, <2>4, <2>5, <2>6 DEF ChunkIsTail
  <2>8. head_seq >= 1 => (output \o r.out)[head_seq] = output[head_seq]
    BY <2>2, <2>4, <2>5
  <2>9. SplitBehindHead'
    BY <2>1, <2>8 DEF PushInv, SplitBehindHead
  <2>10. QED
    BY <2>7, <2>9 DEF PushInv
<1>2. CASE Push
  <2> DEFINE b == Head(chunk)
  <2>1. /\ chunk # <<>> /\ chunk' = Tail(chunk) /\ output' = output
        /\ head_seq' = head_seq + 1 /\ tracker' = advance(b)
    BY <1>2 DEF Push, PushByte
  <2>2. /\ output \in Seq(Byte) /\ chunk \in Seq(Byte) /\ head_seq \in Nat
        /\ Len(output) = head_seq + Len(chunk)
        /\ \A k \in 1..Len(chunk) : chunk[k] = output[head_seq + k]
    BY DEF PushInv, ChunkIsTail
  <2>3. /\ Tail(chunk) \in Seq(Byte) /\ Len(Tail(chunk)) = Len(chunk) - 1
        /\ \A k \in 1..Len(Tail(chunk)) : Tail(chunk)[k] = chunk[k + 1]
    BY <2>1, <2>2, HeadTailProperties
  <2>4. Len(chunk) \in Nat /\ Len(chunk) >= 1
    BY <2>1, <2>2
  <2>5. b = output[head_seq + 1]
    BY <2>2, <2>4
  <2>6. \A k \in 1..Len(Tail(chunk)) : Tail(chunk)[k] = output[(head_seq + 1) + k]
    <3>1. ASSUME NEW k \in 1..Len(Tail(chunk)) PROVE Tail(chunk)[k] = output[(head_seq + 1) + k]
      <4>1. k + 1 \in 1..Len(chunk) /\ head_seq + (k + 1) = (head_seq + 1) + k
        BY <2>2, <2>3, <2>4
      <4>2. Tail(chunk)[k] = chunk[k + 1] /\ chunk[k + 1] = output[head_seq + (k + 1)]
        BY <2>2, <2>3, <4>1
      <4>3. QED
        BY <4>1, <4>2
    <3>2. QED
      BY <3>1
  <2>7. ChunkIsTail'
    BY <2>1, <2>2, <2>3, <2>4, <2>6 DEF ChunkIsTail
  <2> DEFINE v == Vte(tracker.state, b)
  <2>8. tracker'.safe = SafeAfter(v.calls) /\ tracker'.state = v.next
    BY <2>1 DEF advance
  <2>9. (tracker'.safe /\ tracker'.state # "ground") => b \in Controls \cup {"esc"}
    BY <2>8, SplitInSequence
  <2> HIDE DEF b, v
  <2>10. SplitBehindHead'
    BY <2>1, <2>2, <2>5, <2>9 DEF SplitBehindHead
  <2>11. QED
    BY <2>7, <2>10 DEF PushInv
<1>3. CASE UNCHANGED pathVars
  BY <1>3 DEF pathVars, vars, PushInv, ChunkIsTail, SplitBehindHead
<1>4. QED
  BY <1>1, <1>2, <1>3 DEF PathNext

\* at_safe_split inside a sequence is set by an ESC or a control only.
THEOREM SplitsAreKnown == PathSpec => []SplitsOutsideSequences
<1>1. PushInv => SplitsOutsideSequences
  BY DEF PushInv, SplitBehindHead, SplitsOutsideSequences
<1>2. QED
  BY <1>1, ReaderInit, ReaderStep, PushInit, PushStep, PTL DEF PathSpec

\* What the tracker keeps has its types: the parameters the parser has collected
\* are lists of u16, and the anchor state is one AnchorStateMut can hold.  Byte
\* has every charset a program can select; "A" and "si" are what a client's
\* terminal may have had and what the prefix adds.
Charsets == Byte \cup {"A", "si"}
TrackerTyped == tracker.params \in ParamList /\ tracker.anchor \in AnchorStates(Charsets)

LEMMA CharsetsKnown == HasFinals(Charsets) /\ "A" \in Charsets /\ "B" \in Charsets
BY DEF HasFinals, Charsets, Byte

LEMMA TrackerTypedInit == PathInit => TrackerTyped
<1> SUFFICES ASSUME PathInit PROVE TrackerTyped
  OBVIOUS
<1>1. tracker.params = <<>> /\ tracker.anchor = DefaultState
  BY DEF PathInit
<1>2. <<>> \in ParamList
  BY EmptySeq DEF ParamList
<1>3. 0 \in U16
  BY SaturatingTyped
<1>4. PlainSgr \in Sgrs
  BY NoColorIsColor DEF PlainSgr, Sgrs
<1>5. {"autowrap"} \in SUBSET Modes
  BY DEF Modes
<1>6. "off" \in Mice
  BY DEF Mice
<1>7. [i \in 1..4 |-> "B"] \in [1..4 -> Charsets]
  BY CharsetsKnown
<1>8. DefaultState \in AnchorStates(Charsets)
  BY <1>3, <1>4, <1>5, <1>6, <1>7 DEF DefaultState, AnchorStates
<1>9. QED
  BY <1>1, <1>2, <1>8 DEF TrackerTyped

\* The numbers of the parameters a program writes are u16.
LEMMA ParamNumbers ==
  /\ \A b \in DOMAIN FirstParam : <<FirstParam[b]>> \in ParamOf
  /\ \A b \in DOMAIN NextParam : <<NextParam[b]>> \in ParamOf
  /\ \A b \in DOMAIN SubParam : SubParam[b] \in U16
<1> DEFINE numbers == {0, 1, 2, 3, 5, 6, 7, 22, 38, 48, 95, 200, 300,
                       1002, 1004, 1049, 2004, 9001, 65535}
<1>1. \A n \in numbers : n \in Nat /\ n <= MaxU16
  BY DEF MaxU16
<1>2. FirstParam \in [DOMAIN FirstParam -> numbers]
  BY DEF FirstParam
<1>3. NextParam \in [DOMAIN NextParam -> numbers] /\ SubParam \in [DOMAIN SubParam -> numbers]
  BY DEF NextParam, SubParam
<1> HIDE DEF numbers
<1>4. \A n \in numbers : n \in U16
  BY <1>1, U16Is
<1>5. \A n \in U16 : <<n>> \in ParamOf
  BY DEF ParamOf
<1>6. QED
  BY <1>2, <1>3, <1>4, <1>5

\* One more parameter, or one more number in the last one.
LEMMA ParamsGrow ==
  ASSUME NEW params \in ParamList
  PROVE  /\ \A p \in ParamOf : Append(params, p) \in ParamList
         /\ \A x \in U16 : Len(params) > 0 =>
              [params EXCEPT ![Len(params)] = Append(@, x)] \in ParamList
<1>1. ParamList = Seq(ParamOf)
  BY DEF ParamList, ParamOf
<1>2. \A p \in ParamOf : Append(params, p) \in Seq(ParamOf)
  BY <1>1
<1>3. ASSUME NEW x \in U16, Len(params) > 0
      PROVE  [params EXCEPT ![Len(params)] = Append(@, x)] \in Seq(ParamOf)
  <2> DEFINE n == Len(params)
             p == params[n]
  <2>1. n \in Nat /\ n >= 1 /\ params \in [1..n -> ParamOf]
    BY <1>1, <1>3
  <2>2. n \in 1..n
    BY <2>1
  <2>3. p \in ParamOf
    BY <2>1, <2>2
  <2>4. Append(p, x) \in ParamOf
    <3>1. p \in Seq(U16)
      BY <2>3 DEF ParamOf
    <3> HIDE DEF p
    <3>2. Append(p, x) \in Seq(U16) /\ Len(Append(p, x)) = Len(p) + 1 /\ Len(p) \in Nat
      BY <3>1
    <3>3. QED
      BY <3>2 DEF ParamOf
  <2> HIDE DEF n
  <2>5. [params EXCEPT ![n] = Append(@, x)] \in [1..n -> ParamOf]
    BY <2>1, <2>2, <2>4
  <2>6. [params EXCEPT ![n] = Append(@, x)] \in Seq(ParamOf)
    BY <2>1, <2>5, SeqDef
  <2>7. QED
    BY <2>6 DEF n
<1>4. QED
  BY <1>1, <1>2, <1>3

\* A byte keeps the collected parameters lists of u16.
LEMMA CollectedTyped ==
  ASSUME NEW b, TrackerTyped
  PROVE  Collected(b).params \in ParamList
<1> DEFINE params == tracker.params
           last == Len(params)
<1>1. params \in ParamList
  BY DEF TrackerTyped
<1>2. <<>> \in ParamList
  BY EmptySeq DEF ParamList
<1>3. /\ b \in DOMAIN FirstParam => Append(params, <<FirstParam[b]>>) \in ParamList
      /\ b \in DOMAIN NextParam => Append(params, <<NextParam[b]>>) \in ParamList
      /\ (b \in DOMAIN SubParam /\ last > 0) =>
           [params EXCEPT ![last] = Append(@, SubParam[b])] \in ParamList
  <2> HIDE DEF params
  <2>1. QED
    BY <1>1, ParamNumbers, ParamsGrow
<1>4. QED
  BY <1>1, <1>2, <1>3 DEF Collected

LEMMA AdvanceTyped ==
  ASSUME NEW b \in Byte, TrackerTyped
  PROVE  /\ advance(b).params \in ParamList
         /\ advance(b).anchor \in AnchorStates(Charsets)
<1> DEFINE v == Vte(tracker.state, b)
           c == Collected(b)
           a == tracker.anchor
<1>1. a \in AnchorStates(Charsets)
  BY DEF TrackerTyped
<1>2. c.params \in ParamList
  BY CollectedTyped
<1> HIDE DEF c, v, a
<1>3. b \in Charsets
  BY DEF Charsets
<1>4. Handed(Charsets, Char) /\ Handed(Charsets, Execute(b))
  BY DEF Handed, Char, Execute
<1>5. Handed(Charsets, Csi(c.marker, c.params, b))
  BY <1>2 DEF Handed, Csi
<1>6. Handed(Charsets, Esc(c.marker, b))
  BY <1>3 DEF Handed, Esc
<1>7. /\ Perform(a, Char) \in AnchorStates(Charsets)
      /\ Perform(a, Execute(b)) \in AnchorStates(Charsets)
      /\ Perform(a, Csi(c.marker, c.params, b)) \in AnchorStates(Charsets)
      /\ Perform(a, Esc(c.marker, b)) \in AnchorStates(Charsets)
  BY <1>1, <1>4, <1>5, <1>6, PerformTyped
<1>8. QED
  BY <1>1, <1>2, <1>7 DEF advance, v, c, a

LEMMA TrackerTypedStep == PushInv /\ TrackerTyped /\ [PathNext]_pathVars => TrackerTyped'
<1> SUFFICES ASSUME PushInv, TrackerTyped, [PathNext]_pathVars PROVE TrackerTyped'
  OBVIOUS
<1>1. ASSUME NEW n \in 1..Len(Script), Read(n) PROVE TrackerTyped'
  BY <1>1 DEF Read, TrackerTyped
<1>2. CASE Push
  <2> DEFINE b == Head(chunk)
  <2>1. chunk # <<>> /\ tracker' = advance(b)
    BY <1>2 DEF Push
  <2>2. b \in Byte
    BY <2>1 DEF PushInv, ChunkIsTail
  <2> HIDE DEF b
  <2>3. QED
    BY <2>1, <2>2, AdvanceTyped DEF TrackerTyped
<1>3. CASE UNCHANGED pathVars
  BY <1>3 DEF pathVars, TrackerTyped
<1>4. QED
  BY <1>1, <1>2, <1>3 DEF PathNext

\* What render_prefix_from_anchor renders gives any terminal the state it was
\* rendered from, in whatever state the program left its own terminal.
THEOREM PrefixGivesStateBack == PathSpec => []PrefixRestores
<1>1. TrackerTyped => PrefixRestores
  <2> SUFFICES ASSUME TrackerTyped PROVE PrefixRestores
    OBVIOUS
  <2> DEFINE dirtySgr == [on |-> {"faint", "blink"}, fg |-> <<"palette", 2>>, bg |-> <<"indexed", 17>>]
             dirty == [row |-> 3, col |-> 4, sgr |-> dirtySgr,
                       modes |-> Modes, mouse |-> "x10", g |-> [i \in 1..4 |-> "A"]]
             a == tracker.anchor
             back == Replay(dirty, render_prefix_from_anchor(a))
  <2>1. 3 \in U16 /\ 4 \in U16
    BY SmallNumbers
  <2>2. dirtySgr \in Sgrs
    <3>1. <<"palette", 2>> \in Colors /\ <<"indexed", 17>> \in Colors
      BY DEF Colors, Palette, Indexed
    <3>2. {"faint", "blink"} \in SUBSET AttrNames
      BY DEF AttrNames
    <3>3. QED
      BY <3>1, <3>2 DEF Sgrs
  <2>3. "x10" \in Mice /\ [i \in 1..4 |-> "A"] \in [1..4 -> Charsets]
    BY CharsetsKnown DEF Mice
  <2> HIDE DEF dirtySgr
  <2>4. dirty \in AnchorStates(Charsets)
    BY <2>1, <2>2, <2>3 DEF AnchorStates
  <2>5. a \in AnchorStates(Charsets)
    BY DEF TrackerTyped
  <2> HIDE DEF a, dirty
  <2>6. /\ back.sgr = a.sgr /\ back.modes = a.modes /\ back.g = a.g
        /\ back.mouse \in {a.mouse, "off"}
        /\ back.row = Placed(a.row) /\ back.col = Placed(a.col)
    BY <2>4, <2>5, CharsetsKnown, PrefixBack
  <2> HIDE DEF back
  <2>7. \A f \in {"row", "col"} : back[f] = IF a[f] = MaxU16 THEN MaxU16 - 1 ELSE a[f]
    BY <2>6 DEF Placed
  <2>8. QED
    BY <2>6, <2>7 DEF PrefixRestores, back, dirty, dirtySgr, a
<1>2. QED
  BY <1>1, ReaderInit, ReaderStep, PushInit, PushStep, TrackerTypedInit, TrackerTypedStep, PTL
     DEF PathSpec
=============================================================================
