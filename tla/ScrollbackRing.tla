--------------------------- MODULE ScrollbackRing ---------------------------
(***************************************************************************)
(* The per-terminal scrollback of crates/server/pty/src/ring.rs: a window  *)
(* of the terminal's output bytes, and the anchors from which that window  *)
(* can be replayed.                                                        *)
(*                                                                         *)
(* A byte is identified by its position in the terminal's output: the byte *)
(* at offset o is the number o.  An AnchorState is determined by the bytes *)
(* parsed before it, so it is identified by their number, and an anchor    *)
(* (byte_offset, state) is one number.  What the parser (vte, inside       *)
(* AnchorTracker) says of a byte is an input: whether the position after   *)
(* the byte is a safe split.                                               *)
(*                                                                         *)
(* push() runs its loop body once per byte, so pushing a chunk is pushing  *)
(* its bytes one after the other: PushByte is the body of that loop.       *)
(***************************************************************************)
EXTENDS Integers, Sequences, FiniteSets

CONSTANTS
  Capacities,       \* the capacities a ring may be built with (new accepts 0)
  DefaultInterval,  \* DEFAULT_ANCHOR_INTERVAL
  MaxHead           \* bound: how many bytes a terminal prints

ASSUME RingAssumption ==
  /\ Capacities \subseteq Nat
  /\ DefaultInterval \in Nat \ {0}
  /\ MaxHead \in Nat

VARIABLES
  cap,                 \* capacity of the ring, in bytes; fixed by new
  bytes,               \* the retained window
  anchors,             \* byte offsets of the anchors, oldest first
  head_seq,            \* bytes ever pushed
  tail_offset,         \* offset of the first retained byte
  bytes_since_anchor,  \* bytes pushed since the newest anchor
  safe_splits          \* history: the offsets the tracker called a safe split

vars == <<cap, bytes, anchors, head_seq, tail_offset, bytes_since_anchor, safe_splits>>

\* anchor_interval = DEFAULT_ANCHOR_INTERVAL.min(cap.max(1)).
AnchorInterval ==
  LET atLeastOne == IF cap > 1 THEN cap ELSE 1
  IN  IF DefaultInterval < atLeastOne THEN DefaultInterval ELSE atLeastOne

-----------------------------------------------------------------------------
(* Helpers of push *)

\* Mutants of PlacesAnchor: the is_at_safe_split test dropped; `<=` for `<` in
\* the interval test, so that an anchor comes one byte late.
MutPlacesAnywhere(safe) == bytes_since_anchor + 1 >= AnchorInterval
MutPlacesLate(safe)     == bytes_since_anchor + 1 > AnchorInterval /\ safe

\* maybe_place_anchor: a ring that has an anchor gets the next one at the
\* first safe split at least AnchorInterval bytes later.
PlacesAnchor(safe) == bytes_since_anchor + 1 >= AnchorInterval /\ safe

AnchorsAfter(safe) ==
  IF PlacesAnchor(safe) THEN Append(anchors, head_seq + 1) ELSE anchors

\* Mutant of StopsAt: `while len >= cap` evicts from a ring that is just full.
MutEvictsWhenFull(marks, head) ==
  {k \in 1..Len(marks) : k = Len(marks) \/ head - marks[k] < cap}

\* maybe_evict, with eviction_target and drop_stale_anchors: while the window
\* is over cap and there is a second anchor, that anchor becomes the first.
\* The loop stops at the first anchor from which the window fits, or at the
\* last anchor.
StopsAt(marks, head) ==
  {k \in 1..Len(marks) : k = Len(marks) \/ head - marks[k] <= cap}

EvictTo(marks, head) ==
  CHOOSE k \in StopsAt(marks, head) : \A j \in StopsAt(marks, head) : k <= j

-----------------------------------------------------------------------------
(* Operations *)

\* ScrollbackRing::new: bytes_since_anchor starts at usize::MAX and no anchor
\* exists, so maybe_place_anchor puts one at offset 0.
Init ==
  /\ cap \in Capacities
  /\ bytes = <<>>
  /\ anchors = <<0>>
  /\ head_seq = 0
  /\ tail_offset = 0
  /\ bytes_since_anchor = 0
  /\ safe_splits = {0}

\* One iteration of the loop of push.
PushByte(safe) ==
  LET head    == head_seq + 1
      marks   == AnchorsAfter(safe)
      grown   == Append(bytes, head_seq)
      k       == EvictTo(marks, head)
      to_drop == marks[k] - tail_offset
  IN  /\ head_seq < MaxHead
      /\ UNCHANGED cap
      /\ head_seq' = head
      /\ bytes_since_anchor' = IF PlacesAnchor(safe) THEN 0 ELSE bytes_since_anchor + 1
      /\ anchors' = SubSeq(marks, k, Len(marks))
      /\ bytes' = SubSeq(grown, to_drop + 1, Len(grown))
      /\ tail_offset' = tail_offset + to_drop
      /\ safe_splits' = IF safe THEN safe_splits \cup {head} ELSE safe_splits

Next == \E safe \in BOOLEAN : PushByte(safe)

Spec == Init /\ [][Next]_vars

-----------------------------------------------------------------------------
(* Reads.  offset_to_relative saturates at zero. *)

OffsetToRelative(offset) ==
  IF offset > tail_offset THEN offset - tail_offset ELSE 0

\* bytes.iter().skip(n)
Skip(n) == SubSeq(bytes, n + 1, Len(bytes))

\* A Snapshot: the parser state to start from and the bytes to replay.
SnapshotFromAnchor(anchor) ==
  [anchor_state |-> anchor, bytes |-> Skip(OffsetToRelative(anchor)), head_seq |-> head_seq]

Snapshot == SnapshotFromAnchor(anchors[1])

\* Mutant of SnapshotWithMaxBytes: with no anchor in range, the oldest one.
MutSnapshotFromFront(max) ==
  LET fit == {k \in DOMAIN anchors : head_seq - anchors[k] <= max}
  IN  IF fit = {}
      THEN Snapshot
      ELSE SnapshotFromAnchor(anchors[CHOOSE k \in fit : \A j \in fit : j <= k])

\* snapshot_with_max_bytes: the newest anchor within max bytes of the head,
\* or else no bytes and the tracker's current state.
SnapshotWithMaxBytes(max) ==
  LET fit == {k \in DOMAIN anchors : head_seq - anchors[k] <= max}
  IN  IF fit = {}
      THEN [anchor_state |-> head_seq, bytes |-> <<>>, head_seq |-> head_seq]
      ELSE SnapshotFromAnchor(anchors[CHOOSE k \in fit : \A j \in fit : j <= k])

NoDelta == [some |-> FALSE]

\* since: None, or the retained bytes from seq on.
Since(seq) ==
  IF seq < tail_offset \/ seq > head_seq
  THEN NoDelta
  ELSE [some |-> TRUE, bytes |-> Skip(OffsetToRelative(seq)), head_seq |-> head_seq]

\* Mutant of HistoryPage: `before` is clamped to the head only.
MutPageUnclamped(before, max) ==
  LET end   == IF before > head_seq THEN head_seq ELSE before
      avail == IF end > tail_offset THEN end - tail_offset ELSE 0
      len   == IF avail < max THEN avail ELSE max
      start == end - len
      rel   == OffsetToRelative(start)
  IN  [start_seq |-> start,
       end_seq   |-> end,
       bytes     |-> SubSeq(bytes, rel + 1, rel + len),
       has_more  |-> start > 0]

\* history_page, with before = Some(before).
HistoryPage(before, max) ==
  LET end   == IF before < tail_offset THEN tail_offset
               ELSE IF before > head_seq THEN head_seq ELSE before
      avail == end - tail_offset
      len   == IF avail < max THEN avail ELSE max
      start == end - len
      rel   == OffsetToRelative(start)
  IN  [start_seq |-> start,
       end_seq   |-> end,
       bytes     |-> SubSeq(bytes, rel + 1, rel + len),
       has_more  |-> start > tail_offset]

-----------------------------------------------------------------------------
(* Properties *)

\* The output from offset lo up to but excluding hi.
Output(lo, hi) == [i \in 1..(hi - lo) |-> lo + i - 1]

\* The types of the ring's fields.
TypeOK ==
  /\ cap \in Nat
  /\ head_seq \in Nat
  /\ tail_offset \in Nat
  /\ bytes_since_anchor \in Nat
  /\ bytes \in Seq(Nat)
  /\ anchors \in Seq(Nat)
  /\ safe_splits \in SUBSET Nat

\* The window is exactly the output from tail_offset to head_seq: evicting
\* (drain, then tail_offset += to_drop) never leaves the byte queue and the
\* offset that names its first byte disagreeing.
WindowIsOutput ==
  /\ tail_offset <= head_seq
  /\ bytes = Output(tail_offset, head_seq)

\* The window starts at its oldest anchor, so the whole window can be
\* replayed, and every retained anchor is a position the parser called safe.
WindowStartsAtSafeAnchor ==
  /\ Len(anchors) >= 1
  /\ anchors[1] = tail_offset
  /\ \A k \in 1..Len(anchors) : anchors[k] \in safe_splits

\* Eviction keeps the window within capacity, except while the output since
\* the window's first anchor has offered no safe split at which the next
\* anchor could go (an unterminated escape sequence longer than the ring).
OverCapacityOnlyWithoutSplit ==
  Len(bytes) > cap =>
    \A o \in safe_splits : o < tail_offset + AnchorInterval

\* A snapshot bounded by max bytes holds at most max bytes and carries the
\* parser state of its first byte, so that replaying it gives the screen; it
\* starts at a safe split, or at the head when no anchor is near enough.
BoundedSnapshotReplays ==
  \A max \in 0..MaxHead :
    LET s == SnapshotWithMaxBytes(max)
    IN  /\ Len(s.bytes) <= max
        /\ s.bytes = Output(s.anchor_state, head_seq)
        /\ s.anchor_state \in safe_splits \cup {head_seq}

\* since() answers exactly for the sequence numbers the window still covers,
\* with every byte from there to the head.
SinceIsExact ==
  \A seq \in 0..(MaxHead + 1) :
    Since(seq) = IF seq \in tail_offset..head_seq
                 THEN [some |-> TRUE, bytes |-> Output(seq, head_seq), head_seq |-> head_seq]
                 ELSE NoDelta

\* Paging back through history from any position, one page after the other
\* (before = start_seq of the page before), loses and repeats no byte: a page
\* ends where it was asked to (clamped to the window), holds exactly the bytes
\* it names, and says has_more exactly while retained bytes precede it.
HistoryPagesTile ==
  \A before \in 0..(MaxHead + 1), max \in 1..(MaxHead + 1) :
    LET p == HistoryPage(before, max)
    IN  /\ before \in tail_offset..head_seq => p.end_seq = before
        /\ p.start_seq <= p.end_seq
        /\ p.bytes = Output(p.start_seq, p.end_seq)
        /\ Len(p.bytes) <= max
        /\ p.has_more <=> tail_offset < p.start_seq
        /\ p.has_more => Len(p.bytes) = max

\* A step never moves the window backwards and never drops more than it must:
\* it evicts only when the ring was full, and then up to an anchor.
EvictsOnlyWhenFull ==
  [][ /\ head_seq' > head_seq
      /\ tail_offset' # tail_offset =>
           /\ tail_offset' > tail_offset
           /\ Len(bytes) >= cap
           /\ \A k \in 2..Len(anchors) :
                anchors[k] < tail_offset' => head_seq' - anchors[k] > cap
    ]_vars

-----------------------------------------------------------------------------
(* The inductive invariant *)

NewestAnchor == anchors[Len(anchors)]

\* Anchors are placed at the head only, so each lies beyond the one before.
AnchorsOrdered ==
  \A j, k \in 1..Len(anchors) : j < k => anchors[j] < anchors[k]

\* bytes_since_anchor measures from the newest anchor, and no safe split was
\* passed over once the interval was reached.
SplitsTaken ==
  /\ head_seq = NewestAnchor + bytes_since_anchor
  /\ \A o \in safe_splits : o <= head_seq /\ o < NewestAnchor + AnchorInterval

\* Eviction stops only when the window fits or one anchor is left.
FitsOrOneAnchor == Len(bytes) <= cap \/ Len(anchors) = 1

\* The inductive invariant of push: the window is the output it claims to be,
\* starts at a safe anchor, and eviction stopped where it had to.
RingInv ==
  /\ TypeOK
  /\ WindowIsOutput
  /\ WindowStartsAtSafeAnchor
  /\ AnchorsOrdered
  /\ SplitsTaken
  /\ FitsOrOneAnchor
=============================================================================
