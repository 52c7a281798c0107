----------------------------- MODULE ReplayRing ------------------------------
(***************************************************************************)
(* The replay ring of influx_replay.h: records captured while the cloud is *)
(* down, in a circular buffer of slots with a head and a count, posted     *)
(* oldest first, saved in chunks before a ladder reset and loaded at boot. *)
(*                                                                         *)
(* The pacing (capture period, settle time, push back-off) is abstracted:  *)
(* a record may be captured, and a batch posted, in any pass.              *)
(***************************************************************************)
EXTENDS Integers, Sequences

CONSTANTS
  RP_MAX,         \* slots of the ring
  RP_PER_POST,    \* records of one POST
  RP_CHUNK_RECS,  \* records of one chunk in the key-value store
  MaxRecords      \* bound: records ever captured

ASSUME RingAssumption ==
  /\ {RP_MAX, RP_PER_POST, RP_CHUNK_RECS, MaxRecords} \subseteq Nat \ {0}
  /\ RP_CHUNK_RECS <= RP_MAX

VARIABLES
  slot, head, count,  \* s_rp, s_rpHead, s_rpCount
  chunk, meta,        \* the saved copy: RP_KEY_CHUNK_FMT, RP_KEY_META (0: absent)
  top,                \* ghost: records captured so far, numbered in their order
  gone                \* ghost: records overwritten, accepted or refused

ring == <<slot, head, count>>
copy == <<chunk, meta>>
ringGhosts == <<top, gone>>
ringVars == <<ring, copy, ringGhosts>>

Slots  == 0..RP_MAX - 1
Chunks == 0..(RP_MAX - 1) \div RP_CHUNK_RECS
Smaller(a, b) == IF a < b THEN a ELSE b

rpOldestIdx == (head + RP_MAX - count) % RP_MAX

\* The ring read oldest first, and the records from the n-th on, k of them.
At(n) == slot[(rpOldestIdx + n) % RP_MAX]
Content == [i \in 1..count |-> At(i - 1)]
Part(n, k) == [i \in 1..k |-> At(n + i - 1)]

\* Mutant: the head runs one past the last slot before it wraps.
HeadAfterOneLate == IF head < RP_MAX THEN head + 1 ELSE 0

HeadAfterOne == (head + 1) % RP_MAX

Capture ==
  /\ top < MaxRecords
  /\ top' = top + 1
  /\ slot' = [slot EXCEPT ![head] = top']
  /\ head' = HeadAfterOne
  /\ IF count < RP_MAX THEN count' = count + 1 /\ UNCHANGED gone
                       ELSE UNCHANGED count /\ gone' = gone \cup {At(0)}
  /\ UNCHANGED copy

\* Mutant: the newest records are dropped instead of the oldest.
DropNewest(k) ==
  /\ count' = count - k /\ head' = (head + RP_MAX - k) % RP_MAX
  /\ gone' = gone \cup {At(i) : i \in 0..k - 1}
  /\ UNCHANGED <<slot, copy, top>>

DropOldest(k) ==
  /\ count' = count - k
  /\ gone' = gone \cup {At(i) : i \in 0..k - 1}
  /\ UNCHANGED <<slot, head, copy, top>>

\* One POST of the oldest k records: accepted or refused by the server, either of
\* which takes them off; any other end keeps them, a lost reply among those.
Post == \E k \in 1..Smaller(RP_PER_POST, count) :
  DropOldest(k) \/ UNCHANGED ringVars

-----------------------------------------------------------------------------
(* Saving: one chunk a step, the count last.                               *)

ChunkOf(c) == Part(c * RP_CHUNK_RECS, Smaller(RP_CHUNK_RECS, count - c * RP_CHUNK_RECS))

\* Mutant: a last chunk that is not full is not saved.
LastWholeChunk == IF count < RP_CHUNK_RECS THEN 0 ELSE (count \div RP_CHUNK_RECS) - 1

LastChunk == (count - 1) \div RP_CHUNK_RECS

SaveChunk(c) ==
  /\ chunk' = [chunk EXCEPT ![c] = ChunkOf(c)]
  /\ UNCHANGED <<ring, meta, ringGhosts>>

SaveMeta ==
  /\ meta' = count
  /\ UNCHANGED <<ring, chunk, ringGhosts>>

\* Memory is lost with the power or a reset; the copy stays as far as it got.
ForgetRing ==
  /\ slot' = [i \in Slots |-> 0] /\ head' = 0 /\ count' = 0
  /\ UNCHANGED <<copy, ringGhosts>>

-----------------------------------------------------------------------------
(* Loading: chunks are read while they have the length the count says, then *)
(* what was read is removed, and the count last.                            *)

Sized(c) == Len(chunk[c]) = Smaller(RP_CHUNK_RECS, meta - c * RP_CHUNK_RECS)
Needed == IF meta = 0 THEN 0 ELSE ((meta - 1) \div RP_CHUNK_RECS) + 1
Read == CHOOSE n \in 0..Needed :
          /\ \A c \in 0..n - 1 : Sized(c)
          /\ n < Needed => ~Sized(n)
Loaded == Smaller(meta, Read * RP_CHUNK_RECS)

replayLoad ==
  /\ slot' = [i \in Slots |-> IF i < Loaded
                              THEN chunk[i \div RP_CHUNK_RECS][(i % RP_CHUNK_RECS) + 1] ELSE 0]
  /\ count' = Loaded /\ head' = Loaded % RP_MAX
  /\ UNCHANGED <<copy, ringGhosts>>

RemoveChunk(c) ==
  /\ chunk' = [chunk EXCEPT ![c] = <<>>]
  /\ UNCHANGED <<ring, meta, ringGhosts>>

RemoveMeta ==
  /\ meta' = 0
  /\ UNCHANGED <<ring, chunk, ringGhosts>>

RingInit ==
  /\ slot = [i \in Slots |-> 0] /\ head = 0 /\ count = 0
  /\ chunk = [c \in Chunks |-> <<>>] /\ meta = 0
  /\ top = 0 /\ gone = {}

RingTypeOK ==
  /\ slot \in [Slots -> 0..MaxRecords] /\ head \in Slots /\ count \in 0..RP_MAX
  /\ chunk \in [Chunks -> Seq(0..MaxRecords)]
  /\ \A c \in Chunks : Len(chunk[c]) <= RP_CHUNK_RECS
  /\ meta \in 0..RP_MAX
  /\ top \in 0..MaxRecords /\ gone \subseteq 0..MaxRecords
=============================================================================
