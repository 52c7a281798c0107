------------------------------ MODULE ReplayLog ------------------------------
(***************************************************************************)
(* What the replay ring promises: a bounded queue of outage records.  A    *)
(* record leaves it oldest first, overwritten by a newer one only when the *)
(* queue is full, or taken off in a batch; a restart may lose records, and *)
(* may bring back what was saved, but never a record that had left.        *)
(***************************************************************************)
EXTENDS Integers, Sequences

CONSTANTS
  Cap,      \* records the queue holds, at least one
  PerPost   \* records a batch holds, at least one

VARIABLES
  on,       \* not between a reset and the end of the boot
  queue,    \* the records, oldest first
  top,      \* the last record captured
  gone      \* records that left the queue for good

logVars == <<on, queue, top, gone>>

Entries(s) == {s[i] : i \in DOMAIN s}

Working == on /\ on'

Append1 ==
  /\ Working
  /\ top' = top + 1
  /\ \/ Len(queue) < Cap /\ queue' = Append(queue, top') /\ gone' = gone
     \/ Len(queue) = Cap /\ queue' = Append(Tail(queue), top') /\ gone' = gone \cup {Head(queue)}

Take == Working /\ \E k \in 1..PerPost :
  /\ k <= Len(queue)
  /\ queue' = SubSeq(queue, k + 1, Len(queue))
  /\ gone' = gone \cup Entries(SubSeq(queue, 1, k))
  /\ top' = top

\* A restart: memory is lost, and what had been saved may come back, whole or in part.
Restore ==
  /\ ~Working
  /\ Entries(queue') \subseteq (1..top) \ gone
  /\ Len(queue') <= Cap
  /\ \A i, j \in DOMAIN queue' : queue'[i] = queue'[j] => i = j
  /\ UNCHANGED <<top, gone>>

LogInit == on = TRUE /\ queue = <<>> /\ top = 0 /\ gone = {}
LogNext == Append1 \/ Take \/ Restore
LogSpec == LogInit /\ [][LogNext]_logVars
=============================================================================
