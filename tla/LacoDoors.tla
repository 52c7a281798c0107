------------------------------ MODULE LacoDoors ------------------------------
(***************************************************************************)
(* The LACO chamber doors (laco_doors.h): a dashboard switch per chamber   *)
(* starts a job that commands side A, waits for the air supply, commands   *)
(* side B and waits for the doors to settle, one step per tick of the PLC  *)
(* thread.  A side is two tags, clamps and door, written one after the     *)
(* other.                                                                  *)
(*                                                                         *)
(* Against it: the sequencer, which starts cycles the gateway sees only in *)
(* every third tick, air, link and pressure that come and go, refused      *)
(* writes, lost sessions, and the operator, who may turn a job round.      *)
(* Time is counted in ticks.                                               *)
(***************************************************************************)
EXTENDS Integers

CONSTANTS
  StaggerTicks,     \* LACO_STAGGER_MS, in ticks
  SettleTicks,      \* LACO_SETTLE_MS, in ticks
  StateEveryTicks,  \* STATE_EVERY_TICKS
  Budget            \* how often each environment event may happen

Events == {"presses", "cycles", "faults", "weather"}

ASSUME TicksAssumption ==
  StaggerTicks \in Nat /\ SettleTicks \in Nat /\ StaggerTicks <= SettleTicks
  /\ StateEveryTicks \in Nat \ {0, 1, 2}
ASSUME BudgetAssumption == Budget \in [Events -> Nat]

VARIABLES
  clamps, door,   \* the command bits in the PLC, per side
  cycle,          \* the sequencer runs a cycle
  fit,            \* the machine's LACO link, control air and vented chamber
  conn,           \* eip.connected()
  phase,          \* tickN % STATE_EVERY_TICKS
  actionWord,     \* w.actionWord # 0
  lacoSeen, laco, \* s_lacoSeen; the link and air values of the last poll
  vented,         \* w.ok and w.sensor of the chamber pressure
  job,            \* s_lacoTop, s_lacoBot
  pc, turn, wrote, undo,  \* the tick; the job whose step runs; wroteThisTick
  left,           \* what is left of Budget
  since,          \* ghost: ticks since each side was last commanded
  cycleAge,       \* ghost: ticks since the running cycle began
  hurried,        \* ghost: a reversal, an outage or a failed write cut a wait short
  odd,            \* ghost: sides whose clamps could not be put back as they were
  opened,         \* ghost: the gates each accepted opening was shown
  fresh, swept    \* ghosts: LACO was polled in this session; the last sweep
                  \* of the action bits was answered

plant  == <<clamps, door>>
world  == <<cycle, fit>>
reads  == <<phase, actionWord, lacoSeen, laco, vented, fresh, swept>>
steps  == <<pc, turn, wrote, undo>>
ghosts == <<since, cycleAge, hurried, odd, opened>>
vars == <<plant, world, conn, reads, job, steps, left, ghosts>>

Chambers == {"top", "bot"}
Sides    == {"TA", "TB", "BA", "BB"}
SideA(c) == IF c = "top" THEN "TA" ELSE "BA"
SideB(c) == IF c = "top" THEN "TB" ELSE "BB"

Gauges == {"comm", "air", "vented"}
Idle == [active |-> FALSE, open |-> FALSE, step |-> 0, age |-> 0]
Busy == \E c \in Chambers : job[c].active

Spend(e) == left[e] > 0 /\ left' = [left EXCEPT ![e] = @ - 1]

-----------------------------------------------------------------------------
(* The world.  Only the sweeps look at it, so it moves between ticks.      *)

CycleFlip ==
  /\ pc = "top" /\ Spend("cycles")
  /\ cycle' = ~cycle /\ cycleAge' = 0
  /\ UNCHANGED <<plant, fit, conn, reads, job, steps, since, hurried, odd, opened>>

Weather(g) ==
  /\ pc = "top" /\ Spend("weather")
  /\ fit' = [fit EXCEPT ![g] = ~@]
  /\ UNCHANGED <<plant, cycle, conn, reads, job, steps, ghosts>>

-----------------------------------------------------------------------------
(* The tick: sweeps by phase, lacoTick, then the commands.                 *)

\* Mutant: the jobs are left in flight.
TickAwayKeep ==
  /\ pc = "top" /\ ~conn
  /\ conn' \in BOOLEAN
  /\ lacoSeen' = FALSE /\ fresh' = FALSE
  /\ vented' = FALSE
  /\ pc' = "end"
  /\ UNCHANGED <<plant, world, swept, phase, actionWord, laco, job, turn, wrote, undo, left, ghosts>>

\* Mutant: the poll of before the outage still counts.
TickAwayTrust ==
  /\ pc = "top" /\ ~conn
  /\ conn' \in BOOLEAN
  /\ job' = [c \in Chambers |-> Idle]
  /\ hurried' = (hurried \/ Busy)
  /\ fresh' = FALSE
  /\ vented' = FALSE
  /\ pc' = "end"
  /\ UNCHANGED <<plant, world, swept, phase, actionWord, lacoSeen, laco, turn, wrote, undo, left,
                 since, cycleAge, odd, opened>>

\* lacoAbort: the jobs and what was polled mean nothing without the PLC.
TickAway ==
  /\ pc = "top" /\ ~conn
  /\ conn' \in BOOLEAN
  /\ job' = [c \in Chambers |-> Idle]
  /\ hurried' = (hurried \/ Busy)
  /\ lacoSeen' = FALSE /\ fresh' = FALSE
  /\ vented' = FALSE
  /\ pc' = "end"
  /\ UNCHANGED <<plant, world, swept, phase, actionWord, laco, turn, wrote, undo, left,
                 since, cycleAge, odd, opened>>

\* An action bit that is not read counts as clear.
StateSweep ==
  IF phase # 0 THEN UNCHANGED <<actionWord, swept, left>>
  ELSE \/ actionWord' = cycle /\ swept' = TRUE /\ UNCHANGED left
       \/ actionWord' = FALSE /\ swept' = FALSE /\ Spend("faults")

lacoPoll ==
  IF phase # 2 THEN UNCHANGED <<lacoSeen, fresh, laco>>
  ELSE lacoSeen' = TRUE /\ fresh' = TRUE /\ laco' = [g \in {"comm", "air"} |-> fit[g]]

\* Tags that do not answer: no action, no link, no air.
SweepNothing ==
  /\ IF phase = 0 THEN actionWord' = FALSE /\ swept' = FALSE ELSE UNCHANGED <<actionWord, swept>>
  /\ IF phase = 2 THEN lacoSeen' = TRUE /\ fresh' = TRUE /\ laco' = [g \in {"comm", "air"} |-> FALSE]
                  ELSE UNCHANGED <<lacoSeen, fresh, laco>>

\* A session lost in the sensor sweep skips the rest of the tick; lost later, the
\* sweeps read nothing and the jobs still run.
TickPoll ==
  /\ pc = "top" /\ conn
  /\ \/ StateSweep /\ lacoPoll /\ vented' = fit["vented"] /\ pc' = "jobs" /\ UNCHANGED conn
     \/ conn' = FALSE /\ Spend("faults") /\ pc' = "end"
        /\ vented' = FALSE /\ UNCHANGED <<actionWord, swept, lacoSeen, fresh, laco>>
     \/ conn' = FALSE /\ Spend("faults") /\ pc' = "jobs"
        /\ vented' = fit["vented"] /\ SweepNothing
  /\ turn' = "top" /\ wrote' = FALSE
  /\ UNCHANGED <<plant, world, phase, job, undo, ghosts>>

\* lacoStep for the top chamber first, then for the bottom one.
NextTurn == IF turn = "top" THEN turn' = "bot" /\ pc' = "jobs"
                            ELSE turn' = "top" /\ pc' = "drain"

j == job[turn]

Wait(step) == IF step = 1 THEN StaggerTicks ELSE SettleTicks

Skip ==
  /\ pc = "jobs"
  /\ \/ ~j.active
     \/ j.step \in {0, 2} /\ wrote
     \/ j.step \in {1, 3} /\ j.age < Wait(j.step)
  /\ NextTurn
  /\ UNCHANGED <<plant, world, conn, reads, job, wrote, undo, left, ghosts>>

\* Mutant: a job whose doors have settled goes on.
WaitedOn ==
  /\ pc = "jobs" /\ j.active /\ j.step \in {1, 3}
  /\ j.age >= Wait(j.step)
  /\ job' = [job EXCEPT ![turn].step = @ + 1, ![turn].age = 0]
  /\ NextTurn
  /\ UNCHANGED <<plant, world, conn, reads, wrote, undo, left, ghosts>>

\* The stagger is over, or the doors have settled and are judged.
Waited ==
  /\ pc = "jobs" /\ j.active
  /\ j.age >= Wait(j.step)
  /\ \/ j.step = 1 /\ job' = [job EXCEPT ![turn].step = 2, ![turn].age = 0]
     \/ j.step = 3 /\ job' = [job EXCEPT ![turn] = Idle]
  /\ NextTurn
  /\ UNCHANGED <<plant, world, conn, reads, wrote, undo, left, ghosts>>

WriteDue == pc = "jobs" /\ j.active /\ j.step \in {0, 2} /\ ~wrote

\* An opening is given up when a cycle has started meanwhile.
Cancel ==
  /\ WriteDue /\ j.open /\ actionWord
  /\ job' = [job EXCEPT ![turn] = Idle]
  /\ NextTurn
  /\ UNCHANGED <<plant, world, conn, reads, wrote, undo, left, ghosts>>

-----------------------------------------------------------------------------
(* lacoWriteSide: clamps, door, and the clamps put back.                   *)

Side == IF j.step = 0 THEN SideA(turn) ELSE SideB(turn)

\* One write: taken, refused, or lost with the session, taken or not.
Write(tag, v, ok) ==
  \/ ok /\ conn /\ tag' = [tag EXCEPT ![Side] = v] /\ UNCHANGED <<conn, left>>
  \/ ~ok /\ ~conn /\ UNCHANGED <<tag, conn, left>>
  \/ ~ok /\ conn /\ Spend("faults") /\ UNCHANGED <<tag, conn>>
  \/ ~ok /\ conn /\ Spend("faults") /\ conn' = FALSE
     /\ tag' \in {tag, [tag EXCEPT ![Side] = v]}

Failed ==
  /\ job' = [job EXCEPT ![turn] = Idle]
  /\ hurried' = TRUE
  /\ NextTurn

\* Mutant: the cycle is looked at only when the request is accepted.
WriteClampsBlind ==
  /\ WriteDue
  /\ \E ok \in BOOLEAN :
       /\ Write(clamps, j.open, ok)
       /\ IF ok THEN pc' = "door" /\ undo' = clamps[Side] /\ UNCHANGED <<turn, job, hurried>>
                ELSE Failed /\ UNCHANGED undo
       /\ odd' = IF clamps' # clamps /\ ~ok THEN odd \cup {Side} ELSE odd
  /\ UNCHANGED <<door, world, reads, wrote, since, cycleAge, opened>>

WriteClamps ==
  /\ WriteDue /\ ~(j.open /\ actionWord)
  /\ \E ok \in BOOLEAN :
       /\ Write(clamps, j.open, ok)
       /\ IF ok THEN pc' = "door" /\ undo' = clamps[Side] /\ UNCHANGED <<turn, job, hurried>>
                ELSE Failed /\ UNCHANGED undo
       /\ odd' = IF clamps' # clamps /\ ~ok THEN odd \cup {Side} ELSE odd
  /\ UNCHANGED <<door, world, reads, wrote, since, cycleAge, opened>>

\* Mutant: a refused door leaves the clamps as they were written.
WriteDoorOnly ==
  /\ pc = "door"
  /\ \E ok \in BOOLEAN :
       /\ Write(door, j.open, ok)
       /\ IF ok THEN /\ job' = [job EXCEPT ![turn].step = @ + 1, ![turn].age = 0]
                     /\ wrote' = TRUE /\ undo' = FALSE /\ NextTurn /\ UNCHANGED hurried
                ELSE Failed /\ undo' = FALSE /\ UNCHANGED wrote
       /\ odd' = IF ok THEN odd \ {Side} ELSE odd
  /\ since' = [since EXCEPT ![Side] = 0]
  /\ UNCHANGED <<clamps, world, reads, cycleAge, opened>>

WriteDoor ==
  /\ pc = "door"
  /\ \E ok \in BOOLEAN :
       /\ Write(door, j.open, ok)
       /\ IF ok THEN /\ job' = [job EXCEPT ![turn].step = @ + 1, ![turn].age = 0]
                     /\ wrote' = TRUE /\ undo' = FALSE /\ NextTurn /\ UNCHANGED hurried
                ELSE pc' = "putBack" /\ UNCHANGED <<job, wrote, undo, turn, hurried>>
       /\ odd' = IF ok THEN odd \ {Side} ELSE odd
  /\ since' = [since EXCEPT ![Side] = 0]
  /\ UNCHANGED <<clamps, world, reads, cycleAge, opened>>

\* The opposite of the request is written, whatever the clamps were before.
PutBack ==
  /\ pc = "putBack"
  /\ \E ok \in BOOLEAN :
       /\ Write(clamps, ~j.open, ok)
       /\ odd' = IF ~ok \/ undo = j.open THEN odd \cup {Side} ELSE odd
  /\ Failed /\ undo' = FALSE
  /\ UNCHANGED <<door, world, reads, wrote, since, cycleAge, opened>>

-----------------------------------------------------------------------------
(* lacoStart, for a command drained at the end of the tick.                *)

Gates(open) ==
  /\ ~actionWord /\ lacoSeen /\ laco["comm"]
  /\ open => laco["air"] /\ vented

Accept(c, open) ==
  /\ job' = [job EXCEPT ![c] = [active |-> TRUE, open |-> open, step |-> 0, age |-> 0]]
  /\ opened' = [opened EXCEPT ![c] = ~open \/ Gates(TRUE)]

\* Turning a job round starts it again from side A; no gate is asked.
Reverse(c, open) ==
  /\ pc = "drain" /\ conn /\ Spend("presses")
  /\ job[c].active /\ job[c].open # open
  /\ Accept(c, open)
  /\ hurried' = TRUE
  /\ UNCHANGED <<plant, world, conn, reads, steps, since, cycleAge, odd>>

\* Mutant: only the chamber's own job refuses a second one.
StartBeside(c, open) ==
  /\ pc = "drain" /\ conn /\ Spend("presses")
  /\ ~job[c].active /\ Gates(open)
  /\ Accept(c, open)
  /\ UNCHANGED <<plant, world, conn, reads, steps, since, cycleAge, hurried, odd>>

Start(c, open) ==
  /\ pc = "drain" /\ conn /\ Spend("presses")
  /\ ~Busy /\ Gates(open)
  /\ Accept(c, open)
  /\ UNCHANGED <<plant, world, conn, reads, steps, since, cycleAge, hurried, odd>>

Aged(n, cap) == IF n < cap THEN n + 1 ELSE n

\* What the next tick reads anew is dropped here.
TickEnd ==
  /\ pc \in {"drain", "end"}
  /\ pc' = "top" /\ wrote' = FALSE /\ vented' = FALSE
  /\ phase' = (phase + 1) % StateEveryTicks
  /\ job' = [c \in Chambers |->
               IF job[c].step \in {1, 3}
               THEN [job[c] EXCEPT !.age = Aged(@, Wait(job[c].step))] ELSE job[c]]
  /\ since' = [s \in Sides |-> Aged(since[s], StaggerTicks)]
  /\ cycleAge' = IF cycle THEN Aged(cycleAge, StateEveryTicks) ELSE 0
  /\ hurried' = (hurried /\ \E s \in Sides : Aged(since[s], StaggerTicks) < StaggerTicks)
  /\ UNCHANGED <<plant, world, conn, actionWord, lacoSeen, laco, fresh, swept, turn,
                 undo, left, odd, opened>>

-----------------------------------------------------------------------------
\* The machine at rest, all doors shut or all open.
Init ==
  /\ \E at \in BOOLEAN : clamps = [s \in Sides |-> at] /\ door = [s \in Sides |-> at]
  /\ cycle = FALSE /\ fit = [g \in Gauges |-> TRUE]
  /\ conn = FALSE
  /\ phase = 0 /\ actionWord = FALSE
  /\ lacoSeen = FALSE /\ laco = [g \in {"comm", "air"} |-> FALSE] /\ vented = FALSE
  /\ job = [c \in Chambers |-> Idle]
  /\ pc = "top" /\ turn = "top" /\ wrote = FALSE /\ undo = FALSE
  /\ left = Budget
  /\ since = [s \in Sides |-> StaggerTicks] /\ cycleAge = 0
  /\ hurried = FALSE /\ odd = {} /\ opened = [c \in Chambers |-> TRUE]
  /\ fresh = FALSE /\ swept = FALSE

Tick ==
  \/ TickAway \/ TickPoll
  \/ Skip \/ Waited \/ Cancel \/ WriteClamps \/ WriteDoor \/ PutBack
  \/ TickEnd

Environment ==
  \/ \E c \in Chambers, open \in BOOLEAN : Start(c, open) \/ Reverse(c, open)
  \/ CycleFlip
  \/ \E g \in Gauges : Weather(g)

Next == Tick \/ Environment

Spec == Init /\ [][Next]_vars

\* The PLC thread loops for ever; a session need not come back.
FairSpec == Spec /\ WF_vars(Tick)

-----------------------------------------------------------------------------
TypeOK ==
  /\ clamps \in [Sides -> BOOLEAN] /\ door \in [Sides -> BOOLEAN]
  /\ cycle \in BOOLEAN /\ fit \in [Gauges -> BOOLEAN] /\ conn \in BOOLEAN
  /\ phase \in 0..(StateEveryTicks - 1) /\ actionWord \in BOOLEAN
  /\ lacoSeen \in BOOLEAN /\ laco \in [{"comm", "air"} -> BOOLEAN] /\ vented \in BOOLEAN
  /\ job \in [Chambers -> [active : BOOLEAN, open : BOOLEAN, step : 0..3, age : Nat]]
  /\ pc \in {"top", "jobs", "door", "putBack", "drain", "end"}
  /\ turn \in Chambers /\ wrote \in BOOLEAN /\ undo \in BOOLEAN
  /\ left \in [Events -> Nat]
  /\ since \in [Sides -> 0..StaggerTicks] /\ cycleAge \in 0..StateEveryTicks
  /\ hurried \in BOOLEAN /\ odd \subseteq Sides /\ opened \in [Chambers -> BOOLEAN]
  /\ fresh \in BOOLEAN /\ swept \in BOOLEAN

(***************************************************************************)
(* The air supply moves one side at a time: a side is commanded only when  *)
(* every other side's last command is a full stagger old.  A reversal, an  *)
(* outage or a failed write, which cut a wait short, are excused until the *)
(* sides they moved have had their time.                                   *)
(***************************************************************************)
StaggerKept ==
  (pc = "door" /\ ~hurried) => \A s \in Sides \ {Side} : since[s] >= StaggerTicks

(***************************************************************************)
(* "Clamps released, door still shut" is never left behind by a write that *)
(* failed: outside a write, the clamps and the door of a side agree, but   *)
(* for a session that died under it and a side that already stood where it *)
(* was asked to go.                                                        *)
(***************************************************************************)
SidesPaired ==
  pc \notin {"door", "putBack"} => \A s \in Sides \ odd : clamps[s] = door[s]

(***************************************************************************)
(* A door is not opened under a running cycle once the state sweep had its *)
(* turn to see it: the copy of the action bits that gates it is not older  *)
(* than one round of the sweeps, across outages, reconnects in the middle  *)
(* of a round, stagger waits and reversals.                                *)
(***************************************************************************)
OpeningSeesCycle ==
  (pc = "door" /\ j.open /\ cycle /\ swept) => cycleAge < StateEveryTicks - 1

(***************************************************************************)
(* No job runs on air and link values that predate an outage (review I2).  *)
(***************************************************************************)
JobsOnFreshPoll == Busy => fresh

(***************************************************************************)
(* Every job ends, by its verdict, a failed write, a cancel or an abort,   *)
(* even if the PLC never comes back; a stuck job would refuse both         *)
(* chambers for ever.                                                      *)
(***************************************************************************)
JobsEnd == Busy ~> ~Busy

(***************************************************************************)
(* Claimed at the head of laco_doors.h, and false: an opening is gated on  *)
(* the idle sequencer, the LACO link, the air and the vented chamber.      *)
(* Turning a closing job round asks none of them.                          *)
(***************************************************************************)
OpeningGated ==
  \A c \in Chambers : (job[c].active /\ job[c].open) => opened[c]
=============================================================================
