---------------------------- MODULE LacoDoorsProofs ----------------------------
(***************************************************************************)
(* The safety of the LACO door jobs, proved for all waits and budgets:     *)
(* types, jobs on a fresh poll, sides that stay paired, the stagger, and,  *)
(* for the sweep period the source has, that no door opens under a cycle   *)
(* a sweep had its turn to see.  That jobs end is checked by TLC only.     *)
(***************************************************************************)
EXTENDS LacoDoors, TLAPS

JobRecord == [active : BOOLEAN, open : BOOLEAN, step : 0..3, age : Nat]

PlantTypes ==
  /\ clamps \in [Sides -> BOOLEAN] /\ door \in [Sides -> BOOLEAN]
  /\ conn \in BOOLEAN /\ left \in [Events -> Nat]
ReadTypes ==
  /\ cycle \in BOOLEAN /\ fit \in [Gauges -> BOOLEAN]
  /\ phase \in 0..(StateEveryTicks - 1) /\ actionWord \in BOOLEAN
  /\ lacoSeen \in BOOLEAN /\ laco \in [{"comm", "air"} -> BOOLEAN] /\ vented \in BOOLEAN
  /\ fresh \in BOOLEAN /\ swept \in BOOLEAN
JobTypes == job \in [Chambers -> JobRecord]
StepTypes ==
  /\ pc \in {"top", "jobs", "door", "putBack", "drain", "end"}
  /\ turn \in Chambers /\ wrote \in BOOLEAN /\ undo \in BOOLEAN
GhostTypes ==
  /\ since \in [Sides -> 0..StaggerTicks] /\ cycleAge \in 0..StateEveryTicks
  /\ hurried \in BOOLEAN /\ odd \subseteq Sides /\ opened \in [Chambers -> BOOLEAN]
Typed == PlantTypes /\ ReadTypes /\ JobTypes /\ StepTypes /\ GhostTypes

(* A write under way is a step of a job that commands a side.              *)
AtWrite == pc \in {"door", "putBack"} => j.active /\ j.step \in {0, 2}

(* The chambers share the air supply: one job at a time.                   *)
OneJob == \A c, d \in Chambers : job[c].active /\ job[d].active => c = d

(* The gates' copy of the poll counts exactly as long as its session.      *)
Polled == lacoSeen = fresh

(* The clamps put back by a failed door are those the side had.            *)
Paired ==
  /\ \A s \in Sides \ odd : (pc \in {"door", "putBack"} /\ s = Side) \/ clamps[s] = door[s]
  /\ pc = "door" => clamps[Side] = j.open
  /\ pc = "door" /\ Side \notin odd => undo = door[Side]
  /\ pc = "putBack" /\ Side \notin odd /\ conn => undo = door[Side]

(* A side that was commanded a short while ago is the one its job waits    *)
(* for, or the one whose failed write is about to end the job.             *)
Moving(s) ==
  \E c \in Chambers :
    /\ job[c].active /\ job[c].age <= since[s]
    /\ \/ job[c].step = 1 /\ s = SideA(c)
       \/ job[c].step = 3 /\ s = SideB(c)
Staggered ==
  ~hurried => \A s \in Sides :
                since[s] >= StaggerTicks \/ Moving(s) \/ (pc = "putBack" /\ s = Side)

(* How old a cycle that the last sweep did not find can be, by the place   *)
(* in the round of sweeps, for a period of three ticks.                    *)
Unaware == swept /\ ~actionWord /\ cycle
InTick == pc \in {"jobs", "door", "putBack", "drain"}
Paced ==
  /\ fresh /\ Unaware /\ (conn \/ InTick) =>
       /\ phase = 0 => ~InTick
       /\ phase = 1 => pc = "end" \/ cycleAge = 0
       /\ phase = 2 /\ pc = "top" => cycleAge <= 1
  /\ Busy /\ Unaware /\ phase = 2 /\ pc \in {"jobs", "door", "putBack"} => cycleAge <= 1
  /\ pc = "end" /\ conn => ~fresh
Gated == pc = "door" /\ j.open => ~actionWord

Orderly == AtWrite /\ OneJob /\ Polled /\ JobsOnFreshPoll
IInv == Typed /\ Orderly /\ Paired /\ Staggered
PacedInv == StateEveryTicks = 3 => Paced /\ Gated

-----------------------------------------------------------------------------
(* The chambers, the sides and the waits.                                  *)
LEMMA SetFacts ==
  /\ Chambers = {"top", "bot"} /\ Sides = {"TA", "TB", "BA", "BB"}
  /\ \A c \in Chambers : SideA(c) \in Sides /\ SideB(c) \in Sides
  /\ \A c, d \in Chambers : SideA(c) # SideB(d)
  /\ \A c, d \in Chambers : SideA(c) = SideA(d) \/ SideB(c) = SideB(d) => c = d
  /\ Events = {"presses", "cycles", "faults", "weather"}
  /\ StaggerTicks \in Nat /\ SettleTicks \in Nat /\ StaggerTicks <= SettleTicks
  /\ StateEveryTicks \in Nat /\ 3 <= StateEveryTicks
  /\ Budget \in [Events -> Nat]
<1>1. StateEveryTicks \in Nat /\ 3 <= StateEveryTicks
  BY TicksAssumption
<1>2. QED
  BY <1>1, TicksAssumption, BudgetAssumption DEF Chambers, Sides, SideA, SideB, Events

(* The side of the job whose step runs is a side.                          *)
LEMMA SideFacts ==
  ASSUME StepTypes
  PROVE  Side \in Sides
BY SetFacts DEF StepTypes, Side

(* An event spent leaves a budget.                                         *)
LEMMA SpendFacts ==
  ASSUME left \in [Events -> Nat], NEW e \in Events, Spend(e)
  PROVE  left' \in [Events -> Nat]
BY DEF Spend

(* Idle is the record of a chamber without a job.                          *)
LEMMA IdleFacts == Idle \in JobRecord /\ ~Idle.active /\ Idle.step = 0 /\ Idle.age = 0
BY DEF Idle, JobRecord

(* A job's fields.                                                         *)
LEMMA JobFacts ==
  ASSUME JobTypes, NEW c \in Chambers
  PROVE  /\ job[c] \in JobRecord
         /\ job[c].active \in BOOLEAN /\ job[c].open \in BOOLEAN
         /\ job[c].step \in 0..3 /\ job[c].age \in Nat
BY DEF JobTypes, JobRecord

(* One write to the clamps: the side, the session and the budget.          *)
LEMMA ClampsFacts ==
  ASSUME PlantTypes, StepTypes, NEW v \in BOOLEAN, NEW ok \in BOOLEAN, Write(clamps, v, ok)
  PROVE  /\ clamps' \in [Sides -> BOOLEAN] /\ conn' \in BOOLEAN /\ left' \in [Events -> Nat]
         /\ conn' => conn
         /\ \A s \in Sides \ {Side} : clamps'[s] = clamps[s]
         /\ ok => conn' /\ clamps'[Side] = v
         /\ ~ok /\ conn' => clamps' = clamps
<1> DEFINE written == [clamps EXCEPT ![Side] = v]
<1>1. /\ written \in [Sides -> BOOLEAN] /\ written[Side] = v
      /\ \A s \in Sides \ {Side} : written[s] = clamps[s]
  BY SideFacts DEF PlantTypes
<1>2. left' \in [Events -> Nat]
  BY SpendFacts, SetFacts DEF PlantTypes, Write
<1> HIDE DEF written
<1>3. clamps \in [Sides -> BOOLEAN] /\ conn \in BOOLEAN
  BY DEF PlantTypes
<1>4. \/ ok /\ conn /\ clamps' = written /\ conn' = TRUE
      \/ ~ok /\ ~conn /\ clamps' = clamps /\ conn' = FALSE
      \/ ~ok /\ conn /\ clamps' = clamps /\ conn' = TRUE
      \/ ~ok /\ conn /\ clamps' \in {clamps, written} /\ conn' = FALSE
  BY <1>3 DEF Write, written
<1>5. clamps' = clamps \/ clamps' = written
  BY <1>4
<1>6. /\ clamps' \in [Sides -> BOOLEAN]
      /\ \A s \in Sides \ {Side} : clamps'[s] = clamps[s]
  BY <1>1, <1>3, <1>5
<1>7. /\ conn' \in BOOLEAN /\ (conn' => conn)
      /\ ok => conn' /\ clamps' = written
      /\ ~ok /\ conn' => clamps' = clamps
  BY <1>4
<1>8. QED
  BY <1>1, <1>2, <1>6, <1>7

(* One write to the door, in the same way.                                 *)
LEMMA DoorFacts ==
  ASSUME PlantTypes, StepTypes, NEW v \in BOOLEAN, NEW ok \in BOOLEAN, Write(door, v, ok)
  PROVE  /\ door' \in [Sides -> BOOLEAN] /\ conn' \in BOOLEAN /\ left' \in [Events -> Nat]
         /\ conn' => conn
         /\ \A s \in Sides \ {Side} : door'[s] = door[s]
         /\ ok => conn' /\ door'[Side] = v
         /\ ~ok /\ conn' => door' = door
<1> DEFINE written == [door EXCEPT ![Side] = v]
<1>1. /\ written \in [Sides -> BOOLEAN] /\ written[Side] = v
      /\ \A s \in Sides \ {Side} : written[s] = door[s]
  BY SideFacts DEF PlantTypes
<1>2. left' \in [Events -> Nat]
  BY SpendFacts, SetFacts DEF PlantTypes, Write
<1> HIDE DEF written
<1>3. door \in [Sides -> BOOLEAN] /\ conn \in BOOLEAN
  BY DEF PlantTypes
<1>4. \/ ok /\ conn /\ door' = written /\ conn' = TRUE
      \/ ~ok /\ ~conn /\ door' = door /\ conn' = FALSE
      \/ ~ok /\ conn /\ door' = door /\ conn' = TRUE
      \/ ~ok /\ conn /\ door' \in {door, written} /\ conn' = FALSE
  BY <1>3 DEF Write, written
<1>5. door' = door \/ door' = written
  BY <1>4
<1>6. /\ door' \in [Sides -> BOOLEAN]
      /\ \A s \in Sides \ {Side} : door'[s] = door[s]
  BY <1>1, <1>3, <1>5
<1>7. /\ conn' \in BOOLEAN /\ (conn' => conn)
      /\ ok => conn' /\ door' = written
      /\ ~ok /\ conn' => door' = door
  BY <1>4
<1>8. QED
  BY <1>1, <1>2, <1>6, <1>7

(* The other chamber's turn, or the end of the jobs.                       *)
LEMMA TurnFacts ==
  ASSUME StepTypes, NextTurn
  PROVE  turn' \in Chambers /\ pc' \in {"jobs", "drain"}
BY SetFacts DEF StepTypes, NextTurn

-----------------------------------------------------------------------------
(* Types.                                                                  *)

(* The first state is typed.                                               *)
LEMMA InitTyped == Init => Typed
<1> SUFFICES ASSUME Init PROVE Typed
  OBVIOUS
<1>1. PlantTypes /\ StepTypes
  BY SetFacts DEF Init, PlantTypes, StepTypes
<1>2. ReadTypes
  <2>1. 0 \in 0..(StateEveryTicks - 1)
    BY SetFacts
  <2>2. QED
    BY <2>1 DEF Init, ReadTypes
<1>3. GhostTypes
  <2>1. StaggerTicks \in 0..StaggerTicks /\ 0 \in 0..StateEveryTicks
    BY SetFacts
  <2>2. QED
    BY <2>1 DEF Init, GhostTypes
<1>4. JobTypes
  BY IdleFacts DEF Init, JobTypes
<1>5. QED
  BY <1>1, <1>2, <1>3, <1>4 DEF Typed

(* The phase goes round.                                                   *)
LEMMA PhaseFacts ==
  ASSUME NEW p \in 0..(StateEveryTicks - 1)
  PROVE  (p + 1) % StateEveryTicks \in 0..(StateEveryTicks - 1)
BY SetFacts

(* An age that stops at a bound.                                           *)
LEMMA AgedFacts ==
  ASSUME NEW cap \in Nat
  PROVE  /\ \A n \in Nat : Aged(n, cap) \in Nat /\ Aged(n, cap) >= n /\ Aged(n, cap) <= n + 1
         /\ \A n \in 0..cap : Aged(n, cap) \in 0..cap
         /\ \A n \in Nat : n < cap => Aged(n, cap) = n + 1
BY DEF Aged

(* A step of a write, of a wait or of a press keeps the jobs typed.        *)
LEMMA JobSteps ==
  ASSUME JobTypes, StepTypes
  PROVE  /\ [job EXCEPT ![turn] = Idle] \in [Chambers -> JobRecord]
         /\ [c \in Chambers |-> Idle] \in [Chambers -> JobRecord]
         /\ job[turn].step \in 0..2 =>
              [job EXCEPT ![turn].step = @ + 1, ![turn].age = 0] \in [Chambers -> JobRecord]
         /\ [job EXCEPT ![turn].step = 2, ![turn].age = 0] \in [Chambers -> JobRecord]
         /\ \A c \in Chambers, open \in BOOLEAN :
              [job EXCEPT ![c] = [active |-> TRUE, open |-> open, step |-> 0, age |-> 0]]
                \in [Chambers -> JobRecord]
<1> turn \in Chambers /\ job \in [Chambers -> JobRecord]
  BY DEF JobTypes, StepTypes
<1>1. [job EXCEPT ![turn] = Idle] \in [Chambers -> JobRecord]
      /\ [c \in Chambers |-> Idle] \in [Chambers -> JobRecord]
  BY IdleFacts
<1>2. ASSUME NEW n \in 0..3
      PROVE  [job EXCEPT ![turn].step = n, ![turn].age = 0] \in [Chambers -> JobRecord]
  <2> DEFINE stepped == [job EXCEPT ![turn].step = n]
  <2>1. [job[turn] EXCEPT !.step = n] \in JobRecord
    BY DEF JobRecord
  <2>2. stepped \in [Chambers -> JobRecord]
    BY <2>1
  <2>3. [stepped[turn] EXCEPT !.age = 0] \in JobRecord
    BY <2>2 DEF JobRecord
  <2>4. [stepped EXCEPT ![turn].age = 0] \in [Chambers -> JobRecord]
    BY <2>2, <2>3
  <2>5. QED
    BY <2>4
<1>3. /\ job[turn].step \in 0..2 =>
           [job EXCEPT ![turn].step = @ + 1, ![turn].age = 0] \in [Chambers -> JobRecord]
      /\ [job EXCEPT ![turn].step = 2, ![turn].age = 0] \in [Chambers -> JobRecord]
  <2>1. job[turn].step \in 0..2 => job[turn].step + 1 \in 0..3
    OBVIOUS
  <2>2. 2 \in 0..3
    OBVIOUS
  <2>3. QED
    BY <1>2, <2>1, <2>2
<1>4. \A c \in Chambers, open \in BOOLEAN :
        [job EXCEPT ![c] = [active |-> TRUE, open |-> open, step |-> 0, age |-> 0]]
          \in [Chambers -> JobRecord]
  BY DEF JobRecord
<1>5. QED
  BY <1>1, <1>2, <1>3, <1>4

(* A failed write ends the job.                                            *)
LEMMA FailedFacts ==
  ASSUME JobTypes, StepTypes, Failed
  PROVE  JobTypes' /\ hurried' = TRUE /\ turn' \in Chambers /\ pc' \in {"jobs", "drain"}
BY TurnFacts, JobSteps DEF Failed, JobTypes

(* Every step keeps the types.                                             *)
LEMMA StepTyped ==
  ASSUME Typed, AtWrite, [Next]_vars
  PROVE  Typed'
<1> USE DEF Typed
<1>1. CASE TickAway
  <2>1. JobTypes'
    BY <1>1, JobSteps DEF TickAway, JobTypes
  <2>2. PlantTypes' /\ ReadTypes'
    BY <1>1 DEF TickAway, PlantTypes, ReadTypes, plant, world
  <2>3. StepTypes' /\ GhostTypes'
    BY <1>1 DEF TickAway, StepTypes, GhostTypes, Busy
  <2>4. QED
    BY <2>1, <2>2, <2>3
<1>2. CASE TickPoll
  <2>1. JobTypes' /\ StepTypes' /\ GhostTypes'
    BY <1>2, SetFacts DEF TickPoll, JobTypes, StepTypes, GhostTypes, ghosts
  <2>2. PlantTypes'
    BY <1>2, SpendFacts, SetFacts DEF TickPoll, StateSweep, PlantTypes, plant
  <2>3. ReadTypes'
    <3>1. fit["vented"] \in BOOLEAN /\ [g \in {"comm", "air"} |-> fit[g]] \in [{"comm", "air"} -> BOOLEAN]
      BY DEF ReadTypes, Gauges
    <3>2. UNCHANGED <<cycle, fit, phase>>
      BY <1>2 DEF TickPoll, world
    <3>3. /\ actionWord' \in BOOLEAN /\ swept' \in BOOLEAN /\ lacoSeen' \in BOOLEAN
          /\ fresh' \in BOOLEAN /\ laco' \in [{"comm", "air"} -> BOOLEAN] /\ vented' \in BOOLEAN
      BY <1>2, <3>1 DEF TickPoll, StateSweep, lacoPoll, SweepNothing, ReadTypes
    <3>4. QED
      BY <3>2, <3>3 DEF ReadTypes
  <2>4. QED
    BY <2>1, <2>2, <2>3
<1>3. CASE Skip
  BY <1>3, TurnFacts DEF Skip, PlantTypes, ReadTypes, JobTypes, StepTypes, GhostTypes,
                         plant, world, reads, ghosts
<1>4. CASE Waited
  <2>1. JobTypes'
    BY <1>4, JobSteps DEF Waited, JobTypes, j
  <2>2. PlantTypes' /\ ReadTypes' /\ StepTypes' /\ GhostTypes'
    BY <1>4, TurnFacts DEF Waited, PlantTypes, ReadTypes, StepTypes, GhostTypes,
                           plant, world, reads, ghosts
  <2>3. QED
    BY <2>1, <2>2
<1>5. CASE Cancel
  <2>1. JobTypes'
    BY <1>5, JobSteps DEF Cancel, JobTypes
  <2>2. PlantTypes' /\ ReadTypes' /\ StepTypes' /\ GhostTypes'
    BY <1>5, TurnFacts DEF Cancel, PlantTypes, ReadTypes, StepTypes, GhostTypes,
                           plant, world, reads, ghosts
  <2>3. QED
    BY <2>1, <2>2
<1>6. CASE WriteClamps
  <2>1. PICK ok \in BOOLEAN :
          /\ Write(clamps, j.open, ok)
          /\ IF ok THEN pc' = "door" /\ undo' = clamps[Side] /\ UNCHANGED <<turn, job, hurried>>
                   ELSE Failed /\ UNCHANGED undo
          /\ odd' = IF clamps' # clamps /\ ~ok THEN odd \cup {Side} ELSE odd
    BY <1>6 DEF WriteClamps
  <2>2. j.open \in BOOLEAN /\ Side \in Sides
    BY JobFacts, SideFacts DEF j, StepTypes
  <2>3. PlantTypes'
    BY <1>6, <2>1, <2>2, ClampsFacts DEF WriteClamps, PlantTypes
  <2>4. JobTypes' /\ StepTypes'
    BY <1>6, <2>1, <2>2, FailedFacts DEF WriteClamps, PlantTypes, JobTypes, StepTypes
  <2>5. ReadTypes' /\ GhostTypes'
    BY <1>6, <2>1, <2>2 DEF WriteClamps, Failed, ReadTypes, GhostTypes, reads, world
  <2>6. QED
    BY <2>3, <2>4, <2>5
<1>7. CASE WriteDoor
  <2>1. PICK ok \in BOOLEAN :
          /\ Write(door, j.open, ok)
          /\ IF ok THEN /\ job' = [job EXCEPT ![turn].step = @ + 1, ![turn].age = 0]
                        /\ wrote' = TRUE /\ undo' = FALSE /\ NextTurn /\ UNCHANGED hurried
                   ELSE pc' = "putBack" /\ UNCHANGED <<job, wrote, undo, turn, hurried>>
          /\ odd' = IF ok THEN odd \ {Side} ELSE odd
    BY <1>7 DEF WriteDoor
  <2>2. j.open \in BOOLEAN /\ Side \in Sides /\ j.step \in 0..2
    BY <1>7, JobFacts, SideFacts DEF j, StepTypes, AtWrite, WriteDoor
  <2>3. PlantTypes'
    BY <1>7, <2>1, <2>2, DoorFacts DEF WriteDoor, PlantTypes
  <2>4. JobTypes' /\ StepTypes'
    BY <1>7, <2>1, <2>2, JobSteps, TurnFacts DEF WriteDoor, JobTypes, StepTypes, j
  <2>5. ReadTypes'
    BY <1>7 DEF WriteDoor, ReadTypes, reads, world
  <2>6. GhostTypes'
    BY <1>7, <2>1, <2>2, SetFacts DEF WriteDoor, GhostTypes
  <2>7. QED
    BY <2>3, <2>4, <2>5, <2>6
<1>8. CASE PutBack
  <2>1. PICK ok \in BOOLEAN :
          /\ Write(clamps, ~j.open, ok)
          /\ odd' = IF ~ok \/ undo = j.open THEN odd \cup {Side} ELSE odd
    BY <1>8 DEF PutBack
  <2>2. (~j.open) \in BOOLEAN /\ Side \in Sides
    BY SideFacts
  <2>3. PlantTypes'
    BY <1>8, <2>1, <2>2, ClampsFacts DEF PutBack, PlantTypes
  <2>4. JobTypes' /\ StepTypes'
    BY <1>8, FailedFacts DEF PutBack, StepTypes
  <2>5. ReadTypes' /\ GhostTypes'
    BY <1>8, <2>1, <2>2 DEF PutBack, Failed, ReadTypes, GhostTypes, reads, world
  <2>6. QED
    BY <2>3, <2>4, <2>5
<1>9. CASE TickEnd
  <2>1. \A c \in Chambers : job'[c] \in JobRecord
    <3> SUFFICES ASSUME NEW c \in Chambers PROVE job'[c] \in JobRecord
      OBVIOUS
    <3>1. job[c] \in JobRecord /\ Aged(job[c].age, Wait(job[c].step)) \in Nat
      BY JobFacts, AgedFacts, SetFacts DEF Wait
    <3>2. [job[c] EXCEPT !.age = Aged(@, Wait(job[c].step))] \in JobRecord
      BY <3>1 DEF JobRecord
    <3>3. QED
      BY <1>9, <3>1, <3>2 DEF TickEnd
  <2>2. JobTypes'
    BY <1>9, <2>1 DEF TickEnd, JobTypes
  <2>3. PlantTypes' /\ StepTypes'
    BY <1>9 DEF TickEnd, PlantTypes, StepTypes, plant
  <2>4. ReadTypes'
    BY <1>9, PhaseFacts DEF TickEnd, ReadTypes, world
  <2>5. \A s \in Sides : Aged(since[s], StaggerTicks) \in 0..StaggerTicks
    BY AgedFacts, SetFacts DEF GhostTypes
  <2>6. cycleAge' \in 0..StateEveryTicks /\ hurried' \in BOOLEAN
    BY <1>9, AgedFacts, SetFacts DEF TickEnd, GhostTypes
  <2>7. GhostTypes'
    BY <1>9, <2>5, <2>6 DEF TickEnd, GhostTypes
  <2>8. QED
    BY <2>2, <2>3, <2>4, <2>7
<1>10. ASSUME NEW c \in Chambers, NEW open \in BOOLEAN, Start(c, open) \/ Reverse(c, open)
       PROVE  Typed'
  <2>1. JobTypes'
    <3>1. job' = [job EXCEPT ![c] = [active |-> TRUE, open |-> open, step |-> 0, age |-> 0]]
      BY <1>10 DEF Start, Reverse, Accept
    <3>2. job' \in [Chambers -> JobRecord]
      BY <3>1, JobSteps
    <3>3. QED
      BY <3>2 DEF JobTypes
  <2>2. PlantTypes'
    BY <1>10, SpendFacts, SetFacts DEF Start, Reverse, PlantTypes, plant
  <2>3. ReadTypes' /\ StepTypes'
    BY <1>10 DEF Start, Reverse, ReadTypes, StepTypes, reads, world, steps
  <2>4. (~open \/ Gates(TRUE)) \in BOOLEAN
    OBVIOUS
  <2>5. opened' \in [Chambers -> BOOLEAN]
    BY <1>10, <2>4 DEF Start, Reverse, Accept, GhostTypes
  <2>6. GhostTypes'
    BY <1>10, <2>5 DEF Start, Reverse, GhostTypes
  <2>7. QED
    BY <2>1, <2>2, <2>3, <2>6
<1>11. CASE CycleFlip
  BY <1>11, SpendFacts, SetFacts DEF CycleFlip, PlantTypes, ReadTypes, JobTypes, StepTypes,
                                     GhostTypes, plant, reads, steps
<1>12. ASSUME NEW g \in Gauges, Weather(g) PROVE Typed'
  BY <1>12, SpendFacts, SetFacts DEF Weather, PlantTypes, ReadTypes, JobTypes, StepTypes,
                                     GhostTypes, plant, reads, steps, ghosts
<1>13. CASE UNCHANGED vars
  BY <1>13 DEF vars, PlantTypes, ReadTypes, JobTypes, StepTypes, GhostTypes,
               plant, world, reads, steps, ghosts
<1>14. QED
  BY <1>1, <1>2, <1>3, <1>4, <1>5, <1>6, <1>7, <1>8, <1>9, <1>10, <1>11, <1>12, <1>13
     DEF Next, Tick, Environment

-----------------------------------------------------------------------------
(* The jobs.                                                               *)

(* A job that gets no verdict, no step and no press is as it was; one that *)
(* ends is idle; one that steps keeps what it is about.                    *)
LEMMA OtherJobs ==
  ASSUME JobTypes, NEW t \in Chambers, NEW r, job' = [job EXCEPT ![t] = r]
  PROVE  job'[t] = r /\ \A c \in Chambers \ {t} : job'[c] = job[c]
BY DEF JobTypes

(* A job that goes on: its fields.                                         *)
LEMMA SteppedJob ==
  ASSUME JobTypes, StepTypes, NEW n,
         job' = [job EXCEPT ![turn].step = n, ![turn].age = 0]
  PROVE  /\ job'[turn].active = job[turn].active /\ job'[turn].open = job[turn].open
         /\ job'[turn].step = n /\ job'[turn].age = 0
         /\ \A c \in Chambers \ {turn} : job'[c] = job[c]
<1>1. job[turn] \in JobRecord
  BY DEF JobTypes, StepTypes
<1>2. QED
  BY <1>1 DEF JobTypes, StepTypes, JobRecord

(* What each step may do to the jobs: none of them wakes one up but a      *)
(* start, and a start finds none awake.                                    *)
Fewer == \A c \in Chambers : job'[c].active => job[c].active
LEMMA FewerFacts ==
  ASSUME OneJob, Fewer
  PROVE  OneJob' /\ (Busy' => Busy)
BY DEF OneJob, Fewer, Busy

LEMMA StepFewer ==
  ASSUME Typed, AtWrite, [Next]_vars
  PROVE  \/ Fewer
         \/ \E c \in Chambers, open \in BOOLEAN : Start(c, open)
<1> USE DEF Typed
<1>1. CASE UNCHANGED job
  BY <1>1 DEF Fewer
<1>2. CASE job' = [c \in Chambers |-> Idle]
  BY <1>2, IdleFacts DEF Fewer
<1>3. ASSUME NEW t \in Chambers, job' = [job EXCEPT ![t] = Idle] PROVE Fewer
  BY <1>3, OtherJobs, IdleFacts DEF Fewer
<1>4. ASSUME NEW n, job' = [job EXCEPT ![turn].step = n, ![turn].age = 0] PROVE Fewer
  BY <1>4, SteppedJob DEF Fewer, StepTypes
<1>5. CASE TickEnd
  <2>1. ASSUME NEW c \in Chambers PROVE job'[c].active = job[c].active
    <3>1. job[c] \in JobRecord
      BY JobFacts
    <3>2. [job[c] EXCEPT !.age = Aged(@, Wait(job[c].step))].active = job[c].active
      BY <3>1 DEF JobRecord
    <3>3. QED
      BY <1>5, <3>2 DEF TickEnd
  <2>2. QED
    BY <2>1 DEF Fewer
<1>6. ASSUME NEW c \in Chambers, NEW open \in BOOLEAN, Reverse(c, open) PROVE Fewer
  <2>1. job[c].active /\ job' = [job EXCEPT ![c] = [active |-> TRUE, open |-> open, step |-> 0, age |-> 0]]
    BY <1>6 DEF Reverse, Accept
  <2>2. QED
    BY <2>1, OtherJobs DEF Fewer
<1>7. turn \in Chambers
  BY DEF StepTypes
<1>8. CASE TickAway \/ TickPoll \/ Skip
  BY <1>8, <1>1, <1>2 DEF TickAway, TickPoll, Skip
<1>9. CASE Waited \/ Cancel
  BY <1>9, <1>3, <1>4, <1>7 DEF Waited, Cancel
<1>10. CASE WriteClamps \/ WriteDoor \/ PutBack
  BY <1>10, <1>1, <1>3, <1>4, <1>7 DEF WriteClamps, WriteDoor, PutBack, Failed
<1>11. CASE CycleFlip \/ \E g \in Gauges : Weather(g)
  BY <1>11, <1>1 DEF CycleFlip, Weather
<1>12. CASE UNCHANGED vars
  BY <1>12, <1>1 DEF vars
<1>13. QED
  BY <1>5, <1>6, <1>8, <1>9, <1>10, <1>11, <1>12 DEF Next, Tick, Environment

(* The first state is in order.                                            *)
LEMMA InitOrderly == Init => Orderly
BY IdleFacts DEF Init, Orderly, AtWrite, OneJob, Polled, JobsOnFreshPoll, Busy

(* Only a tick without a session drops the poll, and it drops the jobs.    *)
LEMMA StepFresh ==
  ASSUME [Next]_vars
  PROVE  \/ (fresh => fresh') /\ (Polled => Polled')
         \/ job' = [c \in Chambers |-> Idle] /\ Polled'
<1>1. CASE TickAway
  BY <1>1 DEF TickAway, Polled
<1>2. CASE TickPoll
  <2>1. (lacoSeen' = lacoSeen /\ fresh' = fresh) \/ (lacoSeen' = TRUE /\ fresh' = TRUE)
    BY <1>2 DEF TickPoll, lacoPoll, SweepNothing
  <2>2. QED
    BY <2>1 DEF Polled
<1>3. CASE UNCHANGED <<lacoSeen, fresh>>
  BY <1>3 DEF Polled
<1>4. CASE Skip \/ Waited \/ Cancel \/ WriteClamps \/ WriteDoor \/ PutBack \/ TickEnd
  BY <1>3, <1>4 DEF Skip, Waited, Cancel, WriteClamps, WriteDoor, PutBack, TickEnd, reads
<1>5. CASE Environment
  BY <1>3, <1>5 DEF Environment, Start, Reverse, CycleFlip, Weather, reads
<1>6. CASE UNCHANGED vars
  BY <1>3, <1>6 DEF vars, reads
<1>7. QED
  BY <1>1, <1>2, <1>4, <1>5, <1>6 DEF Next, Tick

(* A write is under way only from the clamps to the door and back.         *)
LEMMA StepWrites ==
  ASSUME Typed, AtWrite, [Next]_vars
  PROVE  /\ AtWrite'
         /\ pc' \in {"door", "putBack"} =>
              job' = job /\ turn' = turn /\ pc \in {"jobs", "door", "putBack"}
<1> USE DEF AtWrite, j
<1>1. CASE TickAway \/ TickPoll \/ TickEnd \/ Environment \/ UNCHANGED vars
  BY <1>1 DEF TickAway, TickPoll, TickEnd, Environment, Start, Reverse, CycleFlip, Weather,
              vars, steps
<1>2. CASE Skip \/ Waited \/ Cancel
  BY <1>2 DEF Skip, Waited, Cancel, NextTurn
<1>3. CASE WriteClamps
  BY <1>3 DEF WriteClamps, WriteDue, Failed, NextTurn
<1>4. CASE WriteDoor
  BY <1>4 DEF WriteDoor, NextTurn
<1>5. CASE PutBack
  BY <1>5 DEF PutBack, Failed, NextTurn
<1>6. QED
  BY <1>1, <1>2, <1>3, <1>4, <1>5 DEF Next, Tick

(* Every step keeps the jobs in order.                                     *)
LEMMA StepOrderly ==
  ASSUME Typed, Typed', Orderly, [Next]_vars
  PROVE  Orderly'
<1>1. OneJob' /\ JobsOnFreshPoll' /\ Polled'
  <2>1. CASE job' = [c \in Chambers |-> Idle] /\ Polled'
    <3>1. ~Busy' /\ OneJob'
      BY <2>1, IdleFacts DEF Busy, OneJob
    <3>2. QED
      BY <2>1, <3>1 DEF JobsOnFreshPoll
  <2>2. CASE (fresh => fresh') /\ (Polled => Polled') /\ Fewer
    BY <2>2, FewerFacts DEF Orderly, JobsOnFreshPoll
  <2>3. ASSUME NEW c \in Chambers, NEW open \in BOOLEAN, Start(c, open)
        PROVE  OneJob' /\ JobsOnFreshPoll' /\ Polled'
    <3>1. job' = [job EXCEPT ![c] = [active |-> TRUE, open |-> open, step |-> 0, age |-> 0]]
      BY <2>3 DEF Start, Accept
    <3>2. \A d \in Chambers \ {c} : ~job'[d].active
      BY <2>3, <3>1, OtherJobs DEF Start, Busy, Typed
    <3>3. lacoSeen /\ UNCHANGED <<lacoSeen, fresh>>
      BY <2>3 DEF Start, Gates, reads
    <3>4. OneJob'
      BY <3>2 DEF OneJob
    <3>5. Polled' /\ JobsOnFreshPoll'
      BY <3>3 DEF Orderly, Polled, JobsOnFreshPoll
    <3>6. QED
      BY <3>4, <3>5
  <2>4. QED
    BY <2>1, <2>2, <2>3, StepFewer, StepFresh DEF Orderly
<1>2. QED
  BY <1>1, StepWrites DEF Orderly

-----------------------------------------------------------------------------
(* The sides.                                                              *)

(* The first state is paired.                                              *)
LEMMA InitPaired == Init => Paired
BY DEF Init, Paired

(* Away from a write the pairs are as they were.                           *)
LEMMA StillPaired ==
  ASSUME Paired, UNCHANGED <<clamps, door, odd>>, pc \notin {"door", "putBack"},
         pc' \notin {"door", "putBack"}
  PROVE  Paired'
BY DEF Paired

(* Every step keeps the sides paired.                                      *)
LEMMA StepPaired ==
  ASSUME Typed, Orderly, Paired, [Next]_vars
  PROVE  Paired'
<1>1. CASE TickAway \/ TickPoll \/ TickEnd
  BY <1>1, StillPaired DEF TickAway, TickPoll, TickEnd, plant, ghosts
<1>2. CASE Skip \/ Waited \/ Cancel
  BY <1>2, StillPaired DEF Skip, Waited, Cancel, WriteDue, NextTurn, plant, ghosts
<1>3. CASE Environment
  BY <1>3, StillPaired DEF Environment, Start, Reverse, CycleFlip, Weather, plant, ghosts, steps
<1>4. CASE UNCHANGED vars
  BY <1>4 DEF vars, Paired, plant, ghosts, steps, j, Side
<1>5. CASE WriteClamps
  <2>1. PICK ok \in BOOLEAN :
          /\ Write(clamps, j.open, ok)
          /\ IF ok THEN pc' = "door" /\ undo' = clamps[Side] /\ UNCHANGED <<turn, job, hurried>>
                   ELSE Failed /\ UNCHANGED undo
          /\ odd' = IF clamps' # clamps /\ ~ok THEN odd \cup {Side} ELSE odd
    BY <1>5 DEF WriteClamps
  <2>2. /\ \A s \in Sides \ {Side} : clamps'[s] = clamps[s]
        /\ ok => clamps'[Side] = j.open
    <3>1. j.open \in BOOLEAN
      BY JobFacts DEF Typed, StepTypes, j
    <3>2. QED
      BY <2>1, <3>1, ClampsFacts DEF Typed
  <2>3. door' = door /\ \A s \in Sides \ odd : clamps[s] = door[s]
    BY <1>5 DEF WriteClamps, WriteDue, Paired
  <2>4. CASE ok
    <3>1. pc' = "door" /\ undo' = clamps[Side] /\ Side' = Side /\ j' = j /\ odd' = odd
      BY <2>1, <2>4 DEF Side, j
    <3>2. QED
      BY <2>2, <2>3, <2>4, <3>1, SideFacts DEF Paired, Typed
  <2>5. CASE ~ok
    <3>1. pc' \notin {"door", "putBack"}
      BY <2>1, <2>5 DEF Failed, NextTurn
    <3>2. odd' = IF clamps' # clamps THEN odd \cup {Side} ELSE odd
      BY <2>1, <2>5
    <3>3. \A s \in Sides \ odd' : clamps'[s] = door'[s]
      BY <2>2, <2>3, <3>2
    <3>4. QED
      BY <3>1, <3>3 DEF Paired
  <2>6. QED
    BY <2>4, <2>5
<1>6. CASE WriteDoor
  <2>1. PICK ok \in BOOLEAN :
          /\ Write(door, j.open, ok)
          /\ IF ok THEN NextTurn
                   ELSE pc' = "putBack" /\ UNCHANGED <<job, undo, turn>>
          /\ odd' = IF ok THEN odd \ {Side} ELSE odd
    BY <1>6 DEF WriteDoor
  <2>2. /\ \A s \in Sides \ {Side} : door'[s] = door[s]
        /\ ok => door'[Side] = j.open
        /\ ~ok /\ conn' => door' = door
    <3>1. j.open \in BOOLEAN
      BY JobFacts DEF Typed, StepTypes, j
    <3>2. QED
      BY <2>1, <3>1, DoorFacts DEF Typed
  <2>3. /\ clamps' = clamps /\ clamps[Side] = j.open
        /\ \A s \in Sides \ odd : s = Side \/ clamps[s] = door[s]
        /\ Side \notin odd => undo = door[Side]
    BY <1>6 DEF WriteDoor, Paired
  <2>4. CASE ok
    <3>1. pc' \notin {"door", "putBack"} /\ odd' = odd \ {Side}
      BY <2>1, <2>4 DEF NextTurn
    <3>2. \A s \in Sides \ odd' : clamps'[s] = door'[s]
      BY <2>2, <2>3, <2>4, <3>1
    <3>3. QED
      BY <3>1, <3>2 DEF Paired
  <2>5. CASE ~ok
    <3>1. pc' = "putBack" /\ undo' = undo /\ Side' = Side /\ odd' = odd
      BY <2>1, <2>5 DEF Side, j
    <3>2. \A s \in Sides \ odd' : s = Side' \/ clamps'[s] = door'[s]
      BY <2>2, <2>3, <3>1
    <3>3. Side' \notin odd' /\ conn' => undo' = door'[Side']
      BY <2>2, <2>3, <2>5, <3>1
    <3>4. QED
      BY <3>1, <3>2, <3>3 DEF Paired
  <2>6. QED
    BY <2>4, <2>5
<1>7. CASE PutBack
  <2>1. PICK ok \in BOOLEAN :
          /\ Write(clamps, ~j.open, ok)
          /\ odd' = IF ~ok \/ undo = j.open THEN odd \cup {Side} ELSE odd
    BY <1>7 DEF PutBack
  <2>2. /\ \A s \in Sides \ {Side} : clamps'[s] = clamps[s]
        /\ ok => conn /\ clamps'[Side] = ~j.open
    <3>1. (~j.open) \in BOOLEAN
      OBVIOUS
    <3>2. ok => conn
      BY <2>1 DEF Write
    <3>3. QED
      BY <2>1, <3>1, <3>2, ClampsFacts DEF Typed
  <2>3. /\ door' = door
        /\ \A s \in Sides \ odd : s = Side \/ clamps[s] = door[s]
        /\ Side \notin odd /\ conn => undo = door[Side]
    BY <1>7 DEF PutBack, Paired
  <2>4. j.open \in BOOLEAN /\ undo \in BOOLEAN
    BY JobFacts DEF Typed, StepTypes, j
  <2>5. Side \notin odd' => clamps'[Side] = door'[Side]
    <3> SUFFICES ASSUME Side \notin odd' PROVE clamps'[Side] = door'[Side]
      OBVIOUS
    <3>1. ok /\ undo # j.open /\ Side \notin odd
      BY <2>1
    <3>2. (~j.open) = undo
      BY <2>4, <3>1
    <3>3. QED
      BY <2>2, <2>3, <3>1, <3>2
  <2>6. odd \subseteq odd'
    BY <2>1
  <2>7. \A s \in Sides \ odd' : clamps'[s] = door'[s]
    BY <2>2, <2>3, <2>5, <2>6
  <2>8. pc' \notin {"door", "putBack"}
    BY <1>7 DEF PutBack, Failed, NextTurn
  <2>9. QED
    BY <2>7, <2>8 DEF Paired
<1>8. QED
  BY <1>1, <1>2, <1>3, <1>4, <1>5, <1>6, <1>7 DEF Next, Tick

-----------------------------------------------------------------------------
(* The stagger.                                                            *)

(* The first state is staggered.                                           *)
LEMMA InitStaggered == Init => Staggered
BY SetFacts DEF Init, Staggered

(* What is not commanded, pressed or waited for stays staggered.           *)
LEMMA StillStaggered ==
  ASSUME Staggered, UNCHANGED <<since, job, hurried>>, pc # "putBack"
  PROVE  Staggered'
BY DEF Staggered, Moving

(* Without a job that waits, every side has had its time.                  *)
LEMMA AtRest ==
  ASSUME Staggered, ~hurried, pc # "putBack",
         \A c \in Chambers : job[c].active => job[c].step \notin {1, 3}
  PROVE  \A s \in Sides : since[s] >= StaggerTicks
BY DEF Staggered, Moving

(* A wait that is over has lasted a stagger at least.                      *)
LEMMA StaggerOver ==
  ASSUME Typed, Staggered, OneJob, ~hurried, pc = "jobs", j.active,
         j.step \in {1, 3} => j.age >= Wait(j.step)
  PROVE  \A s \in Sides : since[s] >= StaggerTicks
<1> SUFFICES ASSUME NEW s \in Sides, Moving(s) PROVE since[s] >= StaggerTicks
  BY DEF Staggered
<1>1. PICK c \in Chambers : job[c].active /\ job[c].age <= since[s] /\ job[c].step \in {1, 3}
  BY DEF Moving
<1>2. c = turn
  BY <1>1 DEF OneJob, j, Typed, StepTypes
<1>3. j.age >= Wait(j.step) /\ j.age <= since[s] /\ j.age \in Nat /\ since[s] \in Nat
  BY <1>1, <1>2, JobFacts, SetFacts DEF j, Typed, GhostTypes
<1>4. Wait(j.step) >= StaggerTicks /\ Wait(j.step) \in Nat
  BY SetFacts DEF Wait
<1>5. QED
  BY <1>3, <1>4, SetFacts

(* Every step keeps the stagger.                                           *)
LEMMA StepStaggered ==
  ASSUME Typed, Typed', Orderly, Staggered, [Next]_vars
  PROVE  Staggered'
<1> USE DEF Typed
<1>1. CASE TickAway
  <2> SUFFICES ASSUME ~hurried' PROVE Staggered'
    BY DEF Staggered
  <2>1. ~hurried /\ ~Busy /\ since' = since
    BY <1>1 DEF TickAway
  <2>2. \A s \in Sides : since[s] >= StaggerTicks
    BY <1>1, <2>1, AtRest DEF TickAway, Busy
  <2>3. QED
    BY <2>1, <2>2 DEF Staggered
<1>2. CASE TickPoll \/ Skip
  BY <1>2, StillStaggered DEF TickPoll, Skip, ghosts
<1>3. CASE Waited \/ Cancel
  <2> SUFFICES ASSUME ~hurried' PROVE Staggered'
    BY DEF Staggered
  <2>1. since' = since /\ hurried' = hurried /\ pc = "jobs" /\ j.active
        /\ (j.step \in {1, 3} => j.age >= Wait(j.step))
    BY <1>3 DEF Waited, Cancel, WriteDue, ghosts
  <2>2. \A s \in Sides : since[s] >= StaggerTicks
    BY <2>1, StaggerOver DEF Orderly
  <2>3. QED
    BY <2>1, <2>2 DEF Staggered
<1>4. CASE WriteClamps
  <2>1. pc = "jobs" /\ since' = since
    BY <1>4 DEF WriteClamps, WriteDue
  <2>2. UNCHANGED <<job, hurried>> \/ hurried' = TRUE
    BY <1>4 DEF WriteClamps, Failed
  <2>3. QED
    BY <2>1, <2>2, StillStaggered DEF Staggered
<1>5. CASE WriteDoor
  <2> SUFFICES ASSUME ~hurried' PROVE Staggered'
    BY DEF Staggered
  <2>1. hurried' = hurried /\ pc = "door" /\ since' = [since EXCEPT ![Side] = 0]
    BY <1>5 DEF WriteDoor, Failed
  <2>2. j.active /\ j.step \in {0, 2}
    BY <2>1 DEF Orderly, AtWrite
  <2>3. \A c \in Chambers : job[c].active => job[c].step \notin {1, 3}
    BY <2>2 DEF Orderly, OneJob, j, StepTypes
  <2>4. \A s \in Sides : since[s] >= StaggerTicks
    BY <2>1, <2>3, AtRest
  <2>5. \A s \in Sides \ {Side} : since'[s] >= StaggerTicks
    BY <2>1, <2>4, SideFacts DEF GhostTypes
  <2>6. since'[Side] = 0
    BY <2>1, SideFacts DEF GhostTypes
  <2>7. CASE job' = [job EXCEPT ![turn].step = @ + 1, ![turn].age = 0]
    <3>1. /\ job'[turn].active /\ job'[turn].age = 0
          /\ job'[turn].step = job[turn].step + 1
      BY <2>2, <2>7, SteppedJob DEF j
    <3>2. \/ job'[turn].step = 1 /\ Side = SideA(turn)
          \/ job'[turn].step = 3 /\ Side = SideB(turn)
      BY <2>2, <3>1 DEF Side, j
    <3>3. ASSUME NEW s \in Sides, s = Side PROVE Moving(s)'
      <4>1. turn \in Chambers
        BY DEF StepTypes
      <4>2. /\ job'[turn].active /\ job'[turn].age <= since'[s]
            /\ \/ job'[turn].step = 1 /\ s = SideA(turn)
               \/ job'[turn].step = 3 /\ s = SideB(turn)
        BY <2>6, <3>1, <3>2, <3>3
      <4>3. QED
        BY <4>1, <4>2 DEF Moving
    <3>4. \A s \in Sides : since'[s] >= StaggerTicks \/ Moving(s)'
      BY <2>5, <3>3
    <3>5. QED
      BY <3>4 DEF Staggered
  <2>8. CASE pc' = "putBack" /\ UNCHANGED <<job, turn>>
    <3>1. Side' = Side
      BY <2>8 DEF Side, j
    <3>2. QED
      BY <2>5, <2>8, <3>1 DEF Staggered
  <2>9. QED
    BY <1>5, <2>7, <2>8 DEF WriteDoor
<1>6. CASE PutBack
  BY <1>6 DEF PutBack, Failed, Staggered
<1>7. CASE TickEnd
  <2> SUFFICES ASSUME ~hurried', NEW s \in Sides
               PROVE  since'[s] >= StaggerTicks \/ Moving(s)'
    BY DEF Staggered
  <2>1. since'[s] = Aged(since[s], StaggerTicks) /\ since[s] \in 0..StaggerTicks
    BY <1>7 DEF TickEnd, GhostTypes
  <2>2. CASE hurried
    <3>1. ~(Aged(since[s], StaggerTicks) < StaggerTicks)
      BY <1>7, <2>2 DEF TickEnd
    <3>2. since'[s] \in 0..StaggerTicks
      BY DEF GhostTypes
    <3>3. QED
      BY <2>1, <3>1, <3>2, SetFacts
  <2>3. CASE ~hurried /\ since[s] >= StaggerTicks
    BY <2>1, <2>3, SetFacts DEF Aged
  <2>4. CASE ~hurried /\ Moving(s) /\ since[s] < StaggerTicks
    <3>1. PICK c \in Chambers :
            /\ job[c].active /\ job[c].age <= since[s]
            /\ \/ job[c].step = 1 /\ s = SideA(c)
               \/ job[c].step = 3 /\ s = SideB(c)
      BY <2>4 DEF Moving
    <3>2. job[c] \in JobRecord /\ job[c].age \in Nat
      BY JobFacts
    <3>3. job'[c] = [job[c] EXCEPT !.age = Aged(@, Wait(job[c].step))]
      BY <1>7, <3>1 DEF TickEnd
    <3>4. /\ job'[c].active = job[c].active /\ job'[c].step = job[c].step
          /\ job'[c].age = Aged(job[c].age, Wait(job[c].step))
      BY <3>2, <3>3 DEF JobRecord
    <3>5. job'[c].age \in Nat /\ job'[c].age <= job[c].age + 1
      <4>1. Wait(job[c].step) \in Nat
        BY SetFacts DEF Wait
      <4>2. QED
        BY <3>2, <3>4, <4>1, AgedFacts
    <3>6. since'[s] = since[s] + 1
      BY <2>1, <2>4, SetFacts DEF Aged
    <3>7. job'[c].age <= since'[s]
      BY <2>1, <3>1, <3>2, <3>5, <3>6
    <3>8. QED
      BY <3>1, <3>4, <3>7 DEF Moving
  <2>5. since[s] >= StaggerTicks \/ since[s] < StaggerTicks
    BY <2>1, SetFacts
  <2>6. pc # "putBack"
    BY <1>7 DEF TickEnd
  <2>7. QED
    BY <2>2, <2>3, <2>4, <2>5, <2>6 DEF Staggered
<1>8. ASSUME NEW c \in Chambers, NEW open \in BOOLEAN, Start(c, open) PROVE Staggered'
  <2> SUFFICES ASSUME ~hurried' PROVE Staggered'
    BY DEF Staggered
  <2>1. ~hurried /\ ~Busy /\ pc = "drain" /\ since' = since
    BY <1>8 DEF Start
  <2>2. \A t \in Sides : since[t] >= StaggerTicks
    BY <2>1, AtRest DEF Busy
  <2>3. QED
    BY <2>1, <2>2 DEF Staggered
<1>9. ASSUME NEW c \in Chambers, NEW open \in BOOLEAN, Reverse(c, open) PROVE Staggered'
  BY <1>9 DEF Reverse, Staggered
<1>10. CASE CycleFlip \/ \E g \in Gauges : Weather(g)
  BY <1>10, StillStaggered DEF CycleFlip, Weather, ghosts
<1>11. CASE UNCHANGED vars
  BY <1>11 DEF vars, ghosts, steps, Staggered, Moving, Side, j
<1>12. QED
  BY <1>1, <1>2, <1>3, <1>4, <1>5, <1>6, <1>7, <1>8, <1>9, <1>10, <1>11 DEF Next, Tick, Environment

-----------------------------------------------------------------------------
(* The cycle.                                                              *)

(* The first state is at the beginning of a round.                         *)
LEMMA InitPaced == Init => Paced /\ Gated
BY IdleFacts DEF Init, Paced, Gated, Busy, InTick

(* A step inside a tick leaves the round and the cycle as they are.        *)
LEMMA StillPaced ==
  ASSUME Paced, UNCHANGED <<phase, cycleAge, cycle, actionWord, swept, fresh>>, InTick,
         InTick', Busy' => Busy, pc' # "drain" => pc # "drain"
  PROVE  Paced'
BY DEF Paced, Unaware, InTick

(* The three phases, one after the other.                                  *)
LEMMA RoundFacts ==
  ASSUME StateEveryTicks = 3, NEW p \in 0..2
  PROVE  (p + 1) % StateEveryTicks = IF p = 2 THEN 0 ELSE p + 1
OBVIOUS

(* Every step keeps the pace.                                              *)
LEMMA StepPaced ==
  ASSUME Typed, Typed', Orderly, Orderly', Paced, Gated, [Next]_vars, StateEveryTicks = 3
  PROVE  Paced' /\ Gated'
<1>1. phase \in 0..2
  BY DEF Typed, ReadTypes
<1>2. Gated'
  <2>1. CASE WriteClamps
    BY <2>1 DEF WriteClamps, WriteDue, Gated, Failed, NextTurn, reads, j
  <2>2. CASE Tick /\ ~WriteClamps
    BY <2>2 DEF Tick, TickAway, TickPoll, Skip, Waited, Cancel, WriteDoor, PutBack, TickEnd,
                Failed, NextTurn, Gated
  <2>3. CASE Environment
    BY <2>3 DEF Environment, Start, Reverse, CycleFlip, Weather, steps, Gated
  <2>4. CASE UNCHANGED vars
    BY <2>4 DEF vars, steps, reads, Gated, j
  <2>5. QED
    BY <2>1, <2>2, <2>3, <2>4 DEF Next
<1>3. CASE TickAway
  <2>1. ~Busy' /\ ~fresh' /\ pc' = "end"
    BY <1>3, IdleFacts DEF TickAway, Busy
  <2>2. QED
    BY <1>2, <2>1 DEF Paced
<1>4. CASE TickPoll
  <2>1. UNCHANGED <<phase, cycle, cycleAge, job>> /\ pc = "top" /\ conn
    BY <1>4 DEF TickPoll, world, ghosts
  <2>2. CASE pc' = "end"
    <3>1. ~conn' /\ ~InTick' /\ pc' # "top"
      BY <1>4, <2>2 DEF TickPoll, InTick
    <3>2. QED
      BY <1>2, <2>2, <3>1 DEF Paced
  <2>3. CASE pc' = "jobs" /\ phase = 0
    <3>1. ~Unaware'
      BY <1>4, <2>3 DEF TickPoll, StateSweep, SweepNothing, Unaware, world
    <3>2. QED
      BY <1>2, <2>3, <3>1 DEF Paced
  <2>4. CASE pc' = "jobs" /\ phase = 1
    <3>1. UNCHANGED <<actionWord, swept, fresh>>
      <4>1. (StateSweep /\ lacoPoll) \/ SweepNothing
        BY <1>4, <2>4 DEF TickPoll
      <4>2. QED
        BY <2>4, <4>1 DEF StateSweep, lacoPoll, SweepNothing
    <3>2. Unaware' = Unaware
      BY <2>1, <3>1 DEF Unaware
    <3>3. fresh' /\ Unaware' => cycleAge' = 0
      BY <2>1, <2>4, <3>1, <3>2 DEF Paced
    <3>4. QED
      BY <1>2, <2>1, <2>4, <3>3 DEF Paced
  <2>5. CASE pc' = "jobs" /\ phase = 2
    <3>1. UNCHANGED <<actionWord, swept>>
      <4>1. (StateSweep /\ lacoPoll) \/ SweepNothing
        BY <1>4, <2>5 DEF TickPoll
      <4>2. QED
        BY <2>5, <4>1 DEF StateSweep, SweepNothing
    <3>2. Unaware' = Unaware
      BY <2>1, <3>1 DEF Unaware
    <3>3. Busy' => fresh
      BY <2>1 DEF Orderly, JobsOnFreshPoll, Busy
    <3>4. Busy' /\ Unaware' => cycleAge' <= 1
      BY <2>1, <2>5, <3>2, <3>3 DEF Paced
    <3>5. QED
      BY <1>2, <2>1, <2>5, <3>4 DEF Paced
  <2>6. pc' \in {"end", "jobs"}
    BY <1>4 DEF TickPoll
  <2>7. QED
    BY <1>1, <1>2, <2>2, <2>3, <2>4, <2>5, <2>6
<1>5. CASE Skip \/ Waited \/ Cancel \/ WriteClamps \/ WriteDoor \/ PutBack
  <2>1. UNCHANGED <<phase, cycleAge, cycle, actionWord, swept, fresh>>
    BY <1>5 DEF Skip, Waited, Cancel, WriteClamps, WriteDoor, PutBack, reads, world, ghosts
  <2>2. InTick /\ InTick' /\ pc # "drain"
    BY <1>5 DEF Skip, Waited, Cancel, WriteDue, WriteClamps, WriteDoor, PutBack, Failed, NextTurn,
                InTick
  <2>3. Busy' => Busy
    BY <1>5, <2>2, StepFewer, FewerFacts DEF Start, Orderly
  <2>4. QED
    BY <1>2, <2>1, <2>2, <2>3, StillPaced
<1>6. CASE TickEnd
  <2>1. /\ pc \in {"drain", "end"} /\ pc' = "top"
        /\ UNCHANGED <<conn, cycle, actionWord, swept, fresh>>
        /\ phase' = IF phase = 2 THEN 0 ELSE phase + 1
        /\ cycleAge' = IF cycle THEN Aged(cycleAge, StateEveryTicks) ELSE 0
    BY <1>1, <1>6, RoundFacts DEF TickEnd, world
  <2>2. CASE fresh /\ Unaware /\ conn
    <3>1. pc = "drain" /\ phase # 0 /\ (phase = 1 => cycleAge = 0)
      BY <2>1, <2>2 DEF Paced, InTick
    <3>2. phase = 1 => cycleAge' = 1
      BY <2>1, <2>2, <3>1 DEF Unaware, Aged
    <3>3. QED
      BY <1>1, <1>2, <2>1, <3>1, <3>2 DEF Paced, InTick
  <2>3. CASE ~(fresh /\ Unaware /\ conn)
    BY <1>2, <2>1, <2>3 DEF Paced, InTick, Unaware
  <2>4. QED
    BY <2>2, <2>3
<1>7. CASE CycleFlip
  <2>1. pc' = "top" /\ cycleAge' = 0
    BY <1>7 DEF CycleFlip, steps
  <2>2. QED
    BY <1>2, <2>1 DEF Paced, InTick
<1>8. CASE \E g \in Gauges : Weather(g)
  <2>1. UNCHANGED <<phase, cycleAge, cycle, actionWord, swept, fresh, conn, pc, job>>
    BY <1>8 DEF Weather, reads, ghosts, steps
  <2>2. QED
    BY <1>2, <2>1 DEF Paced, InTick, Unaware, Busy
<1>9. ASSUME NEW c \in Chambers, NEW open \in BOOLEAN, Start(c, open) \/ Reverse(c, open)
      PROVE  Paced' /\ Gated'
  <2>1. /\ UNCHANGED <<phase, cycleAge, cycle, actionWord, swept, fresh, conn>>
        /\ pc = "drain" /\ pc' = "drain"
    BY <1>9 DEF Start, Reverse, reads, world, steps
  <2>2. QED
    BY <1>2, <2>1 DEF Paced, InTick, Unaware
<1>10. CASE UNCHANGED vars
  BY <1>2, <1>10 DEF vars, reads, ghosts, steps, world, Paced, InTick, Unaware, Busy
<1>11. QED
  BY <1>3, <1>4, <1>5, <1>6, <1>7, <1>8, <1>9, <1>10 DEF Next, Tick, Environment

-----------------------------------------------------------------------------
(* The theorems.                                                           *)

(* The inductive invariant holds in the first state and after every step.  *)
LEMMA InitIInv == Init => IInv /\ PacedInv
BY InitTyped, InitOrderly, InitPaired, InitStaggered, InitPaced DEF IInv, PacedInv

LEMMA StepIInv == IInv /\ PacedInv /\ [Next]_vars => IInv' /\ PacedInv'
<1> SUFFICES ASSUME IInv, PacedInv, [Next]_vars PROVE IInv' /\ PacedInv'
  OBVIOUS
<1>1. Typed'
  BY StepTyped DEF IInv, Orderly
<1>2. Orderly'
  BY <1>1, StepOrderly DEF IInv
<1>3. Paired' /\ Staggered'
  BY <1>1, StepPaired, StepStaggered DEF IInv
<1>4. PacedInv'
  BY <1>1, <1>2, StepPaced DEF IInv, PacedInv
<1>5. QED
  BY <1>1, <1>2, <1>3, <1>4 DEF IInv

(* It holds in every state of every run.                                   *)
THEOREM Inductive == Spec => [](IInv /\ PacedInv)
BY InitIInv, StepIInv, PTL DEF Spec

(* Every variable of the door jobs keeps its type.                         *)
THEOREM TypeCorrect == Spec => []TypeOK
<1>1. IInv => TypeOK
  BY DEF IInv, Typed, PlantTypes, ReadTypes, JobTypes, JobRecord, StepTypes, GhostTypes, TypeOK
<1>2. QED
  BY <1>1, Inductive, PTL

(* No job of lacoStep runs on a poll of before an outage.                  *)
THEOREM FreshJobs == Spec => []JobsOnFreshPoll
<1>1. IInv => JobsOnFreshPoll
  BY DEF IInv, Orderly
<1>2. QED
  BY <1>1, Inductive, PTL

(* The clamps and the door of a side agree outside lacoWriteSide, but for  *)
(* a session that died in it and a side that already stood there.          *)
THEOREM PairsKept == Spec => []SidesPaired
<1>1. IInv => SidesPaired
  BY DEF IInv, Paired, SidesPaired
<1>2. QED
  BY <1>1, Inductive, PTL

(* lacoWriteSide commands no side within a stagger of another one.         *)
THEOREM AirSpared == Spec => []StaggerKept
<1>1. IInv => StaggerKept
  <2> SUFFICES ASSUME IInv, pc = "door", ~hurried
               PROVE  \A s \in Sides \ {Side} : since[s] >= StaggerTicks
    BY DEF StaggerKept
  <2>1. \A c \in Chambers : job[c].active => job[c].step \notin {1, 3}
    BY DEF IInv, Orderly, AtWrite, OneJob, j, Typed, StepTypes
  <2>2. QED
    BY <2>1, AtRest DEF IInv
<1>2. QED
  BY <1>1, Inductive, PTL

(* With the sweep period of the source, no door is opened under a cycle    *)
(* that the state sweep had its turn to see.                               *)
THEOREM CycleSeen == Spec => [](StateEveryTicks = 3 => OpeningSeesCycle)
<1>1. IInv /\ PacedInv => (StateEveryTicks = 3 => OpeningSeesCycle)
  <2> SUFFICES ASSUME IInv, Paced, Gated, StateEveryTicks = 3,
                      pc = "door", j.open, cycle, swept
               PROVE  cycleAge < StateEveryTicks - 1
    BY DEF PacedInv, OpeningSeesCycle
  <2>1. Busy
    BY DEF IInv, Orderly, AtWrite, Busy, j, Typed, StepTypes
  <2>2. fresh /\ Unaware /\ InTick
    BY <2>1 DEF IInv, Orderly, JobsOnFreshPoll, Gated, Unaware, InTick
  <2>3. phase \in 0..2
    BY DEF IInv, Typed, ReadTypes
  <2>4. cycleAge <= 1 /\ cycleAge \in Nat
    BY <2>1, <2>2, <2>3, SetFacts DEF Paced, IInv, Typed, GhostTypes
  <2>5. QED
    BY <2>4
<1>2. QED
  BY <1>1, Inductive, PTL
=============================================================================
