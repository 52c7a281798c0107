--------------------------- MODULE ManualDrainProofs ---------------------------
(***************************************************************************)
(* The safety of the manual drain, proved for all timers and budgets:      *)
(* types, the pump that is never forgotten, the valve that is never closed *)
(* on it, and the bound on a pump that runs against a closed valve.        *)
(* PumpStops, which is liveness, is checked by TLC only.                   *)
(***************************************************************************)
EXTENDS ManualDrain, TLAPS

PlantTypes ==
  /\ drive \in [Outputs -> {"off", "plc", "gateway"}]
  /\ conn \in BOOLEAN /\ left \in [Events -> Nat] /\ excused \in BOOLEAN
ReadTypes ==
  /\ seen \in [Outputs -> {"?", "on", "off"}]
  /\ actionWord \in BOOLEAN /\ cycle \in BOOLEAN
JudgeTypes ==
  /\ own \in [Outputs -> BOOLEAN] /\ chk \in [Outputs -> {"none", "on", "off"}]
  /\ age \in [Outputs -> 0..(VerifyTicks + 1)] /\ pumpAge \in 0..PumpMaxTicks
StepTypes == pc \in Steps /\ cmd \in [out : Outputs, on : BOOLEAN] /\ dead \in Nat
Typed == PlantTypes /\ ReadTypes /\ JudgeTypes /\ StepTypes

(* A stop that is being verified has left the gateway's pump off.          *)
CheckedOff == chk["pump"] = "off" /\ ~excused => drive["pump"] # "gateway"

(* A pump read as off is the gateway's only if it was started after the    *)
(* sweep, and then it is owned, or its start was lost with the session.    *)
Reads ==
  seen["pump"] = "off" /\ drive["pump"] = "gateway" =>
    /\ pc \in {"deadS4", "deadS5", "drain", "apply"}
    /\ own["pump"] \/ (pc = "drain" /\ ~conn)

(* The second half of a valve command closes a valve on a stopped pump.    *)
Closing == pc = "close" => cmd.out \in Valves /\ ~cmd.on /\ drive["pump"] # "gateway"

Guarded == PumpGuarded /\ CheckedOff /\ Reads /\ Closing

(* A verdict that is still pending behind the verdicts is not due yet.     *)
After == {"deadS4", "deadS5", "drain", "apply", "close"}
Running ==
  pc \in After /\ conn => \A v \in Valves : chk[v] # "none" => age[v] <= VerifyTicks

(* The ticks a valve may starve the pump are those of its own verdict, and *)
(* one for each stop that was refused.                                     *)
Faults == Budget["faults"] - left["faults"]
Aging == ~excused => \A v \in Valves : chk[v] # "none" => dead <= age[v] + Faults

(* Behind its check, a closed valve without a verdict has cost a refusal.  *)
Passed == IF pc = "deadS5" THEN {"S4"}
          ELSE IF pc \in {"drain", "apply", "close"} THEN Valves ELSE {}
Strained ==
  ~excused /\ conn /\ drive["pump"] = "gateway" =>
    \A v \in Passed : seen[v] = "off" /\ chk[v] = "none" => dead <= VerifyTicks + Faults

Bounded ==
  /\ left["faults"] <= Budget["faults"]
  /\ Running /\ Aging /\ Strained /\ DeadHeadBounded

IInv == Typed /\ Guarded /\ Bounded

-----------------------------------------------------------------------------
(* Writes.                                                                 *)

(* The outputs and the events, as sets.                                    *)
LEMMA SetFacts ==
  /\ Outputs = {"S4", "S5", "pump"} /\ Valves = {"S4", "S5"}
  /\ Valves \subseteq Outputs /\ "pump" \in Outputs /\ "pump" \notin Valves
  /\ "faults" \in Events /\ "presses" \in Events /\ "sequencer" \in Events
  /\ "unread" \in Events /\ "reboots" \in Events
  /\ VerifyTicks \in Nat /\ PumpMaxTicks \in Nat /\ 0 < PumpMaxTicks
  /\ Budget \in [Events -> Nat]
BY TicksAssumption, BudgetAssumption DEF Outputs, Valves, Events

(* An event spent leaves a budget, and the faults fewer or as many.        *)
LEMMA SpendFacts ==
  ASSUME left \in [Events -> Nat], NEW e \in Events, Spend(e)
  PROVE  /\ left' \in [Events -> Nat]
         /\ left'["faults"] = IF e = "faults" THEN left["faults"] - 1 ELSE left["faults"]
         /\ left["faults"] \in Nat /\ left'["faults"] \in Nat
BY SetFacts DEF Spend

(* One write: what it may do to the output, the session and the budget.    *)
LEMMA WriteFacts ==
  ASSUME PlantTypes, NEW i \in Outputs, NEW on \in BOOLEAN, NEW ok \in BOOLEAN,
         WriteBool(i, on, ok)
  PROVE  /\ PlantTypes'
         /\ drive' = drive \/ Driven(i, on)
         /\ conn' => conn
         /\ excused => excused'
         /\ ok => conn' /\ Driven(i, on) /\ UNCHANGED <<left, excused>>
         /\ ~ok /\ conn' => drive' = drive /\ left'["faults"] = left["faults"] - 1
         /\ ~ok /\ i = "pump" /\ on /\ drive' # drive => excused' /\ ~conn'
         /\ left'["faults"] \in Nat /\ left'["faults"] <= left["faults"]
<1>1. left \in [Events -> Nat] /\ conn \in BOOLEAN /\ excused \in BOOLEAN
      /\ drive \in [Outputs -> {"off", "plc", "gateway"}]
      /\ left["faults"] \in Nat
  BY SetFacts DEF PlantTypes
<1>2. Driven(i, on) => drive' \in [Outputs -> {"off", "plc", "gateway"}]
  BY <1>1 DEF Driven
<1>3. CASE ok /\ conn /\ Driven(i, on) /\ UNCHANGED <<conn, left, excused>>
  BY <1>1, <1>2, <1>3 DEF PlantTypes
<1>4. CASE ~ok /\ ~conn /\ UNCHANGED <<drive, conn, left, excused>>
  BY <1>1, <1>4 DEF PlantTypes
<1>5. CASE ~ok /\ conn /\ Spend("faults") /\ conn' \in BOOLEAN /\ UNCHANGED <<drive, excused>>
  <2>1. left' \in [Events -> Nat] /\ left'["faults"] = left["faults"] - 1
        /\ left'["faults"] \in Nat
    BY <1>1, <1>5, SpendFacts, SetFacts
  <2>2. QED
    BY <1>1, <1>5, <2>1 DEF PlantTypes
<1>6. CASE ~ok /\ conn /\ Spend("faults") /\ conn' = FALSE /\ Driven(i, on)
           /\ excused' = (excused \/ (i = "pump" /\ on))
  <2>1. left' \in [Events -> Nat] /\ left'["faults"] = left["faults"] - 1
        /\ left'["faults"] \in Nat
    BY <1>1, <1>6, SpendFacts, SetFacts
  <2>2. excused' \in BOOLEAN /\ (excused => excused') /\ (i = "pump" /\ on => excused')
    BY <1>6
  <2>3. PlantTypes'
    BY <1>1, <1>2, <1>6, <2>1, <2>2 DEF PlantTypes
  <2>4. QED
    BY <1>1, <1>6, <2>1, <2>2, <2>3
<1>7. QED
  BY <1>3, <1>4, <1>5, <1>6 DEF WriteBool

(* A write to the pump, with what the gateway then notes of it.            *)
LEMMA PumpFacts ==
  ASSUME PlantTypes, JudgeTypes, NEW on \in BOOLEAN, NEW arm \in BOOLEAN,
         NEW ok \in BOOLEAN, manPumpWrite(on, arm, ok)
  PROVE  /\ JudgeTypes'
         /\ own'["pump"] = IF ok THEN on ELSE own["pump"]
         /\ chk'["pump"] = IF ok /\ arm THEN IF on THEN "on" ELSE "off" ELSE chk["pump"]
         /\ \A v \in Valves : /\ own'[v] = own[v] /\ chk'[v] = chk[v] /\ age'[v] = age[v]
                              /\ drive'[v] = drive[v]
         /\ drive' = drive \/ drive'["pump"] = IF on THEN "gateway" ELSE "off"
         /\ ok => drive'["pump"] = IF on THEN "gateway" ELSE "off"
<1>1. WriteBool("pump", on, ok) /\ PumpWritten(on, ok, arm)
  BY DEF manPumpWrite
<1>2. /\ own \in [Outputs -> BOOLEAN] /\ chk \in [Outputs -> {"none", "on", "off"}]
      /\ age \in [Outputs -> 0..(VerifyTicks + 1)] /\ pumpAge \in 0..PumpMaxTicks
      /\ drive \in [Outputs -> {"off", "plc", "gateway"}]
  BY DEF JudgeTypes, PlantTypes
<1>3. own' = (IF ok THEN [own EXCEPT !["pump"] = on] ELSE own)
      /\ pumpAge' = (IF ok THEN 0 ELSE pumpAge)
  BY <1>1 DEF PumpWritten
<1>4. CASE ok /\ arm
  <2>1. /\ chk' = [chk EXCEPT !["pump"] = IF on THEN "on" ELSE "off"]
        /\ age' = [age EXCEPT !["pump"] = 0]
    BY <1>1, <1>4 DEF PumpWritten, manArm
  <2>2. JudgeTypes'
    BY <1>2, <1>3, <2>1, SetFacts DEF JudgeTypes
  <2>3. Driven("pump", on)
    BY <1>1, <1>4, WriteFacts, SetFacts
  <2>4. QED
    BY <1>2, <1>3, <1>4, <2>1, <2>2, <2>3, SetFacts DEF Driven
<1>5. CASE ~(ok /\ arm)
  <2>1. UNCHANGED <<chk, age>>
    BY <1>1, <1>5 DEF PumpWritten
  <2>2. JudgeTypes'
    BY <1>2, <1>3, <2>1, SetFacts DEF JudgeTypes
  <2>3. (drive' = drive \/ Driven("pump", on)) /\ (ok => Driven("pump", on))
    BY <1>1, WriteFacts, SetFacts
  <2>4. QED
    BY <1>2, <1>3, <1>5, <2>1, <2>2, <2>3, SetFacts DEF Driven
<1>6. QED
  BY <1>4, <1>5

-----------------------------------------------------------------------------
(* Types.                                                                  *)

(* The first state is typed.                                               *)
LEMMA InitTyped == Init => Typed
<1> SUFFICES ASSUME Init PROVE Typed
  OBVIOUS
<1>1. PlantTypes
  BY SetFacts DEF Init, PlantTypes
<1>2. ReadTypes
  BY DEF Init, ReadTypes
<1>3. JudgeTypes
  BY SetFacts DEF Init, JudgeTypes
<1>4. StepTypes
  BY SetFacts DEF Init, StepTypes, Steps, NoCmd
<1>5. QED
  BY <1>1, <1>2, <1>3, <1>4 DEF Typed

(* A stop of the pump, whichever check makes it.                           *)
LEMMA StopFacts ==
  ASSUME PlantTypes, JudgeTypes, NEW next, PumpStop(next)
  PROVE  \E ok \in BOOLEAN :
           /\ PlantTypes' /\ JudgeTypes' /\ pc' = next
           /\ WriteBool("pump", FALSE, ok) /\ manPumpWrite(FALSE, FALSE, ok)
<1>1. PICK ok \in BOOLEAN : manPumpWrite(FALSE, FALSE, ok)
  BY DEF PumpStop
<1>2. WriteBool("pump", FALSE, ok) /\ pc' = next
  BY <1>1 DEF manPumpWrite, PumpStop
<1>3. PlantTypes'
  BY <1>2, WriteFacts, SetFacts
<1>4. JudgeTypes'
  BY <1>1, PumpFacts
<1>5. QED
  BY <1>1, <1>2, <1>3, <1>4

(* The automatic stop and the dead-head checks stop the pump or do nothing. *)
Stops(next) ==
  /\ PumpStop(next) \/ (pc' = next /\ UNCHANGED <<drive, conn, judge, left, excused>>)
  /\ UNCHANGED <<cycle, seen, actionWord, cmd, dead>>

LEMMA StopsTyped ==
  ASSUME Typed, NEW next \in Steps, Stops(next)
  PROVE  Typed'
<1>1. ReadTypes' /\ StepTypes'
  <2>1. pc' = next
    BY DEF Stops, PumpStop
  <2>2. QED
    BY <2>1 DEF Stops, Typed, ReadTypes, StepTypes
<1>2. PlantTypes' /\ JudgeTypes'
  <2>1. CASE PumpStop(next)
    BY <2>1, StopFacts DEF Typed
  <2>2. CASE UNCHANGED <<drive, conn, judge, left, excused>>
    BY <2>2 DEF Typed, PlantTypes, JudgeTypes, judge
  <2>3. QED
    BY <2>1, <2>2 DEF Stops
<1>3. QED
  BY <1>1, <1>2 DEF Typed

(* Which step of the tick each of them is.                                 *)
LEMMA StopSteps ==
  /\ AutoStop => pc = "autoStop" /\ Stops("verdicts")
  /\ DeadS4 => pc = "deadS4" /\ Stops("deadS5")
  /\ DeadS5 => pc = "deadS5" /\ Stops("drain")
BY DEF AutoStop, DeadS4, DeadS5, DeadHead, Stops

(* Every step keeps the types.                                             *)
LEMMA StepTyped ==
  ASSUME Typed, [Next]_vars
  PROVE  Typed'
<1>1. PlantTypes /\ ReadTypes /\ JudgeTypes /\ StepTypes
  BY DEF Typed
<1>2. CASE TickAway
  <2>1. PlantTypes' /\ ReadTypes' /\ StepTypes'
    BY <1>1, <1>2 DEF TickAway, PlantTypes, ReadTypes, StepTypes, plant
  <2>2. JudgeTypes'
    BY <1>1, <1>2, SetFacts DEF TickAway, JudgeTypes
  <2>3. QED
    BY <2>1, <2>2 DEF Typed
<1>3. CASE TickPoll
  <2>1. JudgeTypes'
    BY <1>1, <1>3 DEF TickPoll, JudgeTypes, judge
  <2>2. StepTypes'
    BY <1>1, <1>3 DEF TickPoll, StepTypes, Steps
  <2>3. \A unread : Sweep(unread) => /\ seen' \in [Outputs -> {"?", "on", "off"}]
                                     /\ actionWord' \in BOOLEAN
    BY <1>1 DEF Sweep, ReadTypes
  <2>4. seen' \in [Outputs -> {"?", "on", "off"}] /\ actionWord' \in BOOLEAN
    BY <1>1, <1>3, <2>3 DEF TickPoll, ReadTypes
  <2>5. ReadTypes'
    BY <1>1, <1>3, <2>4 DEF TickPoll, ReadTypes, plant
  <2>6. left' \in [Events -> Nat]
    BY <1>1, <1>3, SpendFacts, SetFacts DEF TickPoll, PlantTypes
  <2>7. PlantTypes'
    BY <1>1, <1>3, <2>6 DEF TickPoll, PlantTypes, plant
  <2>8. QED
    BY <2>1, <2>2, <2>5, <2>7 DEF Typed
<1>4. CASE AutoStop \/ DeadS4 \/ DeadS5
  BY <1>4, StopSteps, StopsTyped DEF Steps
<1>5. CASE Verdicts
  <2>1. PlantTypes' /\ ReadTypes' /\ StepTypes'
    BY <1>1, <1>5 DEF Verdicts, PlantTypes, ReadTypes, StepTypes, plant, Steps
  <2>2. JudgeTypes'
    BY <1>1, <1>5, SetFacts DEF Verdicts, JudgeTypes
  <2>3. QED
    BY <2>1, <2>2 DEF Typed
<1>6. CASE Refuse
  BY <1>1, <1>6, SetFacts DEF Refuse, Done, NoCmd, Typed, PlantTypes, ReadTypes, JudgeTypes,
       StepTypes, plant, judge, Steps
<1>7. CASE manPump
  <2>1. PICK ok \in BOOLEAN : manPumpWrite(cmd.on, TRUE, ok)
    BY <1>7 DEF manPump
  <2>2. cmd.on \in BOOLEAN
    BY <1>1 DEF StepTypes
  <2>3. JudgeTypes'
    BY <1>1, <2>1, <2>2, PumpFacts
  <2>4. PlantTypes'
    BY <1>1, <2>1, <2>2, WriteFacts, SetFacts DEF manPumpWrite
  <2>5. ReadTypes' /\ StepTypes'
    BY <1>1, <1>7, SetFacts DEF manPump, Done, NoCmd, ReadTypes, StepTypes, Steps
  <2>6. QED
    BY <2>3, <2>4, <2>5 DEF Typed
<1>8. CASE StopFirst
  <2>1. PICK ok \in BOOLEAN : /\ manPumpWrite(FALSE, TRUE, ok)
                              /\ IF ok THEN pc' = "close" /\ UNCHANGED cmd ELSE Done
    BY <1>8 DEF StopFirst
  <2>2. JudgeTypes'
    BY <1>1, <2>1, PumpFacts
  <2>3. PlantTypes'
    BY <1>1, <2>1, WriteFacts, SetFacts DEF manPumpWrite
  <2>4. /\ pc' \in {"close", "drain"} /\ cmd' \in {cmd, [out |-> "S4", on |-> FALSE]}
        /\ UNCHANGED <<cycle, seen, actionWord, dead>>
    BY <1>8, <2>1 DEF StopFirst, Done, NoCmd
  <2>5. ReadTypes'
    BY <1>1, <2>4 DEF ReadTypes
  <2>6. StepTypes'
    <3>1. [out |-> "S4", on |-> FALSE] \in [out : Outputs, on : BOOLEAN]
      BY SetFacts
    <3>2. cmd' \in [out : Outputs, on : BOOLEAN]
      BY <1>1, <2>4, <3>1 DEF StepTypes
    <3>3. pc' \in Steps /\ dead' \in Nat
      BY <1>1, <2>4 DEF StepTypes, Steps
    <3>4. QED
      BY <3>2, <3>3 DEF StepTypes
  <2>7. QED
    BY <2>2, <2>3, <2>5, <2>6 DEF Typed
<1>9. CASE ValveWrite
  <2>1. PICK ok \in BOOLEAN :
          /\ WriteBool(cmd.out, cmd.on, ok)
          /\ IF ok THEN manArm(cmd.out, cmd.on) /\ own' = [own EXCEPT ![cmd.out] = cmd.on]
                   ELSE UNCHANGED <<chk, age, own>>
    BY <1>9 DEF ValveWrite
  <2>2. cmd.on \in BOOLEAN /\ cmd.out \in Outputs
    BY <1>1 DEF StepTypes
  <2>3. PlantTypes'
    BY <1>1, <2>1, <2>2, WriteFacts
  <2>4. UNCHANGED pumpAge
    BY <1>9 DEF ValveWrite
  <2>5. JudgeTypes'
    BY <1>1, <2>1, <2>2, <2>4, SetFacts DEF manArm, JudgeTypes
  <2>6. /\ pc' = "drain" /\ cmd' = [out |-> "S4", on |-> FALSE] /\ dead' = 0
        /\ UNCHANGED <<cycle, seen, actionWord>>
    BY <1>9 DEF ValveWrite, Done, NoCmd
  <2>7. ReadTypes'
    BY <1>1, <2>6 DEF ReadTypes
  <2>8. StepTypes'
    BY <2>6, SetFacts DEF StepTypes, Steps
  <2>9. QED
    BY <2>3, <2>5, <2>7, <2>8 DEF Typed
<1>10. CASE TickEnd
  <2>1. PlantTypes' /\ ReadTypes' /\ StepTypes'
    BY <1>1, <1>10 DEF TickEnd, PlantTypes, ReadTypes, StepTypes, plant, Steps
  <2>2. age' \in [Outputs -> 0..(VerifyTicks + 1)]
    BY <1>1, <1>10, SetFacts DEF TickEnd, JudgeTypes
  <2>3. pumpAge' \in 0..PumpMaxTicks
    BY <1>1, <1>10, SetFacts DEF TickEnd, JudgeTypes
  <2>4. JudgeTypes'
    BY <1>1, <1>10, <2>2, <2>3 DEF TickEnd, JudgeTypes
  <2>5. QED
    BY <2>1, <2>4 DEF Typed
<1>11. CASE \E i \in Outputs : SeqMove(i)
  <2>1. left' \in [Events -> Nat]
    BY <1>1, <1>11, SpendFacts, SetFacts DEF SeqMove, PlantTypes
  <2>2. PlantTypes' /\ ReadTypes'
    BY <1>1, <1>11, <2>1 DEF SeqMove, PlantTypes, ReadTypes
  <2>3. JudgeTypes' /\ StepTypes'
    BY <1>1, <1>11 DEF SeqMove, JudgeTypes, StepTypes, judge
  <2>4. QED
    BY <2>2, <2>3 DEF Typed
<1>12. CASE \E i \in Outputs, on \in BOOLEAN : Take(i, on)
  <2>1. left' \in [Events -> Nat]
    BY <1>1, <1>12, SpendFacts, SetFacts DEF Take, PlantTypes
  <2>2. PlantTypes' /\ ReadTypes'
    BY <1>1, <1>12, <2>1 DEF Take, PlantTypes, ReadTypes, plant
  <2>3. JudgeTypes' /\ StepTypes'
    BY <1>1, <1>12 DEF Take, JudgeTypes, StepTypes, judge, Steps
  <2>4. QED
    BY <2>2, <2>3 DEF Typed
<1>13. CASE SeqCycle
  <2>1. left' \in [Events -> Nat]
    BY <1>1, <1>13, SpendFacts, SetFacts DEF SeqCycle, PlantTypes
  <2>2. QED
    BY <1>1, <1>13, <2>1 DEF SeqCycle, Typed, PlantTypes, ReadTypes, JudgeTypes, StepTypes, judge
<1>14. CASE Reboot
  <2>1. left' \in [Events -> Nat]
    BY <1>1, <1>14, SpendFacts, SetFacts DEF Reboot, PlantTypes
  <2>2. PlantTypes' /\ ReadTypes'
    BY <1>1, <1>14, <2>1 DEF Reboot, PlantTypes, ReadTypes, plant
  <2>3. JudgeTypes' /\ StepTypes'
    BY <1>1, <1>14, SetFacts DEF Reboot, JudgeTypes, StepTypes, Steps, NoCmd
  <2>4. QED
    BY <2>2, <2>3 DEF Typed
<1>15. CASE UNCHANGED vars
  BY <1>1, <1>15 DEF vars, plant, judge, Typed, PlantTypes, ReadTypes, JudgeTypes, StepTypes
<1>16. QED
  BY <1>2, <1>3, <1>4, <1>5, <1>6, <1>7, <1>8, <1>9, <1>10, <1>11, <1>12, <1>13, <1>14,
     <1>15 DEF Next, Tick, Environment

-----------------------------------------------------------------------------
(* The pump is not forgotten.                                              *)

(* The outputs hold what types say, one at a time.                         *)
LEMMA PumpTyped ==
  ASSUME Typed
  PROVE  /\ drive["pump"] \in {"off", "plc", "gateway"} /\ seen["pump"] \in {"?", "on", "off"}
         /\ own["pump"] \in BOOLEAN /\ chk["pump"] \in {"none", "on", "off"}
         /\ conn \in BOOLEAN /\ excused \in BOOLEAN /\ pc \in Steps
         /\ cmd.out \in Outputs /\ cmd.on \in BOOLEAN
BY SetFacts DEF Typed, PlantTypes, ReadTypes, JudgeTypes, StepTypes

(* A stop, or none, leaves no running pump behind that it forgets.         *)
LEMMA StopsGuarded ==
  ASSUME Typed, Guarded, NEW next, Stops(next), pc \in {"autoStop", "deadS4", "deadS5"},
         next \in {"verdicts", "deadS5", "drain"}, pc = "autoStop" => next = "verdicts",
         next = "verdicts" => pc = "autoStop"
  PROVE  Guarded'
<1>1. pc' = next /\ UNCHANGED seen
  BY DEF Stops, PumpStop
<1>2. CASE UNCHANGED <<drive, conn, judge, left, excused>>
  BY <1>1, <1>2 DEF Guarded, PumpGuarded, CheckedOff, Reads, Closing, judge
<1>3. CASE PumpStop(next)
  <2>1. PICK ok \in BOOLEAN : manPumpWrite(FALSE, FALSE, ok) /\ WriteBool("pump", FALSE, ok)
    BY <1>3, StopFacts DEF Typed
  <2>2. /\ own'["pump"] = IF ok THEN FALSE ELSE own["pump"]
        /\ chk'["pump"] = chk["pump"]
        /\ drive' = drive \/ drive'["pump"] = "off"
        /\ ok => drive'["pump"] = "off"
    BY <2>1, PumpFacts DEF Typed
  <2>3. (excused => excused') /\ (conn' => conn)
    BY <2>1, WriteFacts, SetFacts DEF Typed
  <2>4. CASE drive'["pump"] = "off"
    BY <1>1, <2>4 DEF Guarded, PumpGuarded, CheckedOff, Reads, Closing
  <2>5. CASE drive' = drive /\ ~ok
    BY <1>1, <2>2, <2>3, <2>5 DEF Guarded, PumpGuarded, CheckedOff, Reads, Closing
  <2>6. QED
    BY <2>2, <2>4, <2>5
<1>4. QED
  BY <1>2, <1>3 DEF Stops

(* The gateway forgets the pump only where the PLC has it off.             *)
LEMMA StepGuarded ==
  ASSUME Typed, Guarded, [Next]_vars
  PROVE  Guarded'
<1>1. /\ drive["pump"] \in {"off", "plc", "gateway"} /\ seen["pump"] \in {"?", "on", "off"}
      /\ own["pump"] \in BOOLEAN /\ chk["pump"] \in {"none", "on", "off"}
      /\ conn \in BOOLEAN /\ excused \in BOOLEAN
      /\ cmd.out \in Outputs /\ cmd.on \in BOOLEAN
  BY PumpTyped
<1>2. PumpGuarded /\ CheckedOff /\ Reads /\ Closing
  BY DEF Guarded
<1>3. CASE TickAway
  <2>1. /\ seen'["pump"] = "?" /\ chk'["pump"] = "none" /\ pc' = "top"
        /\ UNCHANGED <<drive, own, excused>>
    BY <1>3, SetFacts DEF TickAway, plant
  <2>2. QED
    BY <1>2, <2>1 DEF Guarded, PumpGuarded, CheckedOff, Reads, Closing
<1>4. CASE TickPoll
  <2>1. pc = "top" /\ pc' \in {"autoStop", "drain"} /\ UNCHANGED <<drive, own, chk, excused>>
    BY <1>4 DEF TickPoll, plant, judge
  <2>2. \A unread : Sweep(unread) /\ seen'["pump"] = "off" => drive["pump"] = "off"
    BY SetFacts DEF Sweep, On
  <2>3. seen'["pump"] = "off" => drive["pump"] # "gateway"
    <3>1. (\E unread : Sweep(unread)) \/ UNCHANGED seen
      BY <1>4 DEF TickPoll
    <3>2. QED
      BY <1>2, <2>1, <2>2, <3>1 DEF Reads
  <2>4. QED
    BY <1>2, <2>1, <2>3 DEF Guarded, PumpGuarded, CheckedOff, Reads, Closing
<1>5. CASE AutoStop \/ DeadS4 \/ DeadS5
  BY <1>5, StopSteps, StopsGuarded
<1>6. CASE Verdicts
  <2>1. /\ pc = "verdicts" /\ pc' = "deadS4" /\ UNCHANGED <<drive, conn, seen, excused>>
        /\ chk'["pump"] = IF Due("pump") THEN "none" ELSE chk["pump"]
        /\ own'["pump"] = (/\ own["pump"]
                           /\ ~(Due("pump") /\ seen["pump"] # "?" /\ seen["pump"] # chk["pump"])
                           /\ ~(chk'["pump"] = "none" /\ seen["pump"] = "off"))
    BY <1>6, SetFacts DEF Verdicts, plant
  <2>2. SUFFICES ASSUME drive["pump"] = "gateway", ~excused PROVE own'["pump"]
    BY <1>2, <2>1 DEF Guarded, PumpGuarded, CheckedOff, Reads, Closing
  <2>3. own["pump"] /\ chk["pump"] # "off" /\ seen["pump"] # "off"
    BY <1>2, <2>1, <2>2 DEF PumpGuarded, CheckedOff, Reads
  <2>4. ~(Due("pump") /\ seen["pump"] # "?" /\ seen["pump"] # chk["pump"])
    BY <1>1, <2>3 DEF Due
  <2>5. QED
    BY <2>1, <2>3, <2>4
<1>7. CASE Refuse
  BY <1>2, <1>7 DEF Refuse, Done, plant, judge, Guarded, PumpGuarded, CheckedOff, Reads, Closing
<1>8. CASE manPump
  <2>1. PICK ok \in BOOLEAN : manPumpWrite(cmd.on, TRUE, ok)
    BY <1>8 DEF manPump
  <2>2. WriteBool("pump", cmd.on, ok)
    BY <2>1 DEF manPumpWrite
  <2>3. pc = "apply" /\ pc' = "drain" /\ UNCHANGED seen
    BY <1>8 DEF manPump, Done
  <2>4. /\ own'["pump"] = IF ok THEN cmd.on ELSE own["pump"]
        /\ chk'["pump"] = IF ok THEN IF cmd.on THEN "on" ELSE "off" ELSE chk["pump"]
        /\ drive' = drive \/ drive'["pump"] = IF cmd.on THEN "gateway" ELSE "off"
        /\ ok => drive'["pump"] = IF cmd.on THEN "gateway" ELSE "off"
    BY <1>1, <2>1, PumpFacts DEF Typed
  <2>5. /\ excused => excused'
        /\ ~ok /\ cmd.on /\ drive' # drive => excused' /\ ~conn'
    BY <1>1, <2>2, WriteFacts, SetFacts DEF Typed
  <2>6. CASE ok
    BY <2>3, <2>4, <2>6 DEF Guarded, PumpGuarded, CheckedOff, Reads, Closing
  <2>7. CASE drive' = drive /\ ~ok
    BY <1>2, <2>3, <2>4, <2>5, <2>7 DEF Guarded, PumpGuarded, CheckedOff, Reads, Closing
  <2>8. CASE drive'["pump"] = "off"
    BY <2>3, <2>8 DEF Guarded, PumpGuarded, CheckedOff, Reads, Closing
  <2>9. CASE ~ok /\ cmd.on /\ drive' # drive
    BY <2>3, <2>5, <2>9 DEF Guarded, PumpGuarded, CheckedOff, Reads, Closing
  <2>10. QED
    BY <1>1, <2>4, <2>6, <2>7, <2>8, <2>9
<1>9. CASE StopFirst
  <2>1. PICK ok \in BOOLEAN : /\ manPumpWrite(FALSE, TRUE, ok)
                              /\ IF ok THEN pc' = "close" /\ UNCHANGED cmd ELSE Done
    BY <1>9 DEF StopFirst
  <2>2. WriteBool("pump", FALSE, ok)
    BY <2>1 DEF manPumpWrite
  <2>3. /\ pc = "apply" /\ cmd.out \in Valves /\ ~cmd.on /\ UNCHANGED seen
        /\ ok => pc' = "close" /\ UNCHANGED cmd
        /\ ~ok => pc' = "drain"
    BY <1>9, <2>1 DEF StopFirst, Done
  <2>4. /\ own'["pump"] = IF ok THEN FALSE ELSE own["pump"]
        /\ chk'["pump"] = IF ok THEN "off" ELSE chk["pump"]
        /\ drive' = drive \/ drive'["pump"] = "off"
        /\ ok => drive'["pump"] = "off"
    BY <2>1, PumpFacts DEF Typed
  <2>5. excused => excused'
    BY <2>2, WriteFacts, SetFacts DEF Typed
  <2>6. CASE drive'["pump"] = "off"
    BY <2>3, <2>6 DEF Guarded, PumpGuarded, CheckedOff, Reads, Closing
  <2>7. CASE drive' = drive /\ ~ok
    BY <1>2, <2>3, <2>4, <2>5, <2>7 DEF Guarded, PumpGuarded, CheckedOff, Reads, Closing
  <2>8. QED
    BY <2>4, <2>6, <2>7
<1>10. CASE ValveWrite
  <2>1. PICK ok \in BOOLEAN :
          /\ WriteBool(cmd.out, cmd.on, ok)
          /\ IF ok THEN manArm(cmd.out, cmd.on) /\ own' = [own EXCEPT ![cmd.out] = cmd.on]
                   ELSE UNCHANGED <<chk, age, own>>
    BY <1>10 DEF ValveWrite
  <2>2. cmd.out \in Valves /\ pc \in {"apply", "close"} /\ pc' = "drain" /\ UNCHANGED seen
    BY <1>2, <1>10 DEF ValveWrite, Done, Closing
  <2>3. (drive' = drive \/ Driven(cmd.out, cmd.on)) /\ (excused => excused')
    BY <1>1, <2>1, WriteFacts DEF Typed
  <2>4. drive'["pump"] = drive["pump"]
    BY <2>2, <2>3, SetFacts DEF Driven, Typed, PlantTypes
  <2>5. own'["pump"] = own["pump"] /\ chk'["pump"] = chk["pump"]
    BY <2>1, <2>2, SetFacts DEF manArm, Typed, JudgeTypes
  <2>6. QED
    BY <1>2, <2>2, <2>3, <2>4, <2>5 DEF Guarded, PumpGuarded, CheckedOff, Reads, Closing
<1>11. CASE TickEnd
  <2>1. pc' = "top" /\ seen'["pump"] = "?" /\ UNCHANGED <<drive, own, chk, excused>>
    BY <1>11, SetFacts DEF TickEnd, plant
  <2>2. QED
    BY <1>2, <2>1 DEF Guarded, PumpGuarded, CheckedOff, Reads, Closing
<1>12. CASE \E i \in Outputs : SeqMove(i)
  <2>1. UNCHANGED <<conn, seen, own, chk, excused, pc, cmd>>
    BY <1>12 DEF SeqMove, judge
  <2>2. drive'["pump"] = "gateway" => drive["pump"] = "gateway"
    BY <1>12, SetFacts DEF SeqMove, Typed, PlantTypes
  <2>3. QED
    BY <1>2, <2>1, <2>2 DEF Guarded, PumpGuarded, CheckedOff, Reads, Closing
<1>13. CASE \E i \in Outputs, on \in BOOLEAN : Take(i, on)
  <2>1. pc = "drain" /\ pc' = "apply" /\ conn /\ UNCHANGED <<drive, conn, seen, own, chk, excused>>
    BY <1>13 DEF Take, plant, judge
  <2>2. QED
    BY <1>2, <2>1 DEF Guarded, PumpGuarded, CheckedOff, Reads, Closing
<1>14. CASE SeqCycle
  BY <1>2, <1>14 DEF SeqCycle, judge, Guarded, PumpGuarded, CheckedOff, Reads, Closing
<1>15. CASE Reboot
  <2>1. pc' = "top" /\ excused' /\ seen'["pump"] = "?"
    BY <1>15, SetFacts DEF Reboot
  <2>2. QED
    BY <2>1 DEF Guarded, PumpGuarded, CheckedOff, Reads, Closing
<1>16. CASE UNCHANGED vars
  BY <1>2, <1>16 DEF vars, plant, judge, Guarded, PumpGuarded, CheckedOff, Reads, Closing
<1>17. QED
  BY <1>3, <1>4, <1>5, <1>6, <1>7, <1>8, <1>9, <1>10, <1>11, <1>12, <1>13, <1>14, <1>15,
     <1>16 DEF Next, Tick, Environment

-----------------------------------------------------------------------------
(* The pump against a closed valve.                                        *)

(* What is within a bound is within a wider one.                           *)
LEMMA MoreAllowed ==
  ASSUME NEW n \in Int, NEW a \in Int, NEW f \in Int, NEW g \in Int, f <= g, n <= a + f
  PROVE  n <= a + g
OBVIOUS

(* A step that leaves the count and the valves' verdicts alone.            *)
Calm ==
  /\ \A v \in Valves : chk'[v] = chk[v] /\ age'[v] = age[v]
  /\ UNCHANGED dead /\ left'["faults"] <= left["faults"]
  /\ excused => excused'
  /\ conn' /\ pc' \in After => conn /\ pc \in After

(* After it no more time is allowed than before.                           *)
LEMMA CalmBounded ==
  ASSUME Typed, Typed', Bounded, Calm, Strained'
  PROVE  Bounded'
<1>1. left["faults"] <= Budget["faults"] /\ Running /\ Aging /\ DeadHeadBounded
  BY DEF Bounded
<1>2. /\ left["faults"] \in Nat /\ left'["faults"] \in Nat /\ Budget["faults"] \in Nat
      /\ dead \in Nat /\ \A v \in Valves : age[v] \in 0..(VerifyTicks + 1)
  BY SetFacts DEF Typed, PlantTypes, JudgeTypes, StepTypes
<1>3. left'["faults"] <= Budget["faults"] /\ Faults <= Faults' /\ Faults \in Nat /\ Faults' \in Nat
  BY <1>1, <1>2 DEF Faults, Calm
<1>4. Running'
  BY <1>1 DEF Running, Calm
<1>5. Aging'
  BY <1>1, <1>2, <1>3 DEF Aging, Calm
<1>6. DeadHeadBounded'
  BY <1>1, <1>2, <1>3, SetFacts DEF DeadHeadBounded, Faults, Calm
<1>7. QED
  BY <1>3, <1>4, <1>5, <1>6 DEF Bounded

(* Nor is a refusal needed that was not needed before.                     *)
LEMMA CalmStrained ==
  ASSUME Typed, Typed', Bounded, Calm, UNCHANGED seen, conn' => conn,
         drive'["pump"] = "gateway" => drive["pump"] = "gateway",
         Passed' \subseteq Passed
  PROVE  Strained'
<1>1. left["faults"] \in Nat /\ left'["faults"] \in Nat /\ Budget["faults"] \in Nat
      /\ dead \in Nat
  BY SetFacts DEF Typed, PlantTypes, StepTypes
<1>2. Faults <= Faults' /\ Faults \in Int /\ Faults' \in Int
  BY <1>1 DEF Faults, Calm
<1>3. SUFFICES ASSUME ~excused', conn', drive'["pump"] = "gateway",
                      NEW v \in Passed', seen'[v] = "off", chk'[v] = "none"
               PROVE  dead' <= VerifyTicks + Faults'
  BY DEF Strained
<1>4. v \in Passed /\ v \in Valves
  BY SetFacts DEF Passed
<1>5. ~excused /\ conn /\ drive["pump"] = "gateway" /\ seen[v] = "off" /\ chk[v] = "none"
  BY <1>3, <1>4 DEF Calm
<1>6. dead <= VerifyTicks + Faults
  BY <1>4, <1>5 DEF Bounded, Strained
<1>7. dead' = dead /\ VerifyTicks \in Int /\ dead \in Int
  BY <1>1, SetFacts DEF Calm
<1>8. QED
  BY <1>2, <1>6, <1>7, MoreAllowed

(* A stop, or none, is calm.                                               *)
LEMMA StopsCalm ==
  ASSUME Typed, NEW next, Stops(next), pc' \in After => pc \in After
  PROVE  /\ Calm /\ UNCHANGED seen /\ (conn' => conn)
         /\ drive'["pump"] = "gateway" => drive["pump"] = "gateway"
<1>1. UNCHANGED <<seen, dead>>
  BY DEF Stops
<1>2. left["faults"] \in Nat
  BY SetFacts DEF Typed, PlantTypes
<1>3. CASE UNCHANGED <<drive, conn, judge, left, excused>>
  BY <1>1, <1>2, <1>3 DEF Calm, judge
<1>4. CASE PumpStop(next)
  <2>1. PICK ok \in BOOLEAN : manPumpWrite(FALSE, FALSE, ok) /\ WriteBool("pump", FALSE, ok)
    BY <1>4, StopFacts DEF Typed
  <2>2. /\ \A v \in Valves : chk'[v] = chk[v] /\ age'[v] = age[v]
        /\ drive' = drive \/ drive'["pump"] = "off"
    BY <2>1, PumpFacts DEF Typed
  <2>3. left'["faults"] <= left["faults"] /\ (excused => excused') /\ (conn' => conn)
    BY <2>1, WriteFacts, SetFacts DEF Typed
  <2>4. QED
    BY <1>1, <2>2, <2>3 DEF Calm
<1>5. QED
  BY <1>3, <1>4 DEF Stops

(* A pump that its valve's check leaves running has cost a refusal.        *)
LEMMA DeadHeadStrains ==
  ASSUME Typed, Typed', PumpGuarded, DeadHeadBounded,
         NEW i \in Valves, NEW at, NEW next, DeadHead(i, at, next),
         ~excused, ~excused', conn', drive'["pump"] = "gateway",
         seen'[i] = "off", chk'[i] = "none"
  PROVE  dead' <= VerifyTicks + Faults'
<1>1. UNCHANGED <<seen, dead>>
  BY DEF DeadHead
<1>2. CASE PumpStop(next)
  <2>1. PICK ok \in BOOLEAN : manPumpWrite(FALSE, FALSE, ok) /\ WriteBool("pump", FALSE, ok)
    BY <1>2, StopFacts DEF Typed
  <2>2. ok => drive'["pump"] = "off"
    BY <2>1, PumpFacts DEF Typed
  <2>3. left'["faults"] = left["faults"] - 1
    BY <2>1, <2>2, WriteFacts, SetFacts DEF Typed
  <2>4. left["faults"] \in Nat /\ Budget["faults"] \in Nat /\ dead \in Nat
    BY SetFacts DEF Typed, PlantTypes, StepTypes
  <2>5. dead <= VerifyTicks + 1 + (Budget["faults"] - left["faults"])
    BY DEF DeadHeadBounded
  <2>6. QED
    BY <1>1, <2>3, <2>4, <2>5, SetFacts DEF Faults
<1>3. CASE ~PumpStop(next)
  <2>1. UNCHANGED <<drive, chk, own>> /\ ~(own["pump"] /\ chk[i] = "none" /\ seen[i] = "off")
    BY <1>3 DEF DeadHead, judge
  <2>2. QED
    BY <1>1, <2>1 DEF PumpGuarded
<1>4. QED
  BY <1>2, <1>3

(* Every step keeps the bound.                                             *)
LEMMA StepBounded ==
  ASSUME Typed, Guarded, Bounded, [Next]_vars
  PROVE  Bounded'
<1>1. Typed'
  BY StepTyped
<1>2. /\ left["faults"] \in Nat /\ left'["faults"] \in Nat /\ Budget["faults"] \in Nat
      /\ dead \in Nat /\ left \in [Events -> Nat]
      /\ \A v \in Valves : /\ age[v] \in 0..(VerifyTicks + 1)
                           /\ age'[v] \in 0..(VerifyTicks + 1)
  BY <1>1, SetFacts DEF Typed, PlantTypes, JudgeTypes, StepTypes
<1>3. left["faults"] <= Budget["faults"] /\ Running /\ Aging /\ Strained /\ DeadHeadBounded
  BY DEF Bounded
<1>4. ASSUME dead' = 0, left'["faults"] <= left["faults"], Running' PROVE Bounded'
  <2>1. left'["faults"] <= Budget["faults"] /\ 0 <= Faults' /\ Faults' \in Int
    BY <1>2, <1>3, <1>4 DEF Faults
  <2>2. Aging'
    BY <1>2, <1>4, <2>1 DEF Aging
  <2>3. Strained' /\ DeadHeadBounded'
    BY <1>2, <1>4, <2>1, SetFacts DEF Strained, DeadHeadBounded, Faults
  <2>4. QED
    BY <1>4, <2>1, <2>2, <2>3 DEF Bounded
<1>5. ASSUME Calm, UNCHANGED seen, conn' => conn, Passed' \subseteq Passed,
             drive'["pump"] = "gateway" => drive["pump"] = "gateway"
      PROVE  Bounded'
  BY <1>1, <1>5, CalmBounded, CalmStrained
<1>6. CASE TickAway
  BY <1>2, <1>4, <1>6 DEF TickAway, Running, After
<1>7. CASE TickPoll
  <2>1. UNCHANGED <<chk, age, dead, excused>>
    BY <1>7 DEF TickPoll, judge
  <2>2. pc' \in {"autoStop", "drain"} /\ (pc' = "drain" => ~conn')
    BY <1>7 DEF TickPoll
  <2>3. UNCHANGED left \/ Spend("unread") \/ Spend("faults")
    BY <1>7 DEF TickPoll
  <2>4. left'["faults"] <= left["faults"]
    BY <1>2, <2>3, SpendFacts, SetFacts
  <2>5. Calm
    BY <2>1, <2>2, <2>4 DEF Calm, After
  <2>6. Strained'
    BY <2>2 DEF Strained, Passed
  <2>7. QED
    BY <1>1, <2>5, <2>6, CalmBounded
<1>8. CASE AutoStop
  <2>1. Stops("verdicts") /\ pc' = "verdicts"
    BY <1>8, StopSteps DEF Stops, PumpStop
  <2>2. Calm
    BY <2>1, StopsCalm DEF After
  <2>3. Strained'
    BY <2>1 DEF Strained, Passed
  <2>4. QED
    BY <1>1, <2>2, <2>3, CalmBounded
<1>9. CASE DeadS4 \/ DeadS5
  <2>1. PICK next \in {"deadS5", "drain"} :
          Stops(next) /\ pc = (IF next = "deadS5" THEN "deadS4" ELSE "deadS5") /\ pc' = next
    BY <1>9, StopSteps DEF Stops, PumpStop
  <2>2. /\ Calm /\ UNCHANGED seen /\ (conn' => conn)
        /\ drive'["pump"] = "gateway" => drive["pump"] = "gateway"
    BY <2>1, StopsCalm DEF After
  <2>3. Strained'
    <3>1. SUFFICES ASSUME ~excused', conn', drive'["pump"] = "gateway",
                          NEW v \in Passed', seen'[v] = "off", chk'[v] = "none"
                   PROVE  dead' <= VerifyTicks + Faults'
      BY DEF Strained
    <3>2. ~excused
      BY <2>2, <3>1 DEF Calm
    <3>3. CASE v = "S4" /\ pc = "deadS5"
      <4>1. dead <= VerifyTicks + Faults /\ dead' = dead
        BY <1>3, <2>2, <3>1, <3>2, <3>3, SetFacts DEF Strained, Passed, Calm
      <4>2. Faults <= Faults' /\ Faults \in Int /\ Faults' \in Int
        BY <1>2, <2>2 DEF Faults, Calm
      <4>3. VerifyTicks \in Int /\ dead \in Int
        BY <1>2, SetFacts
      <4>4. QED
        BY <4>1, <4>2, <4>3, MoreAllowed
    <3>4. CASE v = "S4" /\ pc = "deadS4"
      BY <1>1, <1>3, <1>9, <3>1, <3>2, <3>4, DeadHeadStrains, SetFacts
         DEF DeadS4, DeadS5, DeadHead, Guarded
    <3>5. CASE v = "S5"
      BY <1>1, <1>3, <1>9, <2>1, <3>1, <3>2, <3>5, DeadHeadStrains, SetFacts
         DEF DeadS4, DeadS5, DeadHead, Guarded, Passed
    <3>6. QED
      BY <2>1, <3>1, <3>3, <3>4, <3>5, SetFacts DEF Passed
  <2>4. QED
    BY <1>1, <2>2, <2>3, CalmBounded
<1>10. CASE Verdicts
  <2>1. /\ pc' = "deadS4" /\ UNCHANGED <<left, conn, excused, dead>>
        /\ \A v \in Valves : /\ chk'[v] = (IF Due(v) THEN "none" ELSE chk[v])
                             /\ age'[v] = (IF Due(v) THEN 0 ELSE age[v])
    BY <1>10, SetFacts DEF Verdicts
  <2>2. Faults' = Faults
    BY <2>1 DEF Faults
  <2>3. Running'
    BY <1>2, <2>1, SetFacts DEF Running, Due
  <2>4. Aging'
    BY <1>3, <2>1, <2>2 DEF Aging
  <2>5. Strained' /\ DeadHeadBounded'
    BY <1>3, <2>1 DEF Strained, Passed, DeadHeadBounded
  <2>6. QED
    BY <1>3, <2>1, <2>3, <2>4, <2>5 DEF Bounded
<1>11. CASE Refuse
  <2>1. pc = "apply" /\ pc' = "drain"
        /\ UNCHANGED <<drive, conn, seen, chk, age, left, excused, dead>>
    BY <1>11 DEF Refuse, Done, plant, judge
  <2>2. QED
    BY <1>2, <1>5, <2>1 DEF Calm, Passed, After
<1>12. CASE manPump
  <2>1. PICK ok \in BOOLEAN : manPumpWrite(cmd.on, TRUE, ok)
    BY <1>12 DEF manPump
  <2>2. cmd.on \in BOOLEAN /\ pc = "apply" /\ pc' = "drain" /\ UNCHANGED <<seen, dead>>
    BY <1>12, PumpTyped DEF manPump, Done
  <2>3. /\ \A v \in Valves : chk'[v] = chk[v] /\ age'[v] = age[v]
        /\ drive' = drive \/ drive'["pump"] = IF cmd.on THEN "gateway" ELSE "off"
    BY <2>1, <2>2, PumpFacts DEF Typed
  <2>4. left'["faults"] <= left["faults"] /\ (excused => excused') /\ (conn' => conn)
    BY <2>1, <2>2, WriteFacts, SetFacts DEF Typed, manPumpWrite
  <2>5. Calm
    BY <2>2, <2>3, <2>4 DEF Calm, After
  <2>6. CASE ~cmd.on
    BY <1>5, <2>2, <2>3, <2>4, <2>5, <2>6 DEF Passed
  <2>7. CASE cmd.on
    <3>1. \A v \in Valves : seen'[v] = "on"
      BY <1>12, <2>2, <2>7 DEF manPump, Refused
    <3>2. Strained'
      BY <3>1, SetFacts DEF Strained, Passed
    <3>3. QED
      BY <1>1, <2>5, <3>2, CalmBounded
  <2>8. QED
    BY <2>6, <2>7
<1>13. CASE StopFirst
  <2>1. PICK ok \in BOOLEAN : /\ manPumpWrite(FALSE, TRUE, ok)
                              /\ IF ok THEN pc' = "close" /\ UNCHANGED cmd ELSE Done
    BY <1>13 DEF StopFirst
  <2>2. pc = "apply" /\ pc' \in {"close", "drain"} /\ UNCHANGED <<seen, dead>>
    BY <1>13, <2>1 DEF StopFirst, Done
  <2>3. /\ \A v \in Valves : chk'[v] = chk[v] /\ age'[v] = age[v]
        /\ drive' = drive \/ drive'["pump"] = "off"
    BY <2>1, PumpFacts DEF Typed
  <2>4. left'["faults"] <= left["faults"] /\ (excused => excused') /\ (conn' => conn)
    BY <2>1, WriteFacts, SetFacts DEF Typed, manPumpWrite
  <2>5. Calm
    BY <2>2, <2>3, <2>4 DEF Calm, After
  <2>6. QED
    BY <1>5, <2>2, <2>3, <2>4, <2>5 DEF Passed
<1>14. CASE ValveWrite
  <2>1. PICK ok \in BOOLEAN :
          /\ WriteBool(cmd.out, cmd.on, ok)
          /\ IF ok THEN manArm(cmd.out, cmd.on) /\ own' = [own EXCEPT ![cmd.out] = cmd.on]
                   ELSE UNCHANGED <<chk, age, own>>
    BY <1>14 DEF ValveWrite
  <2>2. pc \in {"apply", "close"} /\ dead' = 0
    BY <1>14 DEF ValveWrite
  <2>3. left'["faults"] <= left["faults"] /\ (conn' => conn)
    BY <2>1, PumpTyped, WriteFacts DEF Typed
  <2>4. \A v \in Valves : \/ age'[v] = 0
                          \/ chk'[v] = chk[v] /\ age'[v] = age[v]
    BY <2>1, SetFacts DEF manArm, Typed, JudgeTypes
  <2>5. Running'
    BY <1>3, <2>2, <2>3, <2>4, SetFacts DEF Running, After
  <2>6. QED
    BY <1>4, <2>2, <2>3, <2>5
<1>15. CASE TickEnd
  <2>1. /\ pc = "drain" /\ pc' = "top" /\ UNCHANGED <<left, conn, chk, excused>>
        /\ \A v \in Valves : age'[v] = IF chk[v] # "none" /\ age[v] <= VerifyTicks
                                       THEN age[v] + 1 ELSE age[v]
        /\ dead' = IF Starving /\ ~excused /\ conn THEN dead + 1 ELSE 0
    BY <1>15, SetFacts DEF TickEnd
  <2>2. Running' /\ Strained'
    BY <2>1 DEF Running, After, Strained, Passed
  <2>3. CASE ~(Starving /\ ~excused /\ conn)
    BY <1>2, <1>4, <2>1, <2>2, <2>3
  <2>4. CASE Starving /\ ~excused /\ conn
    <3>1. PICK v \in Valves : seen[v] = "off" /\ drive["pump"] = "gateway"
      BY <2>4 DEF Starving
    <3>2. \A u \in Valves : chk[u] # "none" => dead <= age[u] + Faults /\ age[u] <= VerifyTicks
      BY <1>3, <2>1, <2>4 DEF Running, Aging, After
    <3>3. Faults' = Faults /\ Faults \in Int /\ VerifyTicks \in Int /\ dead' = dead + 1
      BY <1>2, <2>1, <2>4, SetFacts DEF Faults
    <3>4. dead <= VerifyTicks + Faults
      <4>1. CASE chk[v] = "none"
        BY <1>3, <2>1, <2>4, <3>1, <4>1 DEF Strained, Passed
      <4>2. CASE chk[v] # "none"
        BY <1>2, <3>2, <3>3, <4>2
      <4>3. QED
        BY <4>1, <4>2
    <3>5. Aging'
      <4>1. SUFFICES ASSUME NEW u \in Valves, chk[u] # "none" PROVE dead' <= age'[u] + Faults'
        BY <2>1 DEF Aging
      <4>2. dead <= age[u] + Faults /\ age'[u] = age[u] + 1
        BY <2>1, <3>2, <4>1
      <4>3. QED
        BY <1>2, <3>3, <4>2
    <3>6. DeadHeadBounded'
      BY <1>2, <2>1, <3>3, <3>4 DEF DeadHeadBounded, Faults
    <3>7. QED
      BY <1>3, <2>1, <2>2, <3>5, <3>6 DEF Bounded
  <2>5. QED
    BY <2>3, <2>4
<1>16. CASE \E i \in Outputs : SeqMove(i)
  <2>1. UNCHANGED <<conn, seen, chk, age, excused, pc, dead>>
    BY <1>16 DEF SeqMove, judge
  <2>2. left'["faults"] = left["faults"]
    BY <1>2, <1>16, SpendFacts, SetFacts DEF SeqMove
  <2>3. drive'["pump"] = "gateway" => drive["pump"] = "gateway"
    BY <1>16, SetFacts DEF SeqMove, Typed, PlantTypes
  <2>4. QED
    BY <1>2, <1>5, <2>1, <2>2, <2>3 DEF Calm, Passed
<1>17. CASE \E i \in Outputs, on \in BOOLEAN : Take(i, on)
  <2>1. pc = "drain" /\ pc' = "apply" /\ UNCHANGED <<drive, conn, seen, chk, age, excused, dead>>
    BY <1>17 DEF Take, plant, judge
  <2>2. left'["faults"] = left["faults"]
    BY <1>2, <1>17, SpendFacts, SetFacts DEF Take
  <2>3. QED
    BY <1>2, <1>5, <2>1, <2>2 DEF Calm, Passed, After
<1>18. CASE SeqCycle
  <2>1. UNCHANGED <<drive, conn, seen, chk, age, excused, pc, dead>>
    BY <1>18 DEF SeqCycle, judge
  <2>2. left'["faults"] = left["faults"]
    BY <1>2, <1>18, SpendFacts, SetFacts DEF SeqCycle
  <2>3. QED
    BY <1>2, <1>5, <2>1, <2>2 DEF Calm, Passed
<1>19. CASE Reboot
  <2>1. dead' = 0 /\ pc' = "top"
    BY <1>19 DEF Reboot
  <2>2. left'["faults"] <= left["faults"]
    BY <1>2, <1>19, SpendFacts, SetFacts DEF Reboot
  <2>3. QED
    BY <1>4, <2>1, <2>2 DEF Running, After
<1>20. CASE UNCHANGED vars
  BY <1>2, <1>5, <1>20 DEF vars, plant, judge, Calm, Passed
<1>21. QED
  BY <1>6, <1>7, <1>8, <1>9, <1>10, <1>11, <1>12, <1>13, <1>14, <1>15, <1>16, <1>17,
     <1>18, <1>19, <1>20 DEF Next, Tick, Environment

-----------------------------------------------------------------------------
(* The invariant, and what follows from it.                                *)

(* The invariant holds at first.                                           *)
LEMMA InitIInv == Init => IInv
<1> SUFFICES ASSUME Init PROVE IInv
  OBVIOUS
<1>1. Typed
  BY InitTyped
<1>2. /\ drive["pump"] \in {"off", "plc"} /\ seen["pump"] = "?" /\ pc = "top"
      /\ \A i \in Outputs : chk[i] = "none"
      /\ dead = 0 /\ left = Budget
  BY SetFacts DEF Init
<1>3. Guarded
  BY <1>2, SetFacts DEF Guarded, PumpGuarded, CheckedOff, Reads, Closing
<1>4. Bounded
  BY <1>2, SetFacts DEF Bounded, Running, After, Aging, Strained, Passed, DeadHeadBounded
<1>5. QED
  BY <1>1, <1>3, <1>4 DEF IInv

(* Every step keeps it.                                                    *)
LEMMA StepIInv == IInv /\ [Next]_vars => IInv'
BY StepTyped, StepGuarded, StepBounded DEF IInv

(* It holds in every state of every run.                                   *)
THEOREM Inductive == Spec => []IInv
BY InitIInv, StepIInv, PTL DEF Spec

(* Every variable of the manual drain keeps its type.                      *)
THEOREM TypeCorrect == Spec => []TypeOK
<1>1. IInv => TypeOK
  BY DEF IInv, Typed, PlantTypes, ReadTypes, JudgeTypes, StepTypes, TypeOK
<1>2. QED
  BY <1>1, Inductive, PTL

(* A pump that the gateway started has its stop armed (s_manPumpActive),   *)
(* whatever is refused, lost, unread or judged on the way.                 *)
THEOREM NeverForgotten == Spec => []PumpGuarded
<1>1. IInv => PumpGuarded
  BY DEF IInv, Guarded
<1>2. QED
  BY <1>1, Inductive, PTL

(* A pump against a closed valve is stopped within its verdict's window    *)
(* and one tick for every refused stop (the dead-head check).              *)
THEOREM DeadHeadStopped == Spec => []DeadHeadBounded
<1>1. IInv => DeadHeadBounded
  BY DEF IInv, Bounded
<1>2. QED
  BY <1>1, Inductive, PTL

(* No command of the dashboard closes a valve on the gateway's own pump.   *)
THEOREM NoSeal == Spec => NeverSealed
<1>1. ASSUME IInv, [Next]_vars, NEW v \in Valves,
             pc \in {"apply", "close"}, cmd.out = v, On(v), drive'[v] = "off", pc' = "drain",
             ~excused \/ seen["pump"] # "?"
      PROVE  drive["pump"] # "gateway"
  <2>1. Typed /\ PumpGuarded /\ Reads /\ Closing
    BY <1>1 DEF IInv, Guarded
  <2>2. drive \in [Outputs -> {"off", "plc", "gateway"}] /\ cmd.on \in BOOLEAN
        /\ seen["pump"] \in {"?", "on", "off"} /\ drive[v] # "off" /\ v \in Outputs
    BY <1>1, <2>1, PumpTyped, SetFacts DEF Typed, PlantTypes, On
  <2>3. drive' # drive
    BY <1>1, <2>2
  <2>4. CASE ValveWrite
    <3>1. PICK ok \in BOOLEAN : WriteBool(cmd.out, cmd.on, ok)
      BY <2>4 DEF ValveWrite
    <3>2. Driven(v, cmd.on)
      BY <1>1, <2>1, <2>2, <2>3, <3>1, WriteFacts DEF Typed
    <3>3. ~cmd.on
      BY <1>1, <2>2, <3>2 DEF Driven
    <3>4. CASE pc = "close"
      BY <2>1, <3>4 DEF Closing
    <3>5. CASE pc = "apply"
      <4>1. ~own["pump"] /\ seen["pump"] # "on"
        BY <2>4, <3>3, <3>5 DEF ValveWrite, PumpOn
      <4>2. QED
        BY <1>1, <2>1, <2>2, <3>5, <4>1 DEF PumpGuarded, Reads
    <3>6. QED
      BY <1>1, <3>4, <3>5
  <2>5. CASE manPump \/ StopFirst
    <3>1. PICK on \in BOOLEAN, ok \in BOOLEAN : manPumpWrite(on, TRUE, ok)
      BY <2>2, <2>5 DEF manPump, StopFirst
    <3>2. drive'[v] = drive[v]
      BY <1>1, <2>1, <3>1, PumpFacts DEF Typed
    <3>3. QED
      BY <1>1, <2>2, <3>2
  <2>6. CASE Refuse
    BY <2>3, <2>6 DEF Refuse, plant
  <2>7. QED
    BY <1>1, <2>3, <2>4, <2>5, <2>6
       DEF Next, Tick, Environment, TickAway, TickPoll, AutoStop, Verdicts, DeadS4, DeadS5,
           DeadHead, TickEnd, SeqMove, SeqCycle, Take, Reboot, vars, plant
<1>2. IInv /\ [Next]_vars =>
        [\A v \in Valves :
           (pc \in {"apply", "close"} /\ cmd.out = v /\ On(v) /\ drive'[v] = "off"
              /\ pc' = "drain" /\ (~excused \/ seen["pump"] # "?"))
             => drive["pump"] # "gateway"]_vars
  BY <1>1
<1>3. QED
  BY <1>2, Inductive, PTL DEF NeverSealed, Spec
=============================================================================
