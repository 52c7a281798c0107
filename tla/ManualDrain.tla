----------------------------- MODULE ManualDrain -----------------------------
(***************************************************************************)
(* The manual drain of plc_thread.h: valve S4 (vent), valve S5 (suction)   *)
(* and the Lefoo pump, switched from the dashboard under the eyes of a PLC *)
(* whose sequencer drives the same three outputs.                          *)
(*                                                                         *)
(* One tick of the PLC thread is: the valve sweep, the automatic stop, the *)
(* read-back verdicts, the dead-head check, then the commands.  Every      *)
(* write is a round trip: the sequencer moves between any two, a write may *)
(* be refused, and a session may die with the request or only the reply    *)
(* lost.  Time is counted in ticks.                                        *)
(***************************************************************************)
EXTENDS Integers

CONSTANTS
  VerifyTicks,   \* MAN_VERIFY_MS, in ticks
  PumpMaxTicks,  \* MAN_PUMP_MAX_MS, in ticks
  Budget         \* how often each environment event may happen

Events == {"presses", "sequencer", "faults", "unread", "reboots"}

ASSUME TicksAssumption == VerifyTicks \in Nat /\ PumpMaxTicks \in Nat \ {0}
ASSUME BudgetAssumption == Budget \in [Events -> Nat]

VARIABLES
  drive,         \* the PLC's outputs, and who switched each one on
  cycle,         \* whether the sequencer runs a cycle (its action bits)
  conn,          \* eip.connected()
  seen,          \* w.valve / w.valveOk, "?" where the tag was not read
  actionWord,    \* whether w.actionWord # 0
  own,           \* s_manOwnS4, s_manPumpActive, s_manOwnS5
  chk,           \* s_manChk, s_manExpect: "none", or the state expected
  age,           \* ticks since manArm
  pumpAge,       \* ticks since s_manPumpOnMs
  pc, cmd,       \* the step of the tick; the command being applied
  left,          \* what is left of Budget
  excused,       \* ghost: a pump start whose reply was lost, or a reboot
  dead           \* ghost: ticks the gateway's pump ran against a valve seen closed

plant  == <<drive, cycle>>
judge  == <<own, chk, age, pumpAge>>
vars == <<plant, conn, seen, actionWord, judge, pc, cmd, left, excused, dead>>

Valves  == {"S4", "S5"}
Outputs == Valves \cup {"pump"}
Steps == {"top", "autoStop", "verdicts", "deadS4", "deadS5", "drain", "apply", "close"}
NoCmd == [out |-> "S4", on |-> FALSE]

On(i) == drive[i] # "off"

Spend(e) == left[e] > 0 /\ left' = [left EXCEPT ![e] = @ - 1]

-----------------------------------------------------------------------------
(* One write: taken, refused, or lost with the session.                    *)

Driven(i, on) ==
  drive' = [drive EXCEPT ![i] = IF on THEN "gateway" ELSE "off"]

\* conn is checked before every command, but not before every write.
WriteBool(i, on, ok) ==
  \/ ok /\ conn /\ Driven(i, on) /\ UNCHANGED <<conn, left, excused>>
  \/ ~ok /\ ~conn /\ UNCHANGED <<drive, conn, left, excused>>
  \/ ~ok /\ conn /\ Spend("faults") /\ conn' \in BOOLEAN /\ UNCHANGED <<drive, excused>>
  \/ ~ok /\ conn /\ Spend("faults") /\ conn' = FALSE /\ Driven(i, on)
     /\ excused' = (excused \/ (i = "pump" /\ on))

\* Mutant: the verdict is due a tick later than MAN_VERIFY_MS says.
manArmLate(i, on) ==
  /\ chk' = [chk EXCEPT ![i] = IF on THEN "on" ELSE "off"]
  /\ age' = [age EXCEPT ![i] = -1]

manArm(i, on) ==
  /\ chk' = [chk EXCEPT ![i] = IF on THEN "on" ELSE "off"]
  /\ age' = [age EXCEPT ![i] = 0]

\* What manPumpWrite does once the write is answered.
PumpWritten(on, ok, arm) ==
  /\ IF ok /\ arm THEN manArm("pump", on) ELSE UNCHANGED <<chk, age>>
  /\ own' = IF ok THEN [own EXCEPT !["pump"] = on] ELSE own
  /\ pumpAge' = IF ok THEN 0 ELSE pumpAge

\* Mutant: ownership follows the request, not the answer.
manPumpWriteTrusting(on, arm, ok) ==
  /\ WriteBool("pump", on, ok)
  /\ PumpWritten(on, TRUE, arm)

manPumpWrite(on, arm, ok) ==
  /\ WriteBool("pump", on, ok)
  /\ PumpWritten(on, ok, arm)

-----------------------------------------------------------------------------
(* The sequencer, and a reset of the gateway.                              *)

\* The sequencer starts or ends a cycle, or moves one output.
SeqCycle ==
  /\ Spend("sequencer")
  /\ cycle' = ~cycle
  /\ UNCHANGED <<drive, conn, seen, actionWord, judge, pc, cmd, excused, dead>>

SeqMove(i) ==
  /\ Spend("sequencer")
  /\ drive' = [drive EXCEPT ![i] = IF @ = "off" THEN "plc" ELSE "off"]
  /\ UNCHANGED <<cycle, conn, seen, actionWord, judge, pc, cmd, excused, dead>>

Reboot ==
  /\ Spend("reboots")
  /\ conn' = FALSE
  /\ seen' = [i \in Outputs |-> "?"] /\ actionWord' = FALSE
  /\ own' = [i \in Outputs |-> FALSE] /\ chk' = [i \in Outputs |-> "none"]
  /\ age' = [i \in Outputs |-> 0] /\ pumpAge' = 0
  /\ pc' = "top" /\ cmd' = NoCmd
  /\ excused' = TRUE /\ dead' = 0
  /\ UNCHANGED plant

-----------------------------------------------------------------------------
(* The tick.                                                               *)

\* manDisarm keeps the pump's ownership and its start time.
TickAway ==
  /\ pc = "top" /\ ~conn
  /\ conn' \in BOOLEAN
  /\ seen' = [i \in Outputs |-> "?"]
  /\ chk' = [i \in Outputs |-> "none"] /\ age' = [i \in Outputs |-> 0]
  /\ pumpAge' = IF own["pump"] /\ pumpAge < PumpMaxTicks THEN pumpAge + 1 ELSE pumpAge
  /\ dead' = 0
  /\ UNCHANGED <<plant, actionWord, own, pc, cmd, left, excused>>

\* Unread action bits count as clear.
Sweep(unread) ==
  /\ seen' = [i \in Outputs |-> IF i \in unread THEN "?" ELSE IF On(i) THEN "on" ELSE "off"]
  /\ actionWord' \in {actionWord, IF "action" \in unread THEN FALSE ELSE cycle}

\* All tags answer, or all but one, or the session fails: in the sensor sweep,
\* which skips the rest, in the valve sweep, or after it.
TickPoll ==
  /\ pc = "top" /\ conn
  /\ \/ Sweep({}) /\ pc' = "autoStop" /\ UNCHANGED <<conn, left>>
     \/ \E i \in Outputs \cup {"action"} : Sweep({i}) /\ Spend("unread")
        /\ pc' = "autoStop" /\ UNCHANGED conn
     \/ conn' = FALSE /\ Spend("faults")
        /\ \/ Sweep({"action"}) /\ pc' = "autoStop"
           \/ Sweep(Outputs \cup {"action"}) /\ pc' = "autoStop"
           \/ UNCHANGED <<seen, actionWord>> /\ pc' = "drain"
  /\ UNCHANGED <<plant, judge, cmd, excused, dead>>

PumpStop(next) ==
  /\ \E ok \in BOOLEAN : manPumpWrite(FALSE, FALSE, ok)
  /\ pc' = next

Late == pumpAge >= PumpMaxTicks

\* Mutant: only the level stops the pump.
AutoStopLevel ==
  /\ pc = "autoStop"
  /\ \/ own["pump"] /\ PumpStop("verdicts")
     \/ pc' = "verdicts" /\ UNCHANGED <<drive, conn, judge, left, excused>>
  /\ UNCHANGED <<cycle, seen, actionWord, cmd, dead>>

\* manualTick: level 18 (any tick may read it) or 180 s.
AutoStop ==
  /\ pc = "autoStop"
  /\ \/ own["pump"] /\ PumpStop("verdicts")
     \/ ~(own["pump"] /\ Late) /\ pc' = "verdicts"
        /\ UNCHANGED <<drive, conn, judge, left, excused>>
  /\ UNCHANGED <<cycle, seen, actionWord, cmd, dead>>

\* Verdicts that are due, then ownership that the PLC has taken back.
Due(i) == chk[i] # "none" /\ age[i] > VerifyTicks

Verdicts ==
  /\ pc = "verdicts"
  /\ chk' = [i \in Outputs |-> IF Due(i) THEN "none" ELSE chk[i]]
  /\ age' = [i \in Outputs |-> IF Due(i) THEN 0 ELSE age[i]]
  /\ own' = [i \in Outputs |->
               /\ own[i]
               /\ ~(Due(i) /\ seen[i] # "?" /\ seen[i] # chk[i])
               /\ ~(chk'[i] = "none" /\ seen[i] = "off")]
  /\ pc' = "deadS4"
  /\ UNCHANGED <<plant, conn, seen, actionWord, pumpAge, cmd, left, excused, dead>>

\* Mutant: only a valve the gateway opened itself is watched.
DeadHeadOwned(i, at, next) ==
  /\ pc = at
  /\ IF own["pump"] /\ own[i] /\ chk[i] = "none" /\ seen[i] = "off"
     THEN PumpStop(next)
     ELSE pc' = next /\ UNCHANGED <<drive, conn, judge, left, excused>>
  /\ UNCHANGED <<cycle, seen, actionWord, cmd, dead>>

DeadHead(i, at, next) ==
  /\ pc = at
  /\ IF own["pump"] /\ chk[i] = "none" /\ seen[i] = "off"
     THEN PumpStop(next)
     ELSE pc' = next /\ UNCHANGED <<drive, conn, judge, left, excused>>
  /\ UNCHANGED <<cycle, seen, actionWord, cmd, dead>>

DeadS4 == DeadHead("S4", "deadS4", "deadS5")
DeadS5 == DeadHead("S5", "deadS5", "drain")

\* Ghost: the gateway's pump stands against a valve the sweep saw closed.
Starving == drive["pump"] = "gateway" /\ \E v \in Valves : ~On(v) /\ seen[v] = "off"

\* lacoTick, the water pass and the flow watch do not touch these outputs.
TickEnd ==
  /\ pc = "drain"
  /\ pc' = "top"
  /\ age' = [i \in Outputs |-> IF chk[i] # "none" /\ age[i] <= VerifyTicks
                               THEN age[i] + 1 ELSE age[i]]
  /\ pumpAge' = IF own["pump"] /\ pumpAge < PumpMaxTicks THEN pumpAge + 1 ELSE pumpAge
  /\ dead' = IF Starving /\ ~excused /\ conn THEN dead + 1 ELSE 0
  /\ seen' = [i \in Outputs |-> "?"]
  /\ UNCHANGED <<plant, conn, actionWord, own, chk, cmd, left, excused>>

-----------------------------------------------------------------------------
(* The commands, drained at the end of a connected tick.                   *)

Take(i, on) ==
  /\ pc = "drain" /\ conn
  /\ Spend("presses")
  /\ cmd' = [out |-> i, on |-> on]
  /\ pc' = "apply"
  /\ UNCHANGED <<plant, conn, seen, actionWord, judge, excused, dead>>

Done == pc' = "drain" /\ cmd' = NoCmd

\* An output the gateway does not own is not switched off from the dashboard.
Refused ==
  IF cmd.on THEN \/ actionWord
                 \/ cmd.out = "pump" /\ \E v \in Valves : seen[v] # "on"
            ELSE ~own[cmd.out]

Refuse ==
  /\ pc = "apply" /\ Refused
  /\ Done
  /\ UNCHANGED <<plant, conn, seen, actionWord, judge, left, excused, dead>>

manPump ==
  /\ pc = "apply" /\ ~Refused /\ cmd.out = "pump"
  /\ \E ok \in BOOLEAN : manPumpWrite(cmd.on, TRUE, ok)
  /\ Done
  /\ UNCHANGED <<cycle, seen, actionWord, dead>>

PumpOn == own["pump"] \/ seen["pump"] = "on"

\* Mutant: a pump that could not be stopped does not keep the valve open.
StopFirstAnyway ==
  /\ pc = "apply" /\ ~Refused /\ cmd.out \in Valves
  /\ ~cmd.on /\ PumpOn
  /\ \E ok \in BOOLEAN : manPumpWrite(FALSE, TRUE, ok)
  /\ pc' = "close" /\ UNCHANGED cmd
  /\ UNCHANGED <<cycle, seen, actionWord, dead>>

\* manS4, manS5, first half: a valve is closed on a stopped pump only.
StopFirst ==
  /\ pc = "apply" /\ ~Refused /\ cmd.out \in Valves
  /\ ~cmd.on /\ PumpOn
  /\ \E ok \in BOOLEAN :
       /\ manPumpWrite(FALSE, TRUE, ok)
       /\ IF ok THEN pc' = "close" /\ UNCHANGED cmd ELSE Done
  /\ UNCHANGED <<cycle, seen, actionWord, dead>>

\* manS4, manS5, second half: the valve itself.
ValveWrite ==
  /\ \/ pc = "close"
     \/ pc = "apply" /\ ~Refused /\ cmd.out \in Valves /\ (cmd.on \/ ~PumpOn)
  /\ \E ok \in BOOLEAN :
       /\ WriteBool(cmd.out, cmd.on, ok)
       /\ IF ok THEN manArm(cmd.out, cmd.on) /\ own' = [own EXCEPT ![cmd.out] = cmd.on]
                ELSE UNCHANGED <<chk, age, own>>
  /\ Done /\ dead' = 0
  /\ UNCHANGED <<cycle, seen, actionWord, pumpAge>>

-----------------------------------------------------------------------------
Init ==
  /\ drive \in [Outputs -> {"off", "plc"}] /\ cycle \in BOOLEAN
  /\ conn = FALSE
  /\ seen = [i \in Outputs |-> "?"] /\ actionWord = FALSE
  /\ own = [i \in Outputs |-> FALSE] /\ chk = [i \in Outputs |-> "none"]
  /\ age = [i \in Outputs |-> 0] /\ pumpAge = 0
  /\ pc = "top" /\ cmd = NoCmd
  /\ left = Budget /\ excused = FALSE /\ dead = 0

Tick ==
  \/ TickAway \/ TickPoll \/ AutoStop \/ Verdicts \/ DeadS4 \/ DeadS5
  \/ Refuse \/ manPump \/ StopFirst \/ ValveWrite \/ TickEnd

Environment ==
  \/ \E i \in Outputs : SeqMove(i) \/ (\E on \in BOOLEAN : Take(i, on))
  \/ SeqCycle \/ Reboot

Next == Tick \/ Environment

Spec == Init /\ [][Next]_vars

\* The thread loops for ever, and a reconnect that keeps being tried succeeds.
FairSpec == Spec /\ WF_vars(Tick) /\ WF_vars(TickAway /\ conn')

-----------------------------------------------------------------------------
TypeOK ==
  /\ drive \in [Outputs -> {"off", "plc", "gateway"}] /\ cycle \in BOOLEAN
  /\ conn \in BOOLEAN
  /\ seen \in [Outputs -> {"?", "on", "off"}] /\ actionWord \in BOOLEAN
  /\ own \in [Outputs -> BOOLEAN] /\ chk \in [Outputs -> {"none", "on", "off"}]
  /\ age \in [Outputs -> 0..(VerifyTicks + 1)] /\ pumpAge \in 0..PumpMaxTicks
  /\ pc \in Steps /\ cmd \in [out : Outputs, on : BOOLEAN]
  /\ left \in [Events -> Nat] /\ excused \in BOOLEAN /\ dead \in Nat

(***************************************************************************)
(* A pump that the gateway started has its stop armed, through refused     *)
(* stops, lost replies to stops, unread tags, verdicts and reconnects: the *)
(* gateway forgets the pump only when the PLC has it off.  Excused: a lost *)
(* reply to the start itself, and a reboot.                                *)
(***************************************************************************)
PumpGuarded == (drive["pump"] = "gateway" /\ ~excused) => own["pump"]

(***************************************************************************)
(* The gateway never closes the vent or the suction on the pump it runs    *)
(* ("never seal the collector on a running pump"), be the valve closed by  *)
(* command while the pump's stop is refused, lost or overtaken.  A pump    *)
(* whose start was never confirmed, or that a reboot made the gateway      *)
(* forget, is still known by its read-back.                                *)
(***************************************************************************)
NeverSealed ==
  [][\A v \in Valves :
       (pc \in {"apply", "close"} /\ cmd.out = v /\ On(v) /\ drive'[v] = "off"
          /\ pc' = "drain" /\ (~excused \/ seen["pump"] # "?"))
         => drive["pump"] # "gateway"]_vars

(***************************************************************************)
(* A pump against a valve that anyone closed is stopped, once a sweep has  *)
(* shown the valve closed, within the window of a read-back verdict,       *)
(* refused writes apart ("stops the pump at once", plc_thread.h, beside    *)
(* the dead-head check).                                                   *)
(***************************************************************************)
DeadHeadBounded ==
  ~excused => dead <= VerifyTicks + 1 + (Budget["faults"] - left["faults"])

(***************************************************************************)
(* A manual pump always comes to a stop: by level, by time, by a closed    *)
(* valve or by the operator, whatever sessions drop in between.            *)
(***************************************************************************)
PumpStops == (drive["pump"] = "gateway" /\ ~excused) ~> (drive["pump"] # "gateway" \/ excused)

(***************************************************************************)
(* Claimed above manualTick, and false: the pump the dashboard started     *)
(* stops itself at level 18 or after 180 s.  When the reply to the start   *)
(* is lost, the pump runs and nobody owns it.                              *)
(***************************************************************************)
AlwaysGuarded == drive["pump"] = "gateway" => own["pump"]
=============================================================================
