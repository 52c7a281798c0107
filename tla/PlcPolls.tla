------------------------------ MODULE PlcPolls -------------------------------
(***************************************************************************)
(* What the PLC thread learns from the controller: the reconnect with its  *)
(* back-off, the round trips of one session (EtherNetIP.cpp), the sensor   *)
(* and valve sweeps, the fault clear with its read-back, and the watch     *)
(* over the discharges (flow_watch.h).                                     *)
(*                                                                         *)
(* One tag stands for each kind the judgements read: the tank's level, the *)
(* condensate pump and one fault bit, the last two in different requests   *)
(* of one sweep.  Time is counted in sample periods: one goes by between   *)
(* two rounds of the loop, more where a round trip drags.  Manual drain,   *)
(* door jobs and water accounting, which share the loop, have modules of   *)
(* their own; a command is taken here once its gates are passed.           *)
(***************************************************************************)
EXTENDS Integers, Sequences

CONSTANTS
  WaitFirst, WaitMax,   \* RECONNECT_BACKOFF_MS, RECONNECT_BACKOFF_MAX_MS
  Verify, VerifyStale,  \* CLEAR_VERIFY_MS, CLEAR_VERIFY_STALE_MS
  Hold,                 \* CLEAR_HOLD_MS
  PumpMin, PumpMax,     \* FLOW_WATCH_PUMP_MIN_MS, FLOW_WATCH_PUMP_MAX_MS
  Settle, Latch,        \* FLOW_WATCH_SETTLE_MS, FLOW_WATCH_LATCH_MS
  Budget                \* how often each event may happen

Events == {"plant", "faults", "commands"}

ASSUME PeriodsAssumption ==
  /\ {WaitFirst, WaitMax, Verify, VerifyStale, Hold, PumpMin, PumpMax, Settle, Latch}
       \subseteq Nat \ {0}
  /\ WaitFirst <= WaitMax /\ PumpMin < PumpMax
ASSUME BudgetAssumption == Budget \in [Events -> Nat]

VARIABLES
  up,                  \* a controller listens at the address and answers
  real,                \* what its tags hold
  session, wire,       \* _session; the replies on the way to it
  plcConnected, read,  \* w: plcConnected; sensor[] and valve[], Nothing where unread
  lastError,           \* w.lastError
  pc,                  \* the step of the loop
  wait, since,         \* reconnectWait; since lastReconnect
  pending, clearAge,   \* s_clearPending; since the write that armed it
  sweepAge,            \* since s_valveSweepStartMs, inside a sweep
  said, saidAge,       \* s_clearText while s_clearTextOn, "ok" if not; its age
  fwState, fwAge,      \* s_fwState; since its start or the pump's stop
  fwLong, fwLevel,     \* the pump ran long enough; s_fwLevelStart
  flowed,              \* enough pulses since s_fwPulsesStart
  prev,                \* s_fwPrevPump, "unread" if not s_fwPrevValid
  latched, latchAge,   \* s_fwLatched; its age
  left,                \* what is left of Budget
  crossed,             \* ghost: a session ended since the clear that is pending
  asked,               \* ghost: this tick's request for the pump is "unread" till answered,
                       \* then "read", or "skipped" with a session lost before its turn
  gap                  \* ghost: a past tick of the watched discharge did not read the pump

world   == <<up, real>>
eip     == <<session, wire>>
w       == <<plcConnected, read>>
retry   == <<wait, since>>
clear   == <<pending, clearAge, sweepAge, said, saidAge>>
watch   == <<fwState, fwAge, fwLong, fwLevel, flowed, prev, latched, latchAge>>
seen    == <<crossed, asked, gap>>
vars == <<world, eip, w, lastError, pc, retry, clear, watch, left, seen>>

Tags == {"level", "pump", "fault"}
Valves == {"pump", "fault"}
Smaller(a, b) == IF a < b THEN a ELSE b
Spend(e) == left[e] > 0 /\ left' = [left EXCEPT ![e] = @ - 1]
Goes(from, to) == pc = from /\ pc' = to

-----------------------------------------------------------------------------
(* The plant.  The level is high or low: what falls from one to the other  *)
(* is the drop the watch looks for.  A level that is no number judges      *)
(* nothing, as a smaller drop does.  What changes, changes before a step   *)
(* that can see it.                                                        *)

Sees == {"top", "valves", "fault", "drain"}

Plant ==
  /\ pc \in Sees /\ Spend("plant")
  /\ \/ up' = ~up /\ UNCHANGED real
     \/ \E t \in Tags : real' = [real EXCEPT ![t] = ~@] /\ UNCHANGED up
  /\ UNCHANGED <<eip, w, lastError, pc, retry, clear, watch, seen>>

\* Water goes past the meter, which is wired to the board.
WaterPasses ==
  /\ pc = "watch" /\ fwState # "idle" /\ ~flowed /\ flowed' = TRUE
  /\ UNCHANGED <<world, eip, w, lastError, pc, retry, clear, fwState, fwAge, fwLong, fwLevel,
                 prev, latched, latchAge, left, seen>>

Elapse ==
  /\ since' = Smaller(since + 1, WaitMax)
  /\ clearAge' = IF pending THEN Smaller(clearAge + 1, Verify + VerifyStale + 1) ELSE 0
  /\ sweepAge' = IF pc \in {"fault", "verify"} THEN sweepAge + 1 ELSE 0
  /\ saidAge' = IF said = "ok" THEN 0 ELSE Smaller(saidAge + 1, Hold)
  /\ fwAge' = IF fwState = "idle" THEN 0 ELSE Smaller(fwAge + 1, PumpMax + Settle)
  /\ latchAge' = IF latched THEN Smaller(latchAge + 1, Latch) ELSE 0
  /\ UNCHANGED <<world, eip, w, lastError, wait, pending, said, fwState, fwLong, fwLevel,
                 flowed, prev, latched, seen>>

Drags == pc \in {"valves", "fault", "verify", "watch"} /\ Spend("faults") /\ Elapse /\ UNCHANGED pc
Sleeps == Goes("sleep", "top") /\ Elapse /\ UNCHANGED left

-----------------------------------------------------------------------------
(* Round trips.                                                            *)

\* A reply: the value, and (ghosts) how old the last clear was, and whether a session
\* had ended since, when the fault bit was read.
Answer(tag) == [tag |-> tag, val |-> real[tag],
                age |-> IF tag = "fault" THEN clearAge ELSE 0, crossed |-> tag = "fault" /\ crossed]
Nothing == [tag |-> "none", val |-> FALSE, age |-> 0, crossed |-> FALSE]

\* Mutant: the session is kept, and the late reply is still on its way.
TimedOutKept(reply) == wire' = Append(wire, reply) /\ UNCHANGED session

\* sendRRData: every early return once the request is out drops the session.
TimedOut(reply) == wire' = <<>> /\ session' = FALSE

\* One request and what is taken for its answer.  The reply carries no name: it is
\* the first that comes.  An error or a malformed item is read to its end.
Trip(reply, got) ==
  /\ \/ ~session /\ got = Nothing /\ UNCHANGED <<eip, left>>
     \/ /\ session /\ up
        /\ got = Head(Append(wire, reply)) /\ wire' = Tail(Append(wire, reply))
        /\ UNCHANGED <<session, left>>
     \/ session /\ up /\ Spend("faults") /\ got = Nothing /\ UNCHANGED eip
     \/ session /\ up /\ Spend("faults") /\ got = Nothing /\ TimedOut(reply)
     \/ session /\ ~up /\ got = Nothing /\ session' = FALSE /\ wire' = <<>> /\ UNCHANGED left
  /\ crossed' = (pending /\ (crossed \/ ~session'))

Comes(reply) == {Nothing, Head(Append(wire, reply))}

\* The transport notices by itself that the controller is gone.
Closes ==
  /\ pc \in Sees /\ session /\ ~up
  /\ session' = FALSE /\ wire' = <<>> /\ crossed' = pending
  /\ UNCHANGED <<world, w, lastError, pc, retry, clear, watch, left, asked, gap>>

-----------------------------------------------------------------------------
(* The loop without a session.                                             *)

Due == since >= wait

\* Mutant: the clock restarts with every look at it.
SinceAfterLook == 0

SinceAfter == IF Due THEN 0 ELSE since

\* Mutant: the wait doubles without end.
Doubled == 2 * wait

Longer == Smaller(2 * wait, WaitMax)

\* plcProbe, then begin: a controller that listens may still refuse.
Connects == Due /\ up
Knock(joined) ==
  /\ joined => Connects
  /\ session' = joined /\ plcConnected' = joined /\ wire' = <<>>
  /\ wait' = IF joined THEN WaitFirst ELSE IF Due THEN Longer ELSE wait
  /\ since' = SinceAfter

\* The text the attempt leaves; begin() that fails leaves none.
Told(joined) == IF joined THEN "ok" ELSE IF Due /\ ~up THEN "not listening" ELSE lastError

\* A tick without a session disarms the read-back, tries to connect when the wait is
\* over, and drops what is in the mailbox.
Reconnect ==
  /\ Goes("top", "watch") /\ ~session
  /\ read' = [t \in Tags |-> Nothing]
  /\ pending' = FALSE /\ UNCHANGED <<clearAge, sweepAge, said, saidAge>>
  /\ \E joined \in BOOLEAN :
       /\ Knock(joined)
       /\ \/ /\ Connects /\ ~joined /\ Spend("faults")
             /\ lastError' \in {Told(joined), "offline"}
          \/ /\ Connects => joined
             /\ \/ lastError' = Told(joined) /\ UNCHANGED left
                \/ lastError' = "offline" /\ Spend("commands")
  /\ UNCHANGED <<world, watch, seen>>

-----------------------------------------------------------------------------
(* The loop with a session.                                                *)

\* The reply goes to the slot it was asked for; a sweep has forgotten the others.
Takes(tag, got, others) ==
  read' = [t \in Tags |-> IF t = tag THEN got ELSE IF t \in others THEN Nothing ELSE read[t]]

\* pollSensorsInto: another sensor may go unread with the level answered; with all of
\* them unread the session is dropped.
PollSensors ==
  /\ pc = "top" /\ session
  /\ LET reply == Answer("level") IN
     \E got \in Comes(reply) :
       /\ Takes("level", got, {})
       /\ \/ /\ Trip(reply, got)
             /\ lastError' = IF got = Nothing THEN "read fail" ELSE "ok"
             /\ plcConnected' = (plcConnected \/ got # Nothing)
          \/ /\ up /\ got # Nothing /\ wire = <<>> /\ Spend("faults")
             /\ UNCHANGED eip \/ TimedOut(reply)
             /\ crossed' = (pending /\ (crossed \/ ~session'))
             /\ lastError' = "read fail" /\ UNCHANGED plcConnected
          \/ /\ got = Nothing
             /\ IF up THEN Spend("faults") ELSE UNCHANGED left
             /\ session' = FALSE /\ wire' = <<>> /\ crossed' = pending
             /\ lastError' = "read fail" /\ plcConnected' = FALSE
  /\ pc' = IF session' THEN "valves" ELSE "drain"
  /\ asked' = IF session' THEN asked ELSE "skipped"
  /\ UNCHANGED <<world, retry, clear, watch, gap>>

PollPump ==
  /\ Goes("valves", "fault")
  /\ sweepAge' = 0
  /\ LET reply == Answer("pump") IN
     \E got \in Comes(reply) :
       /\ Trip(reply, got) /\ Takes("pump", got, Valves)
       /\ asked' = IF got = Nothing THEN "unread" ELSE "read"
  /\ UNCHANGED <<world, plcConnected, lastError, retry, pending, clearAge, said, saidAge,
                 watch, gap>>

PollFault ==
  /\ Goes("fault", "verify")
  /\ LET reply == Answer("fault") IN
     \E got \in Comes(reply) : Trip(reply, got) /\ Takes("fault", got, {})
  /\ UNCHANGED <<world, plcConnected, lastError, retry, clear, watch, asked, gap>>

\* Mutant: a sweep counts whenever it ends after the due time.
EndedAfterDue == clearAge >= Verify

\* The sweep began when the write was old enough.
BeganAfterDue == clearAge - sweepAge >= Verify

ClearSays == IF clearAge > Verify + VerifyStale \/ read["fault"] = Nothing THEN "unverified"
             ELSE IF read["fault"].val THEN "re-asserted" ELSE "confirmed"

\* clearVerifyTick: the verdict, and the latched text over an "ok".
clearVerifyTick ==
  /\ Goes("verify", "drain")
  /\ IF pending /\ BeganAfterDue
     THEN /\ pending' = FALSE /\ said' = ClearSays /\ saidAge' = 0 /\ lastError' = ClearSays
     ELSE /\ said' = IF saidAge >= Hold THEN "ok" ELSE said
          /\ lastError' = IF lastError = "ok" THEN said' ELSE lastError
          /\ UNCHANGED <<pending, saidAge>>
  /\ UNCHANGED <<world, eip, w, retry, clearAge, sweepAge, watch, left, seen>>

\* clearFault: the reply to a write is known by its service.  A write that timed out
\* may have been carried out.
clearFault ==
  /\ pc = "drain" /\ session /\ Spend("commands")
  /\ \/ /\ up /\ wire = <<>>
        /\ UNCHANGED <<eip, up>> /\ real' = [real EXCEPT !["fault"] = FALSE]
        /\ pending' = TRUE /\ clearAge' = 0 /\ crossed' = FALSE
        /\ said' = "cleared"
     \/ /\ up /\ UNCHANGED <<eip, world, crossed>>
        /\ said' = "write failed" /\ UNCHANGED <<pending, clearAge>>
     \/ /\ session' = FALSE /\ wire' = <<>> /\ crossed' = pending /\ UNCHANGED up
        /\ real' \in {real, IF up THEN [real EXCEPT !["fault"] = FALSE] ELSE real}
        /\ said' = "write failed" /\ UNCHANGED <<pending, clearAge>>
  /\ lastError' = said' /\ saidAge' = 0
  /\ UNCHANGED <<w, pc, retry, sweepAge, watch, asked, gap>>

\* A command found after the session was lost in this very tick is refused.
Refuses ==
  /\ pc = "drain" /\ ~session /\ Spend("commands")
  /\ lastError' = "offline"
  /\ UNCHANGED <<world, eip, w, pc, retry, clear, watch, seen>>

Drained ==
  /\ Goes("drain", "watch")
  /\ UNCHANGED <<world, eip, w, lastError, retry, clear, watch, left, seen>>

-----------------------------------------------------------------------------
(* The watch over a discharge, at the end of every tick.                   *)

PumpOk == plcConnected /\ read["pump"] # Nothing
LevelOk == read["level"] # Nothing
PumpOn == PumpOk /\ read["pump"].val
Fell == fwLevel /\ ~read["level"].val

Starts == fwState = "idle" /\ prev = "off" /\ PumpOn /\ LevelOk

\* Mutant: the watch goes on over an unread pump once it has stopped.
GivesUpWhilePumping == fwState = "pumping" /\ (~PumpOk \/ (PumpOn /\ fwAge > PumpMax))

GivesUp == \/ fwState # "idle" /\ ~PumpOk
           \/ fwState = "pumping" /\ PumpOn /\ fwAge > PumpMax
Stops == fwState = "pumping" /\ PumpOk /\ ~PumpOn
Ends == fwState = "settling" /\ ~GivesUp /\ fwAge >= Settle
Judges == Ends /\ LevelOk /\ fwLong /\ Fell

Mismatch == Judges /\ ~flowed
Released == (Judges /\ flowed) \/ (~Mismatch /\ latchAge >= Latch)

\* flowWatchRelease: the latch takes its text back.
TextTakenBack == IF lastError = "flow" THEN "ok" ELSE lastError

WatchMoves ==
  \/ Starts /\ fwState' = "pumping" /\ fwAge' = 0 /\ fwLevel' = read["level"].val
            /\ flowed' = FALSE /\ fwLong' = FALSE
  \/ (GivesUp \/ Ends) /\ fwState' = "idle" /\ fwAge' = 0
                       /\ fwLevel' = FALSE /\ flowed' = FALSE /\ fwLong' = FALSE
  \/ Stops /\ fwState' = "settling" /\ fwAge' = 0 /\ fwLong' = (fwAge >= PumpMin)
           /\ UNCHANGED <<fwLevel, flowed>>
  \/ ~(Starts \/ GivesUp \/ Ends \/ Stops) /\ UNCHANGED <<fwState, fwAge, fwLong, fwLevel, flowed>>

flowWatchTick ==
  /\ Goes("watch", "sleep")
  /\ WatchMoves
  /\ prev' = IF ~PumpOk THEN "unread" ELSE IF PumpOn THEN "on" ELSE "off"
  /\ latched' = (Mismatch \/ (latched /\ ~Released))
  /\ latchAge' = IF Mismatch \/ ~latched' THEN 0 ELSE latchAge
  /\ lastError' = IF latched /\ Released THEN TextTakenBack
                  ELSE IF latched' /\ lastError = "ok" THEN "flow" ELSE lastError
  /\ gap' = (fwState' # "idle" /\ ~Starts /\ (gap \/ asked # "read"))
  /\ asked' = "unread"
  /\ UNCHANGED <<world, eip, w, retry, clear, left, crossed>>

-----------------------------------------------------------------------------
Init ==
  /\ up = TRUE /\ real = [t \in Tags |-> t # "pump"]
  /\ session = FALSE /\ wire = <<>>
  /\ plcConnected = FALSE /\ read = [t \in Tags |-> Nothing]
  /\ lastError = "ok" /\ pc = "top"
  /\ wait = WaitFirst /\ since = 0
  /\ pending = FALSE /\ clearAge = 0 /\ sweepAge = 0 /\ said = "ok" /\ saidAge = 0
  /\ fwState = "idle" /\ fwAge = 0 /\ fwLong = FALSE /\ fwLevel = FALSE /\ flowed = FALSE
  /\ prev = "unread" /\ latched = FALSE /\ latchAge = 0
  /\ left = Budget
  /\ crossed = FALSE /\ asked = "unread" /\ gap = FALSE

Thread ==
  \/ Reconnect \/ PollSensors \/ PollPump \/ PollFault \/ clearVerifyTick
  \/ clearFault \/ Refuses \/ Drained \/ flowWatchTick \/ Sleeps

Next == Thread \/ Plant \/ WaterPasses \/ Closes \/ Drags
Spec == Init /\ [][Next]_vars

\* The loop of the thread goes on for ever; nothing else is owed.
FairSpec == Spec /\ WF_vars(Thread)

-----------------------------------------------------------------------------
Replies == [tag : Tags \cup {"none"}, val : BOOLEAN, age : 0..Verify + VerifyStale + 1,
            crossed : BOOLEAN]

Texts == {"ok", "cleared", "write failed", "confirmed", "re-asserted", "unverified"}

WorldTypes ==
  /\ up \in BOOLEAN /\ real \in [Tags -> BOOLEAN] /\ left \in [Events -> Nat]
  /\ crossed \in BOOLEAN /\ asked \in {"read", "unread", "skipped"} /\ gap \in BOOLEAN
LinkTypes ==
  /\ session \in BOOLEAN /\ plcConnected \in BOOLEAN
  /\ wait \in WaitFirst..WaitMax /\ since \in 0..WaitMax
  /\ lastError \in Texts \cup {"read fail", "not listening", "offline", "flow"}
  /\ pc \in {"top", "valves", "fault", "verify", "drain", "watch", "sleep"}
ReadTypes == read \in [Tags -> Replies] /\ wire \in Seq(Replies)
ClearTypes ==
  /\ pending \in BOOLEAN /\ clearAge \in 0..Verify + VerifyStale + 1 /\ sweepAge \in Nat
  /\ said \in Texts /\ saidAge \in 0..Hold
WatchTypes ==
  /\ fwState \in {"idle", "pumping", "settling"} /\ fwAge \in 0..PumpMax + Settle
  /\ fwLong \in BOOLEAN /\ fwLevel \in BOOLEAN /\ flowed \in BOOLEAN
  /\ prev \in {"unread", "on", "off"}
  /\ latched \in BOOLEAN /\ latchAge \in 0..Latch
TypeOK == WorldTypes /\ LinkTypes /\ ReadTypes /\ ClearTypes /\ WatchTypes

\* What stands in a slot is an answer to the request for that slot, however late
\* replies come: a session that lost one is never asked again.
AnswersMatch == \A t \in Tags : read[t].tag \in {t, "none"}

\* A fault is said confirmed or re-asserted on a bit the controller held when the clear
\* was old enough, in the session that wrote it.
ClearVerdictEarned ==
  [][pc = "verify" /\ pending /\ said' \in {"confirmed", "re-asserted"} /\ ~pending'
     => read["fault"].age >= Verify /\ ~read["fault"].crossed]_vars

\* The pump's start and stop are taken from its answer in the very tick, and a mismatch
\* is latched over no discharge of which a tick failed to read the pump, but for the tick
\* that judges it: that one may have lost its session before the pump's turn came.  The
\* text is published while it is latched only, however a session ends.
FlowFaultEarned ==
  [][pc = "watch" =>
       /\ fwState' \notin {fwState, "idle"} => asked = "read"
       /\ latched' /\ ~latched => ~gap /\ asked # "unread" /\ ~flowed
       /\ lastError' = "flow" => latched']_vars

\* What the comments claim without that exception: the slots are this tick's when the
\* watch judges them, and only a tick that read the pump counts.
JudgedWhenRead == [][pc = "watch" /\ latched' /\ ~latched => asked = "read"]_vars

\* A controller that is there and stays is found again.
Reconnects == up ~> (session \/ ~up)
=============================================================================
