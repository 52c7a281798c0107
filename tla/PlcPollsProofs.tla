---------------------------- MODULE PlcPollsProofs -----------------------------
(***************************************************************************)
(* Proofs about PlcPolls: type correctness, that every answer is taken for *)
(* the question it belongs to, that the verdict over a fault clear and the *)
(* verdict over a discharge are earned, for all periods and budgets.       *)
(***************************************************************************)
EXTENDS PlcPolls, TLAPS

(* Nothing is ever left on the way to a session, and every variable keeps  *)
(* its type.                                                               *)
Quiet == TypeOK /\ wire = <<>>

(* While a session lasts, it is the one the pending clear was written in.  *)
SameSession == session /\ pending => ~crossed

(* A fault bit that is about to be judged is no older than its sweep.      *)
FaultFresh ==
  pc = "verify" /\ pending /\ read["fault"] # Nothing
    => read["fault"].age >= clearAge - sweepAge /\ ~read["fault"].crossed

(* What the watch remembers of the pump is what stands in its slot.        *)
Remembered ==
  /\ prev = "off" => read["pump"] # Nothing /\ ~read["pump"].val
  /\ fwState = "pumping" => read["pump"] # Nothing /\ read["pump"].val

(* What the slot holds, by what became of this tick's request: nothing     *)
(* where it was not answered, and what the last tick left in it where the  *)
(* session went before it was its turn.                                    *)
SlotOK ==
  /\ pc \in {"sleep", "top"} => Remembered
  /\ pc \in {"sleep", "top", "valves"} => asked = "unread"
  /\ pc \in {"fault", "verify"} => asked # "skipped"
  /\ pc \in {"drain", "watch"} /\ asked = "skipped" => ~session /\ Remembered
  /\ pc \in {"fault", "verify", "drain", "watch"} /\ asked = "unread" => read["pump"] = Nothing

(* A watch that a tick left behind unread is given up by the next tick,    *)
(* which has to reconnect and so has an empty slot.                        *)
Watched ==
  fwState # "idle" /\ gap => \/ pc \in {"sleep", "top"} /\ ~session
                             \/ pc = "watch" /\ read["pump"] = Nothing

(* The text of the mismatch stands only while it is latched.               *)
TextLatched == lastError = "flow" => latched

IInv == Quiet /\ AnswersMatch /\ SameSession /\ FaultFresh /\ SlotOK /\ Watched
        /\ TextLatched

-----------------------------------------------------------------------------
(* A round trip.                                                           *)

(* The periods are natural numbers, and none is zero.                      *)
LEMMA PeriodFacts ==
  /\ WaitFirst \in Nat /\ WaitMax \in Nat /\ WaitFirst <= WaitMax /\ 0 < WaitFirst
  /\ Verify \in Nat /\ VerifyStale \in Nat /\ Hold \in Nat /\ 0 < Verify
  /\ PumpMax \in Nat /\ Settle \in Nat /\ Latch \in Nat
BY PeriodsAssumption

(* The first reply to come on a wire that is empty is the one asked for.   *)
LEMMA FirstReply ==
  ASSUME NEW x
  PROVE  Head(Append(<<>>, x)) = x /\ Tail(Append(<<>>, x)) = <<>>
OBVIOUS

(* The reply to any request is a reply.                                    *)
LEMMA AnswerType ==
  ASSUME TypeOK, NEW t \in Tags
  PROVE  Answer(t) \in Replies /\ Nothing \in Replies
<1> DEFINE age == IF t = "fault" THEN clearAge ELSE 0
           late == t = "fault" /\ crossed
<1>1. age \in 0..Verify + VerifyStale + 1 /\ 0 \in 0..Verify + VerifyStale + 1
  <2>1. clearAge \in 0..Verify + VerifyStale + 1
    BY DEF TypeOK, ClearTypes
  <2>2. QED
    BY <2>1, PeriodFacts
<1>2. real[t] \in BOOLEAN
  BY DEF TypeOK, WorldTypes
<1>3. late \in BOOLEAN
  OBVIOUS
<1>4. Answer(t) = [tag |-> t, val |-> real[t], age |-> age, crossed |-> late]
  BY DEF Answer
<1> HIDE DEF age, late
<1>5. Answer(t) \in Replies
  BY <1>1, <1>2, <1>3, <1>4 DEF Replies
<1>6. Nothing \in Replies
  BY <1>1 DEF Nothing, Replies
<1>7. QED
  BY <1>5, <1>6

(* On an empty wire (sendRRData) a round trip brings its own reply or      *)
(* nothing, and leaves the wire empty; it loses a session or keeps it.     *)
LEMMA TripFacts ==
  ASSUME Quiet, NEW t \in Tags, NEW got \in Comes(Answer(t)), Trip(Answer(t), got)
  PROVE  /\ got \in {Nothing, Answer(t)}
         /\ ~session => got = Nothing
         /\ wire' = <<>> /\ session' \in BOOLEAN /\ (session' => session)
         /\ crossed' \in BOOLEAN /\ (session' /\ pending /\ ~crossed => ~crossed')
         /\ left' \in [Events -> Nat]
<1> DEFINE r == Answer(t)
<1>1. Head(Append(wire, r)) = r /\ Tail(Append(wire, r)) = <<>>
  BY FirstReply DEF Quiet
<1>2. left \in [Events -> Nat] /\ session \in BOOLEAN /\ wire = <<>>
  BY DEF Quiet, TypeOK, WorldTypes, LinkTypes
<1>3. Spend("faults") => left' \in [Events -> Nat]
  BY <1>2 DEF Spend, Events
<1>4. crossed' = (pending /\ (crossed \/ ~session'))
  BY DEF Trip
<1>5. got \in {Nothing, r}
  BY <1>1 DEF Comes
<1> HIDE DEF r
<1>6. /\ ~session => got = Nothing
      /\ wire' = <<>> /\ session' \in BOOLEAN /\ (session' => session)
      /\ left' \in [Events -> Nat]
  <2>1. CASE ~session /\ got = Nothing /\ UNCHANGED <<eip, left>>
    BY <2>1, <1>2 DEF eip
  <2>2. CASE session /\ up /\ got = Head(Append(wire, r)) /\ wire' = Tail(Append(wire, r))
             /\ UNCHANGED <<session, left>>
    BY <2>2, <1>1, <1>2
  <2>3. CASE session /\ up /\ Spend("faults") /\ got = Nothing /\ UNCHANGED eip
    BY <2>3, <1>2, <1>3 DEF eip
  <2>4. CASE session /\ up /\ Spend("faults") /\ got = Nothing /\ TimedOut(r)
    BY <2>4, <1>2, <1>3 DEF TimedOut
  <2>5. CASE session /\ ~up /\ got = Nothing /\ session' = FALSE /\ wire' = <<>> /\ UNCHANGED left
    BY <2>5, <1>2
  <2>6. QED
    BY <2>1, <2>2, <2>3, <2>4, <2>5 DEF Trip, r
<1>7. QED
  BY <1>4, <1>5, <1>6 DEF r

(* An event spent leaves the budget a budget.                              *)
LEMMA SpendFacts ==
  ASSUME left \in [Events -> Nat], NEW e \in Events, Spend(e)
  PROVE  left' \in [Events -> Nat]
BY DEF Spend

(* The sensor sweep may lose the session with its values in hand; what it  *)
(* does to the session, the wire and the ghosts is what a round trip does. *)
LEMMA SensorFacts ==
  ASSUME Quiet, PollSensors
  PROVE  /\ \E got \in {Nothing, Answer("level")} : Takes("level", got, {})
         /\ wire' = <<>> /\ session' \in BOOLEAN /\ session
         /\ crossed' \in BOOLEAN /\ (session' /\ pending /\ ~crossed => ~crossed')
         /\ left' \in [Events -> Nat]
         /\ plcConnected' \in BOOLEAN /\ lastError' \in {"ok", "read fail"}
         /\ pc' \in {"valves", "drain"}
<1> DEFINE r == Answer("level")
<1>1. PICK got \in Comes(r) :
        /\ Takes("level", got, {})
        /\ \/ /\ Trip(r, got)
              /\ lastError' = IF got = Nothing THEN "read fail" ELSE "ok"
              /\ plcConnected' = (plcConnected \/ got # Nothing)
           \/ /\ up /\ got # Nothing /\ wire = <<>> /\ Spend("faults")
              /\ UNCHANGED eip \/ TimedOut(r)
              /\ crossed' = (pending /\ (crossed \/ ~session'))
              /\ lastError' = "read fail" /\ UNCHANGED plcConnected
           \/ /\ got = Nothing
              /\ IF up THEN Spend("faults") ELSE UNCHANGED left
              /\ session' = FALSE /\ wire' = <<>> /\ crossed' = pending
              /\ lastError' = "read fail" /\ plcConnected' = FALSE
  BY DEF PollSensors
<1>2. session /\ pc' \in {"valves", "drain"}
  BY DEF PollSensors
<1>3. /\ left \in [Events -> Nat] /\ session \in BOOLEAN /\ wire = <<>>
      /\ plcConnected \in BOOLEAN /\ pending \in BOOLEAN /\ crossed \in BOOLEAN
  BY DEF Quiet, TypeOK, WorldTypes, LinkTypes, ClearTypes
<1>4. "level" \in Tags /\ "faults" \in Events
  BY DEF Tags, Events
<1>5. got \in {Nothing, r}
  BY <1>3, FirstReply DEF Comes
<1>6. /\ wire' = <<>> /\ session' \in BOOLEAN
      /\ crossed' \in BOOLEAN /\ (session' /\ pending /\ ~crossed => ~crossed')
      /\ left' \in [Events -> Nat]
      /\ plcConnected' \in BOOLEAN /\ lastError' \in {"ok", "read fail"}
  <2>1. CASE /\ Trip(r, got)
             /\ lastError' = IF got = Nothing THEN "read fail" ELSE "ok"
             /\ plcConnected' = (plcConnected \/ got # Nothing)
    <3>1. (plcConnected \/ got # Nothing) \in BOOLEAN
      OBVIOUS
    <3>2. QED
      BY <2>1, <3>1, <1>4, TripFacts
  <2>2. CASE /\ Spend("faults")
             /\ UNCHANGED eip \/ TimedOut(r)
             /\ crossed' = (pending /\ (crossed \/ ~session'))
             /\ lastError' = "read fail" /\ UNCHANGED plcConnected
    <3>1. wire' = <<>> /\ session' \in BOOLEAN
      BY <2>2, <1>3 DEF eip, TimedOut
    <3>2. (pending /\ (crossed \/ ~session')) \in BOOLEAN
      OBVIOUS
    <3>3. crossed' \in BOOLEAN /\ (session' /\ pending /\ ~crossed => ~crossed')
      BY <2>2, <3>2
    <3>4. Spend("faults")
      BY <2>2
    <3>5. left' \in [Events -> Nat]
      BY <3>4, <1>3, <1>4, SpendFacts
    <3>6. QED
      BY <2>2, <3>1, <3>3, <3>5, <1>3
  <2>3. CASE /\ IF up THEN Spend("faults") ELSE UNCHANGED left
             /\ session' = FALSE /\ wire' = <<>> /\ crossed' = pending
             /\ lastError' = "read fail" /\ plcConnected' = FALSE
    BY <2>3, <1>3, <1>4, SpendFacts
  <2>4. QED
    BY <1>1, <2>1, <2>2, <2>3
<1>7. QED
  BY <1>1, <1>2, <1>5, <1>6

(* A saturating clock stays within its bound.                              *)
LEMMA SmallerFacts ==
  ASSUME NEW bound \in Nat, NEW age \in 0..bound
  PROVE  Smaller(age + 1, bound) \in 0..bound
BY DEF Smaller

(* The clocks of the loop, one period later.                               *)
LEMMA ElapseFacts ==
  ASSUME Quiet, Elapse
  PROVE  /\ since' \in 0..WaitMax
         /\ clearAge' \in 0..Verify + VerifyStale + 1 /\ sweepAge' \in Nat
         /\ saidAge' \in 0..Hold
         /\ fwAge' \in 0..PumpMax + Settle /\ latchAge' \in 0..Latch
<1> USE DEF Quiet, TypeOK, Elapse
<1>1. since' \in 0..WaitMax
  BY SmallerFacts, PeriodFacts DEF LinkTypes
<1>2. clearAge' \in 0..Verify + VerifyStale + 1
  <2>1. clearAge \in 0..Verify + VerifyStale + 1
    BY DEF ClearTypes
  <2>2. clearAge' = IF pending THEN Smaller(clearAge + 1, Verify + VerifyStale + 1) ELSE 0
    OBVIOUS
  <2>3. QED
    BY <2>1, <2>2, PeriodFacts DEF Smaller
<1>3. sweepAge' \in Nat
  BY DEF ClearTypes
<1>4. saidAge' \in 0..Hold
  <2>1. saidAge \in 0..Hold
    BY DEF ClearTypes
  <2>2. saidAge' = IF said = "ok" THEN 0 ELSE Smaller(saidAge + 1, Hold)
    OBVIOUS
  <2>3. QED
    BY <2>1, <2>2, PeriodFacts DEF Smaller
<1>5. fwAge' \in 0..PumpMax + Settle
  <2>1. fwAge \in 0..PumpMax + Settle
    BY DEF WatchTypes
  <2>2. fwAge' = IF fwState = "idle" THEN 0 ELSE Smaller(fwAge + 1, PumpMax + Settle)
    OBVIOUS
  <2>3. QED
    BY <2>1, <2>2, PeriodFacts DEF Smaller
<1>6. latchAge' \in 0..Latch
  <2>1. latchAge \in 0..Latch
    BY DEF WatchTypes
  <2>2. latchAge' = IF latched THEN Smaller(latchAge + 1, Latch) ELSE 0
    OBVIOUS
  <2>3. QED
    BY <2>1, <2>2, PeriodFacts DEF Smaller
<1>7. QED
  BY <1>1, <1>2, <1>3, <1>4, <1>5, <1>6

-----------------------------------------------------------------------------
(* Types, and the empty wire.                                              *)

(* The initial state is typed, with nothing on the wire.                   *)
LEMMA InitQuiet == Init => Quiet
<1> SUFFICES ASSUME Init PROVE Quiet
  OBVIOUS
<1> USE DEF Init
<1>1. read \in [Tags -> Replies]
  <2>1. Nothing \in Replies
    BY PeriodFacts DEF Nothing, Replies
  <2>2. QED
    BY <2>1
<1>2. wire \in Seq(Replies)
  OBVIOUS
<1>3. real \in [Tags -> BOOLEAN] /\ left \in [Events -> Nat]
  BY BudgetAssumption
<1>4. wait \in WaitFirst..WaitMax /\ since \in 0..WaitMax
  BY PeriodFacts
<1>5. clearAge \in 0..Verify + VerifyStale + 1 /\ saidAge \in 0..Hold /\ sweepAge \in Nat
      /\ fwAge \in 0..PumpMax + Settle /\ latchAge \in 0..Latch
  BY PeriodFacts
<1>6. QED
  BY <1>1, <1>2, <1>3, <1>4, <1>5
     DEF Quiet, TypeOK, WorldTypes, LinkTypes, ReadTypes, ClearTypes, WatchTypes, Texts

(* One group of variables after the other.  The steps of a group are the    *)
(* actions that change it, and one for all that do not.                    *)

(* Every step types the plant, the budget and the ghosts.                  *)
LEMMA StepWorld ==
  ASSUME Quiet, [Next]_vars
  PROVE  WorldTypes'
<1> USE DEF Goes, seen
<1>1. CASE Plant
  <2>1. left' \in [Events -> Nat]
    BY <1>1, SpendFacts DEF Quiet, TypeOK, WorldTypes, Plant, Events
  <2>2. real' \in [Tags -> BOOLEAN] /\ up' \in BOOLEAN
    <3>1. \A t \in Tags : (~real[t]) \in BOOLEAN
      OBVIOUS
    <3>2. (~up) \in BOOLEAN
      OBVIOUS
    <3>3. QED
      BY <1>1, <3>1, <3>2 DEF Quiet, TypeOK, WorldTypes, Plant
  <2>3. crossed' \in BOOLEAN /\ asked' \in {"read", "unread", "skipped"} /\ gap' \in BOOLEAN
    BY <1>1 DEF Quiet, TypeOK, WorldTypes, Plant
  <2>4. QED
    BY <2>1, <2>2, <2>3 DEF WorldTypes
<1>2. CASE Drags
  BY <1>2 DEF Quiet, TypeOK, WorldTypes, Drags, Elapse, Spend, Events, world
<1>3. CASE Closes
  BY <1>3 DEF Quiet, TypeOK, WorldTypes, Closes, world, LinkTypes, ClearTypes
<1>4. CASE Reconnect
  BY <1>4 DEF Quiet, TypeOK, WorldTypes, Reconnect, Spend, Events, world
<1>5. CASE PollPump
  <2>1. PICK got \in Comes(Answer("pump")) : Trip(Answer("pump"), got)
    BY <1>5 DEF PollPump
  <2>2. "pump" \in Tags
    BY DEF Tags
  <2>3. QED
    BY <1>5, <2>1, <2>2, TripFacts DEF Quiet, TypeOK, WorldTypes, PollPump, world, Goes
<1>6. CASE PollFault
  <2>1. PICK got \in Comes(Answer("fault")) : Trip(Answer("fault"), got)
    BY <1>6 DEF PollFault
  <2>2. "fault" \in Tags
    BY DEF Tags
  <2>3. QED
    BY <1>6, <2>1, <2>2, TripFacts DEF Quiet, TypeOK, WorldTypes, PollFault, world, Goes
<1>7. CASE PollSensors
  BY <1>7, SensorFacts DEF Quiet, TypeOK, WorldTypes, PollSensors, world
<1>8. CASE clearFault
  <2>1. left' \in [Events -> Nat]
    BY <1>8, SpendFacts DEF Quiet, TypeOK, WorldTypes, clearFault, Events
  <2>2. real' \in [Tags -> BOOLEAN]
    BY <1>8 DEF Quiet, TypeOK, WorldTypes, clearFault, world
  <2>3. /\ up' \in BOOLEAN /\ crossed' \in BOOLEAN /\ gap' \in BOOLEAN
        /\ asked' \in {"read", "unread", "skipped"}
    BY <1>8 DEF Quiet, TypeOK, WorldTypes, ClearTypes, clearFault, world
  <2>4. QED
    BY <2>1, <2>2, <2>3 DEF WorldTypes
<1>9. CASE Refuses
  BY <1>9 DEF Quiet, TypeOK, WorldTypes, Refuses, Spend, Events, world
<1>10. CASE flowWatchTick
  BY <1>10 DEF Quiet, TypeOK, WorldTypes, flowWatchTick, world
<1>11. CASE UNCHANGED vars
  BY <1>11 DEF Quiet, TypeOK, WorldTypes, vars, world, eip, w, retry, clear, watch
<1>12. CASE WaterPasses \/ Sleeps \/ clearVerifyTick \/ Drained
  BY <1>12 DEF Quiet, TypeOK, WorldTypes, WaterPasses, Sleeps, clearVerifyTick,
       Drained, Elapse, vars, world, eip, w, retry, clear, watch
<1>13. QED
  BY <1>1, <1>2, <1>3, <1>4, <1>5, <1>6, <1>7, <1>8, <1>9, <1>10, <1>11, <1>12
       DEF Next, Thread

(* Every step types the session, the retry clock and the last error.       *)
LEMMA StepLink ==
  ASSUME Quiet, [Next]_vars
  PROVE  LinkTypes'
<1> USE DEF Goes
<1>1. CASE Drags \/ Sleeps
  <2>1. Elapse
    BY <1>1 DEF Drags, Sleeps
  <2>2. /\ session' \in BOOLEAN /\ plcConnected' \in BOOLEAN /\ wait' \in WaitFirst..WaitMax
      /\ lastError' \in Texts \cup {"read fail", "not listening", "offline", "flow"}
      /\ pc' \in {"top", "valves", "fault", "verify", "drain", "watch", "sleep"}
    BY <1>1, <2>1 DEF Quiet, TypeOK, LinkTypes, Elapse, Drags, Sleeps, eip, w
  <2>3. QED
    BY <2>1, <2>2, ElapseFacts DEF LinkTypes
<1>2. CASE Closes
  BY <1>2 DEF Quiet, TypeOK, LinkTypes, Closes, w, retry
<1>3. CASE Reconnect
  <2>1. PICK joined \in BOOLEAN :
          /\ Knock(joined)
          /\ lastError' \in {Told(joined), "offline"}
    BY <1>3 DEF Reconnect
  <2>2. wait' \in WaitFirst..WaitMax
    <3>1. wait' \in {WaitFirst, Smaller(2 * wait, WaitMax), wait}
      BY <2>1 DEF Knock, Longer
    <3>2. wait \in WaitFirst..WaitMax
      BY DEF Quiet, TypeOK, LinkTypes
    <3>3. QED
      BY <3>1, <3>2, PeriodFacts DEF Smaller
  <2>3. since' \in 0..WaitMax
    <3>1. since' \in {0, since}
      BY <2>1 DEF Knock, SinceAfter
    <3>2. since \in 0..WaitMax
      BY DEF Quiet, TypeOK, LinkTypes
    <3>3. QED
      BY <3>1, <3>2, PeriodFacts
  <2>4. session' \in BOOLEAN /\ plcConnected' \in BOOLEAN
    BY <2>1 DEF Knock
  <2>5. lastError' \in Texts \cup {"read fail", "not listening", "offline", "flow"}
    BY <2>1 DEF Quiet, TypeOK, LinkTypes, Told, Texts
  <2>6. pc' = "watch"
    BY <1>3 DEF Reconnect
  <2>7. QED
    BY <2>1, <2>2, <2>3, <2>4, <2>5, <2>6 DEF LinkTypes
<1>4. CASE PollSensors
  <2>1. retry' = retry
    BY <1>4 DEF PollSensors
  <2>2. lastError' \in Texts \cup {"read fail", "not listening", "offline", "flow"}
    BY <1>4, SensorFacts DEF Texts
  <2>3. session' \in BOOLEAN /\ plcConnected' \in BOOLEAN /\ pc' \in {"valves", "drain"}
    BY <1>4, SensorFacts
  <2>4. QED
    BY <2>1, <2>2, <2>3, <1>4 DEF Quiet, TypeOK, LinkTypes, retry
<1>5. CASE PollPump
  <2>1. PICK got \in Comes(Answer("pump")) : Trip(Answer("pump"), got)
    BY <1>5 DEF PollPump
  <2>2. "pump" \in Tags
    BY DEF Tags
  <2>3. session' \in BOOLEAN
    BY <2>1, <2>2, TripFacts
  <2>4. QED
    BY <1>5, <2>3 DEF Quiet, TypeOK, LinkTypes, PollPump, retry
<1>6. CASE PollFault
  <2>1. PICK got \in Comes(Answer("fault")) : Trip(Answer("fault"), got)
    BY <1>6 DEF PollFault
  <2>2. "fault" \in Tags
    BY DEF Tags
  <2>3. session' \in BOOLEAN
    BY <2>1, <2>2, TripFacts
  <2>4. QED
    BY <1>6, <2>3 DEF Quiet, TypeOK, LinkTypes, w, PollFault, retry
<1>7. CASE clearVerifyTick
  BY <1>7 DEF Quiet, TypeOK, LinkTypes, clearVerifyTick, ClearSays, Texts, eip, w,
       retry, ClearTypes
<1>8. CASE clearFault
  BY <1>8 DEF Quiet, TypeOK, LinkTypes, clearFault, eip, w, retry, Texts
<1>9. CASE Refuses
  BY <1>9 DEF Quiet, TypeOK, LinkTypes, Refuses, eip, w, retry
<1>10. CASE flowWatchTick
  <2>1. lastError' \in Texts \cup {"read fail", "not listening", "offline", "flow"}
    BY <1>10 DEF Quiet, TypeOK, LinkTypes, flowWatchTick, TextTakenBack, Texts
  <2>2. pc' = "sleep" /\ UNCHANGED <<eip, w, retry>>
    BY <1>10 DEF flowWatchTick
  <2>3. QED
    BY <2>1, <2>2 DEF Quiet, TypeOK, LinkTypes, eip, w, retry
<1>11. CASE UNCHANGED vars
  BY <1>11 DEF Quiet, TypeOK, LinkTypes, vars, world, eip, w, retry, clear, watch
<1>12. CASE Plant \/ WaterPasses \/ Drained
  BY <1>12 DEF Quiet, TypeOK, LinkTypes, Plant, WaterPasses, Drained, Elapse, vars,
       world, eip, w, retry, clear, watch
<1>13. QED
  BY <1>1, <1>2, <1>3, <1>4, <1>5, <1>6, <1>7, <1>8, <1>9, <1>10, <1>11, <1>12
       DEF Next, Thread

(* Every step types the armed read-back and its clocks.                    *)
LEMMA StepClear ==
  ASSUME Quiet, [Next]_vars
  PROVE  ClearTypes'
<1> USE DEF Goes
<1>1. CASE Drags \/ Sleeps
  <2>1. Elapse
    BY <1>1 DEF Drags, Sleeps
  <2>2. pending' \in BOOLEAN /\ said' \in Texts
    BY <1>1, <2>1 DEF Quiet, TypeOK, ClearTypes, Elapse, Drags, Sleeps, eip, w
  <2>3. QED
    BY <2>1, <2>2, ElapseFacts DEF ClearTypes
<1>2. CASE Reconnect
  BY <1>2 DEF Quiet, TypeOK, ClearTypes, Reconnect
<1>3. CASE PollPump
  BY <1>3 DEF Quiet, TypeOK, ClearTypes, PollPump
<1>4. CASE clearVerifyTick
  <2>1. pending' \in BOOLEAN /\ said' \in Texts
    BY <1>4 DEF Quiet, TypeOK, ClearTypes, clearVerifyTick, ClearSays, Texts
  <2>2. saidAge' \in 0..Hold
    BY <1>4, PeriodFacts DEF Quiet, TypeOK, ClearTypes, clearVerifyTick
  <2>3. UNCHANGED <<clearAge, sweepAge>>
    BY <1>4 DEF clearVerifyTick
  <2>4. QED
    BY <2>1, <2>2, <2>3 DEF Quiet, TypeOK, ClearTypes
<1>5. CASE clearFault
  <2>1. pending' \in BOOLEAN /\ said' \in Texts
    BY <1>5 DEF Quiet, TypeOK, ClearTypes, clearFault, Texts
  <2>2. clearAge' \in {0, clearAge}
    BY <1>5 DEF clearFault
  <2>3. saidAge' = 0 /\ UNCHANGED sweepAge
    BY <1>5 DEF clearFault
  <2>4. QED
    BY <2>1, <2>2, <2>3, PeriodFacts DEF Quiet, TypeOK, ClearTypes
<1>6. CASE UNCHANGED vars
  BY <1>6 DEF Quiet, TypeOK, ClearTypes, vars, world, eip, w, retry, clear, watch
<1>7. CASE Plant \/ WaterPasses \/ Closes \/ PollSensors \/ PollFault \/ Refuses
           \/ Drained \/ flowWatchTick
  BY <1>7 DEF Quiet, TypeOK, ClearTypes, Plant, WaterPasses, Closes, PollSensors,
       PollFault, Refuses, Drained, flowWatchTick, Elapse, vars, world, eip, w, retry,
       clear, watch
<1>8. QED
  BY <1>1, <1>2, <1>3, <1>4, <1>5, <1>6, <1>7 DEF Next, Thread

(* Every step types the watch over a discharge.                            *)
LEMMA StepWatch ==
  ASSUME Quiet, [Next]_vars
  PROVE  WatchTypes'
<1> USE DEF Goes
<1>1. CASE Drags \/ Sleeps
  <2>1. Elapse
    BY <1>1 DEF Drags, Sleeps
  <2>2. /\ fwState' \in {"idle", "pumping", "settling"} /\ fwLong' \in BOOLEAN
      /\ fwLevel' \in BOOLEAN /\ flowed' \in BOOLEAN /\ prev' \in {"unread", "on",
          "off"}
      /\ latched' \in BOOLEAN
    BY <1>1, <2>1 DEF Quiet, TypeOK, WatchTypes, Elapse, Drags, Sleeps, eip, w
  <2>3. QED
    BY <2>1, <2>2, ElapseFacts DEF WatchTypes
<1>2. CASE WaterPasses
  BY <1>2 DEF Quiet, TypeOK, WatchTypes, WaterPasses
<1>3. CASE flowWatchTick
  <2>1. WatchMoves
    BY <1>3 DEF flowWatchTick
  <2>2. read["level"].val \in BOOLEAN
    BY DEF Quiet, TypeOK, ReadTypes, Replies, Tags
  <2>3. fwState' \in {"idle", "pumping", "settling"}
    BY <2>1 DEF Quiet, TypeOK, WatchTypes, WatchMoves
  <2>4. fwLevel' \in BOOLEAN /\ flowed' \in BOOLEAN
    BY <2>1, <2>2 DEF Quiet, TypeOK, WatchTypes, WatchMoves
  <2>5. fwLong' \in BOOLEAN
    <3>1. (fwAge >= PumpMin) \in BOOLEAN
      OBVIOUS
    <3>2. QED
      BY <2>1, <3>1 DEF Quiet, TypeOK, WatchTypes, WatchMoves
  <2>6. fwAge' \in 0..PumpMax + Settle
    BY <2>1, PeriodFacts DEF Quiet, TypeOK, WatchTypes, WatchMoves
  <2>7. prev' \in {"unread", "on", "off"}
    BY <1>3 DEF flowWatchTick
  <2>8. latched' \in BOOLEAN
    <3>1. (Mismatch \/ (latched /\ ~Released)) \in BOOLEAN
      OBVIOUS
    <3>2. QED
      BY <1>3, <3>1 DEF flowWatchTick
  <2>9. latchAge' \in 0..Latch
    BY <1>3, PeriodFacts DEF Quiet, TypeOK, WatchTypes, flowWatchTick
  <2>10. QED
    BY <2>1, <2>2, <2>3, <2>4, <2>5, <2>6, <2>7, <2>8, <2>9 DEF WatchTypes
<1>4. CASE UNCHANGED vars
  BY <1>4 DEF Quiet, TypeOK, WatchTypes, vars, world, eip, w, retry, clear, watch
<1>5. CASE Plant \/ Closes \/ Reconnect \/ PollSensors \/ PollPump \/ PollFault
           \/ clearVerifyTick \/ clearFault \/ Refuses \/ Drained
  BY <1>5 DEF Quiet, TypeOK, WatchTypes, Plant, Closes, Reconnect, PollSensors,
       PollPump, PollFault, clearVerifyTick, clearFault, Refuses, Drained, Elapse,
       vars, world, eip, w, retry, clear, watch
<1>6. QED
  BY <1>1, <1>2, <1>3, <1>4, <1>5 DEF Next, Thread

(* Every step types the slots and leaves nothing on the wire.              *)
LEMMA StepRead ==
  ASSUME Quiet, [Next]_vars
  PROVE  ReadTypes' /\ wire' = <<>>
<1> SUFFICES read' \in [Tags -> Replies] /\ wire' = <<>>
  BY DEF ReadTypes
<1>1. read \in [Tags -> Replies] /\ wire = <<>>
  BY DEF Quiet, TypeOK, ReadTypes
<1>2. \A t \in Tags : Answer(t) \in Replies /\ Nothing \in Replies
  BY AnswerType DEF Quiet
<1>3. "level" \in Tags /\ "pump" \in Tags /\ "fault" \in Tags
  BY DEF Tags
<1>4. \A others : \A t \in Tags : \A got \in {Nothing, Answer(t)} :
        Takes(t, got, others) => read' \in [Tags -> Replies]
  BY <1>1, <1>2 DEF Takes
<1>5. CASE PollSensors
  BY <1>5, <1>3, <1>4, SensorFacts
<1>6. CASE PollPump
  <2>1. PICK got \in Comes(Answer("pump")) :
          Trip(Answer("pump"), got) /\ Takes("pump", got, Valves)
    BY <1>6 DEF PollPump
  <2>2. QED
    BY <2>1, <1>3, <1>4, TripFacts
<1>7. CASE PollFault
  <2>1. PICK got \in Comes(Answer("fault")) :
          Trip(Answer("fault"), got) /\ Takes("fault", got, {})
    BY <1>7 DEF PollFault
  <2>2. QED
    BY <2>1, <1>3, <1>4, TripFacts
<1>8. CASE Reconnect
  <2>1. read' = [t \in Tags |-> Nothing] /\ wire' = <<>>
    BY <1>8 DEF Reconnect, Knock
  <2>2. QED
    BY <2>1, <1>2, <1>3
<1>9. CASE clearFault
  BY <1>9, <1>1 DEF clearFault, eip, w
<1>10. CASE Closes
  BY <1>10, <1>1 DEF Closes, w
<1>11. CASE UNCHANGED vars
  BY <1>11, <1>1 DEF vars, eip, w
<1>12. CASE Plant \/ WaterPasses \/ Drags \/ Sleeps
  BY <1>12, <1>1 DEF Plant, WaterPasses, Drags, Sleeps, Elapse, eip, w
<1>13. CASE clearVerifyTick \/ Refuses \/ Drained \/ flowWatchTick
  BY <1>13, <1>1 DEF clearVerifyTick, Refuses, Drained, flowWatchTick, eip, w
<1>14. QED
  BY <1>5, <1>6, <1>7, <1>8, <1>9, <1>10, <1>11, <1>12, <1>13 DEF Next, Thread

-----------------------------------------------------------------------------
(* Answers, and what is concluded from them.                               *)

(* A slot takes the answer to its own request, or nothing.                 *)
LEMMA StepAnswers ==
  ASSUME Quiet, AnswersMatch, [Next]_vars
  PROVE  AnswersMatch'
<1>1. read \in [Tags -> Replies]
  BY DEF Quiet, TypeOK, ReadTypes
<1>2. \A t \in Tags : Answer(t).tag = t /\ Nothing.tag = "none"
  BY DEF Answer, Nothing
<1>3. "level" \in Tags /\ "pump" \in Tags /\ "fault" \in Tags
  BY DEF Tags
<1>4. \A others : \A t \in Tags : \A got \in {Nothing, Answer(t)} :
        Takes(t, got, others) => AnswersMatch'
  BY <1>1, <1>2 DEF Takes, AnswersMatch
<1>5. CASE PollSensors
  BY <1>5, <1>3, <1>4, SensorFacts
<1>6. CASE PollPump
  <2>1. PICK got \in Comes(Answer("pump")) :
          Trip(Answer("pump"), got) /\ Takes("pump", got, Valves)
    BY <1>6 DEF PollPump
  <2>2. QED
    BY <2>1, <1>3, <1>4, TripFacts
<1>7. CASE PollFault
  <2>1. PICK got \in Comes(Answer("fault")) :
          Trip(Answer("fault"), got) /\ Takes("fault", got, {})
    BY <1>7 DEF PollFault
  <2>2. QED
    BY <2>1, <1>3, <1>4, TripFacts
<1>8. CASE Reconnect
  <2>1. read' = [t \in Tags |-> Nothing]
    BY <1>8 DEF Reconnect
  <2>2. QED
    BY <2>1, <1>2, <1>3 DEF AnswersMatch
<1>9. CASE Plant \/ WaterPasses \/ Drags \/ Sleeps \/ Closes
  BY <1>9 DEF AnswersMatch, Plant, WaterPasses, Drags, Sleeps, Elapse, Closes, w
<1>10. CASE clearVerifyTick \/ clearFault \/ Refuses \/ Drained \/ flowWatchTick
  BY <1>10 DEF AnswersMatch, clearVerifyTick, clearFault, Refuses, Drained, flowWatchTick, w
<1>11. CASE UNCHANGED vars
  BY <1>11 DEF AnswersMatch, vars, w
<1>12. QED
  BY <1>5, <1>6, <1>7, <1>8, <1>9, <1>10, <1>11 DEF Next, Thread

(* A session that ends takes the innocence of the pending clear with it,   *)
(* and no session begins with a clear pending.                             *)
LEMMA StepSame ==
  ASSUME Quiet, SameSession, [Next]_vars
  PROVE  SameSession'
<1> USE DEF SameSession, seen
<1>1. "pump" \in Tags /\ "fault" \in Tags
  BY DEF Tags
<1>2. CASE PollSensors
  BY <1>2, SensorFacts DEF PollSensors, clear
<1>3. CASE PollPump
  BY <1>3, <1>1, TripFacts DEF PollPump
<1>4. CASE PollFault
  BY <1>4, <1>1, TripFacts DEF PollFault, clear
<1>5. CASE Reconnect
  BY <1>5 DEF Reconnect
<1>6. CASE clearVerifyTick
  BY <1>6 DEF clearVerifyTick, eip
<1>7. CASE clearFault
  BY <1>7 DEF clearFault, eip
<1>8. CASE Closes
  BY <1>8 DEF Closes
<1>9. CASE Plant \/ WaterPasses \/ Drags \/ Sleeps
  BY <1>9 DEF Plant, WaterPasses, Drags, Sleeps, Elapse, eip, clear
<1>10. CASE Refuses \/ Drained \/ flowWatchTick
  BY <1>10 DEF Refuses, Drained, flowWatchTick, eip, clear
<1>11. CASE UNCHANGED vars
  BY <1>11 DEF vars, eip, clear
<1>12. QED
  BY <1>2, <1>3, <1>4, <1>5, <1>6, <1>7, <1>8, <1>9, <1>10, <1>11 DEF Next, Thread

(* The sweep that reads the bit began before the bit was read, and no time *)
(* brings the beginning nearer to the write.                               *)
LEMMA StepFresh ==
  ASSUME Quiet, SameSession, FaultFresh, [Next]_vars
  PROVE  FaultFresh'
<1>1. clearAge \in 0..Verify + VerifyStale + 1 /\ sweepAge \in Nat /\ pending \in BOOLEAN
  BY DEF Quiet, TypeOK, ClearTypes
<1>2. CASE PollFault
  <2>1. PICK got \in Comes(Answer("fault")) :
          Trip(Answer("fault"), got) /\ Takes("fault", got, {})
    BY <1>2 DEF PollFault
  <2>2. "fault" \in Tags
    BY DEF Tags
  <2>3. got \in {Nothing, Answer("fault")} /\ (~session => got = Nothing)
    BY <2>1, <2>2, TripFacts
  <2>4. read'["fault"] = got /\ UNCHANGED <<pending, clearAge, sweepAge>>
    BY <1>2, <2>1, <2>2 DEF Takes, PollFault, clear
  <2>5. Answer("fault").age = clearAge /\ (Answer("fault").crossed => crossed)
    BY DEF Answer
  <2>6. clearAge >= clearAge - sweepAge
    BY <1>1, PeriodFacts
  <2>7. QED
    BY <2>3, <2>4, <2>5, <2>6 DEF FaultFresh, SameSession
<1>3. CASE Drags
  <2>1. UNCHANGED <<pc, pending, read>> /\ Elapse
    BY <1>3 DEF Drags, Elapse, w
  <2>2. CASE pc = "verify" /\ pending /\ read["fault"] # Nothing
    <3>1. clearAge' = Smaller(clearAge + 1, Verify + VerifyStale + 1) /\ sweepAge' = sweepAge + 1
      BY <2>1, <2>2 DEF Elapse
    <3>2. clearAge' - sweepAge' <= clearAge - sweepAge
      BY <3>1, <1>1, PeriodFacts DEF Smaller
    <3>3. read["fault"].age >= clearAge - sweepAge /\ ~read["fault"].crossed
      BY <2>2 DEF FaultFresh
    <3>4. read["fault"].age \in Nat /\ clearAge' \in Int /\ sweepAge' \in Int
      <4>1. read["fault"] \in Replies
        BY DEF Quiet, TypeOK, ReadTypes, Tags
      <4>2. read["fault"].age \in 0..Verify + VerifyStale + 1
        BY <4>1 DEF Replies
      <4>3. QED
        BY <4>2, <3>1, <1>1, PeriodFacts DEF Smaller
    <3>5. read'["fault"].age >= clearAge' - sweepAge' /\ ~read'["fault"].crossed
      BY <2>1, <3>2, <3>3, <3>4, <1>1
    <3>6. QED
      BY <3>5 DEF FaultFresh
  <2>3. QED
    BY <2>1, <2>2 DEF FaultFresh
<1>4. CASE UNCHANGED vars
  BY <1>4 DEF FaultFresh, vars, w, clear
<1>5. CASE pc' # "verify"
  BY <1>5 DEF FaultFresh
<1>6. ~(Plant \/ WaterPasses \/ Closes \/ Sleeps \/ Thread) \/ PollFault \/ pc' # "verify"
  BY DEF Plant, Sees, WaterPasses, Closes, Sleeps, Elapse, Thread, Goes, Reconnect,
         PollSensors, PollPump, clearVerifyTick, clearFault, Refuses, Drained, flowWatchTick
<1>7. QED
  BY <1>2, <1>3, <1>4, <1>5, <1>6 DEF Next

(* The watch moves by a pump that this tick read, but for its end.         *)
LEMMA MovesSeen ==
  ASSUME Quiet, SlotOK, flowWatchTick
  PROVE  /\ fwState' \notin {fwState, "idle"} => asked = "read"
         /\ read["pump"] = Nothing => fwState' = "idle"
         /\ Remembered'
<1>1. /\ fwState \in {"idle", "pumping", "settling"} /\ asked \in {"read", "unread", "skipped"}
      /\ pc = "watch" /\ WatchMoves /\ UNCHANGED read
      /\ prev' = IF ~PumpOk THEN "unread" ELSE IF PumpOn THEN "on" ELSE "off"
  BY DEF Quiet, TypeOK, WatchTypes, WorldTypes, flowWatchTick, Goes, w
<1>2. /\ asked = "unread" => read["pump"] = Nothing
      /\ asked = "skipped" => Remembered
  BY <1>1 DEF SlotOK
<1>3. ASSUME fwState' \notin {fwState, "idle"} PROVE asked = "read"
  <2>1. \/ Starts /\ fwState = "idle"
        \/ Stops
    BY <1>1, <1>3 DEF WatchMoves, Starts
  <2>2. QED
    BY <1>1, <1>2, <2>1 DEF Starts, Stops, PumpOn, PumpOk, Remembered
<1>4. ASSUME read["pump"] = Nothing PROVE fwState' = "idle"
  BY <1>1, <1>4 DEF WatchMoves, Starts, Stops, GivesUp, PumpOn, PumpOk
<1>5. Remembered'
  <2>1. fwState' = "pumping" => PumpOn
    BY <1>1 DEF WatchMoves, Starts, Stops, GivesUp, Ends
  <2>2. QED
    BY <1>1, <2>1 DEF Remembered, PumpOn, PumpOk
<1>6. QED
  BY <1>3, <1>4, <1>5

(* Steps that leave the slot, the watch and the tick's request alone.      *)
LEMMA SlotRests ==
  ASSUME SlotOK, Watched, UNCHANGED <<read, prev, fwState, asked, gap>>, session' => session,
         UNCHANGED pc
  PROVE  SlotOK' /\ Watched'
BY DEF SlotOK, Watched, Remembered

(* A tick that leaves the pump unread empties the slot, or has lost the    *)
(* session and leaves that to the next one.                                *)
LEMMA StepWatched ==
  ASSUME Quiet, SlotOK, Watched, [Next]_vars
  PROVE  SlotOK' /\ Watched'
<1> USE DEF Goes
<1>1. session \in BOOLEAN /\ "pump" \in Tags /\ "fault" \in Tags /\ "level" \in Tags
  BY DEF Quiet, TypeOK, LinkTypes, Tags
<1>2. CASE flowWatchTick
  <2>1. /\ gap' = (fwState' # "idle" /\ ~Starts /\ (gap \/ asked # "read"))
        /\ pc = "watch" /\ pc' = "sleep" /\ asked' = "unread" /\ UNCHANGED <<session, read>>
    BY <1>2 DEF flowWatchTick, eip, w
  <2>2. Remembered' /\ (read["pump"] = Nothing => fwState' = "idle")
    BY <1>2, MovesSeen
  <2>3. SlotOK'
    BY <2>1, <2>2 DEF SlotOK
  <2>4. ASSUME fwState' # "idle", gap' PROVE ~session
    <3>1. read["pump"] # Nothing /\ ~Starts
      BY <2>1, <2>2, <2>4
    <3>2. fwState # "idle"
      BY <1>2, <2>4, <3>1 DEF flowWatchTick, WatchMoves, GivesUp, Ends, Stops
    <3>3. ~gap
      BY <2>1, <3>1, <3>2 DEF Watched
    <3>4. asked = "skipped"
      BY <2>1, <2>4, <3>1, <3>3 DEF SlotOK, Quiet, TypeOK, WorldTypes
    <3>5. QED
      BY <2>1, <3>4 DEF SlotOK
  <2>5. QED
    BY <2>1, <2>3, <2>4 DEF Watched
<1>3. CASE Reconnect
  <2>1. pc' = "watch" /\ read' = [t \in Tags |-> Nothing]
    BY <1>3 DEF Reconnect
  <2>2. read'["pump"] = Nothing
    BY <1>1, <2>1
  <2>3. asked' # "skipped"
    BY <1>3 DEF Reconnect, SlotOK, seen
  <2>4. QED
    BY <2>1, <2>2, <2>3 DEF SlotOK, Watched
<1>4. CASE PollSensors
  <2>1. /\ pc = "top" /\ session /\ UNCHANGED <<prev, fwState, gap>>
        /\ pc' = (IF session' THEN "valves" ELSE "drain")
        /\ asked' = (IF session' THEN asked ELSE "skipped")
    BY <1>4 DEF PollSensors, watch
  <2>2. read'["pump"] = read["pump"]
    <3>1. PICK got : Takes("level", got, {})
      BY <1>4 DEF PollSensors
    <3>2. QED
      BY <1>1, <3>1 DEF Takes
  <2>3. QED
    BY <2>1, <2>2 DEF SlotOK, Watched, Remembered
<1>5. CASE PollPump
  <2>1. /\ pc = "valves" /\ pc' = "fault" /\ UNCHANGED <<prev, fwState, gap>>
    BY <1>5 DEF PollPump, watch
  <2>2. PICK got : /\ Takes("pump", got, Valves)
                   /\ asked' = IF got = Nothing THEN "unread" ELSE "read"
    BY <1>5 DEF PollPump
  <2>3. read'["pump"] = got
    BY <1>1, <2>2 DEF Takes
  <2>4. QED
    BY <2>1, <2>2, <2>3 DEF SlotOK, Watched
<1>6. CASE PollFault
  <2>1. /\ pc = "fault" /\ pc' = "verify" /\ UNCHANGED <<prev, fwState, asked, gap>>
    BY <1>6 DEF PollFault, watch
  <2>2. PICK got : Takes("fault", got, {})
    BY <1>6 DEF PollFault
  <2>3. read'["pump"] = read["pump"]
    BY <1>1, <2>2 DEF Takes
  <2>4. QED
    BY <2>1, <2>3 DEF SlotOK, Watched
<1>7. CASE clearVerifyTick
  <2>1. /\ pc = "verify" /\ pc' = "drain" /\ UNCHANGED <<read, fwState, asked, gap>>
    BY <1>7 DEF clearVerifyTick, watch, w, seen
  <2>2. QED
    BY <2>1 DEF SlotOK, Watched
<1>8. CASE Drained
  <2>1. /\ pc = "drain" /\ pc' = "watch" /\ UNCHANGED <<read, prev, session, fwState, asked, gap>>
    BY <1>8 DEF Drained, watch, w, eip, seen
  <2>2. QED
    BY <2>1 DEF SlotOK, Watched, Remembered
<1>9. CASE Sleeps
  <2>1. /\ pc = "sleep" /\ pc' = "top"
        /\ UNCHANGED <<read, prev, session, fwState, asked, gap>>
    BY <1>9 DEF Sleeps, Elapse, w, eip, seen
  <2>2. QED
    BY <2>1 DEF SlotOK, Watched, Remembered
<1>10. CASE Plant \/ WaterPasses \/ Closes \/ Drags \/ clearFault \/ Refuses
  <2>1. UNCHANGED <<read, prev, fwState, asked, gap, pc>>
    BY <1>10 DEF Plant, WaterPasses, Closes, Drags, Elapse, clearFault, Refuses, w, watch, seen
  <2>2. session' => session
    BY <1>1, <1>10 DEF Plant, WaterPasses, Closes, Drags, Elapse, clearFault, Refuses, eip
  <2>3. QED
    BY <2>1, <2>2, SlotRests
<1>11. CASE UNCHANGED vars
  BY <1>11, SlotRests DEF vars, watch, w, eip, seen
<1>12. QED
  BY <1>2, <1>3, <1>4, <1>5, <1>6, <1>7, <1>8, <1>9, <1>10, <1>11 DEF Next, Thread

(* No other text of the loop is the watch's, and it takes its own back     *)
(* with the latch.                                                         *)
LEMMA StepText ==
  ASSUME Quiet, TextLatched, [Next]_vars
  PROVE  TextLatched'
<1> USE DEF TextLatched
<1>1. CASE flowWatchTick
  <2>1. /\ latched' = (Mismatch \/ (latched /\ ~Released))
        /\ lastError' = IF latched /\ Released THEN TextTakenBack
                        ELSE IF latched' /\ lastError = "ok" THEN "flow" ELSE lastError
    BY <1>1 DEF flowWatchTick
  <2>2. TextTakenBack # "flow"
    BY DEF TextTakenBack
  <2>3. QED
    BY <2>1, <2>2
<1>2. CASE Reconnect
  <2>1. PICK joined \in BOOLEAN : lastError' \in {Told(joined), "offline"}
    BY <1>2 DEF Reconnect
  <2>2. QED
    BY <2>1, <1>2 DEF Told, Reconnect, watch
<1>3. CASE PollSensors
  BY <1>3, SensorFacts DEF PollSensors, watch
<1>4. CASE clearVerifyTick
  <2>1. said \in Texts
    BY DEF Quiet, TypeOK, ClearTypes
  <2>2. lastError' = "flow" => lastError = "flow"
    BY <1>4, <2>1 DEF clearVerifyTick, ClearSays, Texts
  <2>3. QED
    BY <1>4, <2>2 DEF clearVerifyTick, watch
<1>5. CASE clearFault
  BY <1>5 DEF clearFault, watch
<1>6. CASE Refuses
  BY <1>6 DEF Refuses, watch
<1>7. CASE Plant \/ WaterPasses \/ Drags \/ Sleeps \/ Closes
  BY <1>7 DEF Plant, WaterPasses, Drags, Sleeps, Elapse, Closes, watch
<1>8. CASE PollPump \/ PollFault \/ Drained
  BY <1>8 DEF PollPump, PollFault, Drained, watch
<1>9. CASE UNCHANGED vars
  BY <1>9 DEF vars, watch
<1>10. QED
  BY <1>1, <1>2, <1>3, <1>4, <1>5, <1>6, <1>7, <1>8, <1>9 DEF Next, Thread

-----------------------------------------------------------------------------
(* The results.                                                            *)

(* The invariant behind the results below.                                 *)
THEOREM Inductive == Spec => []IInv
<1>1. Init => IInv
  <2>1. Init => AnswersMatch
    BY DEF Init, AnswersMatch, Nothing
  <2>2. Init => SameSession /\ FaultFresh /\ SlotOK /\ Watched /\ TextLatched
    BY DEF Init, SameSession, FaultFresh, SlotOK, Remembered, Watched, TextLatched
  <2>3. QED
    BY <2>1, <2>2, InitQuiet DEF IInv
<1>2. IInv /\ [Next]_vars => IInv'
  <2>1. Quiet /\ [Next]_vars => Quiet'
    BY StepWorld, StepLink, StepRead, StepClear, StepWatch DEF Quiet, TypeOK
  <2>2. QED
    BY <2>1, StepAnswers, StepSame, StepFresh, StepWatched, StepText DEF IInv
<1>3. QED
  BY <1>1, <1>2, PTL DEF Spec

(* Every variable keeps its type, for all periods and budgets.             *)
THEOREM TypeCorrect == Spec => []TypeOK
<1>1. IInv => TypeOK
  BY DEF IInv, Quiet
<1>2. QED
  BY Inductive, <1>1, PTL

(* Every value in a slot answers the request of that slot: sendRRData ends *)
(* the session over every reply it does not wait for.                      *)
THEOREM AnswersBelong == Spec => []AnswersMatch
<1>1. IInv => AnswersMatch
  BY DEF IInv
<1>2. QED
  BY Inductive, <1>1, PTL

(* A clear is said confirmed or re-asserted on a bit read in the session   *)
(* that wrote it, and not before the clear was old enough (plc_thread.h).  *)
THEOREM ClearEarned == Spec => ClearVerdictEarned
<1> DEFINE A == pc = "verify" /\ pending /\ said' \in {"confirmed", "re-asserted"} /\ ~pending'
                => read["fault"].age >= Verify /\ ~read["fault"].crossed
<1>1. IInv /\ [Next]_vars => [A]_vars
  <2> SUFFICES ASSUME IInv, Next, pc = "verify", pending, ~pending',
                      said' \in {"confirmed", "re-asserted"}
               PROVE  read["fault"].age >= Verify /\ ~read["fault"].crossed
    OBVIOUS
  <2>1. clearVerifyTick
    BY DEF Next, Thread, Goes, Plant, Sees, WaterPasses, Closes, Drags, Sleeps, Elapse, Reconnect,
           PollSensors, PollPump, PollFault, clearFault, Refuses, Drained, flowWatchTick
  <2>2. BeganAfterDue /\ said' = ClearSays
    BY <2>1 DEF clearVerifyTick
  <2>3. read["fault"] # Nothing
    BY <2>2 DEF ClearSays
  <2>4. read["fault"].age >= clearAge - sweepAge /\ ~read["fault"].crossed
    BY <2>3 DEF IInv, FaultFresh
  <2>5. read["fault"].age \in Nat /\ clearAge \in Nat /\ sweepAge \in Nat
    <3>1. /\ read["fault"] \in Replies
          /\ clearAge \in 0..Verify + VerifyStale + 1 /\ sweepAge \in Nat
      BY DEF IInv, Quiet, TypeOK, ReadTypes, ClearTypes, Tags
    <3>2. read["fault"].age \in 0..Verify + VerifyStale + 1
      BY <3>1 DEF Replies
    <3>3. QED
      BY <3>1, <3>2, PeriodFacts
  <2>6. QED
    BY <2>2, <2>4, <2>5, PeriodFacts DEF BeganAfterDue
<1>2. QED
  BY Inductive, <1>1, PTL DEF Spec, ClearVerdictEarned

(* The pump's start and stop are seen in ticks that read it, a mismatch is *)
(* latched over a discharge of which no tick before the last left the pump *)
(* unread, and its text stands only while it is latched (flow_watch.h).    *)
THEOREM FlowEarned == Spec => FlowFaultEarned
<1> DEFINE A == pc = "watch" =>
                  /\ fwState' \notin {fwState, "idle"} => asked = "read"
                  /\ latched' /\ ~latched => ~gap /\ asked # "unread" /\ ~flowed
                  /\ lastError' = "flow" => latched'
<1>1. IInv /\ [Next]_vars => [A]_vars
  <2> SUFFICES ASSUME IInv, Next, pc = "watch" PROVE A
    OBVIOUS
  <2>1. flowWatchTick \/ UNCHANGED <<fwState, latched>>
    BY DEF Next, Thread, Goes, Plant, WaterPasses, Closes, Drags, Sleeps, Elapse,
           Reconnect, PollSensors, PollPump, PollFault, clearVerifyTick, clearFault,
           Refuses, Drained, watch
  <2>2. fwState' \notin {fwState, "idle"} => asked = "read"
    BY <2>1, MovesSeen DEF IInv
  <2>3. ASSUME latched', ~latched PROVE ~gap /\ asked # "unread" /\ ~flowed
    <3>1. flowWatchTick
      BY <2>1, <2>3
    <3>2. Mismatch
      BY <3>1, <2>3 DEF flowWatchTick
    <3>3. fwState = "settling" /\ ~GivesUp /\ ~flowed
      BY <3>2 DEF Mismatch, Judges, Ends
    <3>4. read["pump"] # Nothing
      BY <3>3 DEF GivesUp, PumpOk
    <3>5. QED
      BY <3>3, <3>4 DEF IInv, Watched, SlotOK
  <2>4. lastError' = "flow" => latched'
    BY StepText DEF IInv, TextLatched
  <2>5. QED
    BY <2>2, <2>3, <2>4
<1>2. QED
  BY Inductive, <1>1, PTL DEF Spec, FlowFaultEarned

==============================================================================
