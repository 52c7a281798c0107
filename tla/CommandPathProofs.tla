-------------------------- MODULE CommandPathProofs --------------------------
(***************************************************************************)
(* Proofs about CommandPath: type correctness and its three invariants, for*)
(* every size of the mailbox.                                              *)
(***************************************************************************)
EXTENDS CommandPath, TLAPS

(* Before a SYNC the gates are shut; behind them only the operator arms.   *)
Guarded ==
  /\ cloud # "synced" => ~syncSeen
  /\ enabled => byHand

(* Everything that waits, or is being written, was posted by its right.    *)
AllEntitled ==
  /\ cmd.entitled
  /\ \A i \in 1..Len(queue) : queue[i].entitled

(* With a session, what a tick may still write belongs to that session.    *)
MayWrite == conn /\ (pc \in {"top", "publish"} \/ allowWrites)

AllPresent ==
  /\ pc = "apply" => ~cmd.away
  /\ MayWrite => \A i \in 1..Len(queue) : ~queue[i].away

(* The copy of the master switch that decides is never on over a command   *)
(* that lost its switch.                                                   *)
Armed == IF Draining THEN ctrl ELSE enabled

AllGripped ==
  /\ (pc = "apply" /\ cmd.tag # "books") => cmd.grip # "lost"
  /\ Armed => \A i \in 1..Len(queue) : queue[i].grip # "lost"

IInv == TypeOK /\ Guarded /\ AllEntitled /\ AllPresent /\ AllGripped

-----------------------------------------------------------------------------
(* What the operations on the mailbox do to its commands.                  *)

(* Losing the session marks every waiting command and loses none.          *)
LEMMA WithoutSessionFacts ==
  ASSUME NEW q \in Seq(Cmds)
  PROVE  /\ WithoutSession(q) \in Seq(Cmds)
         /\ Len(WithoutSession(q)) = Len(q)
         /\ \A i \in 1..Len(q) : /\ WithoutSession(q)[i].entitled = q[i].entitled
                                 /\ WithoutSession(q)[i].grip = q[i].grip
<1>1. \A i \in 1..Len(q) : q[i] \in Cmds
  OBVIOUS
<1>2. \A i \in 1..Len(q) : [q[i] EXCEPT !.away = TRUE] \in Cmds
  BY <1>1 DEF Cmds
<1>3. \A i \in 1..Len(q) : /\ [q[i] EXCEPT !.away = TRUE].entitled = q[i].entitled
                           /\ [q[i] EXCEPT !.away = TRUE].grip = q[i].grip
  BY <1>1 DEF Cmds
<1>4. WithoutSession(q) \in Seq(Cmds) /\ Len(WithoutSession(q)) = Len(q)
  BY <1>2 DEF WithoutSession
<1>5. QED
  BY <1>3, <1>4 DEF WithoutSession

(* Moving the switch marks the commands the next tick will drain.          *)
LEMMA RegripFacts ==
  ASSUME NEW q \in Seq(Cmds), NEW on \in BOOLEAN
  PROVE  /\ Regrip(q, on) \in Seq(Cmds)
         /\ Len(Regrip(q, on)) = Len(q)
         /\ \A i \in 1..Len(q) : /\ Regrip(q, on)[i].entitled = q[i].entitled
                                 /\ Regrip(q, on)[i].away = q[i].away
                                 /\ (on /\ ~Draining) => Regrip(q, on)[i].grip # "lost"
<1>1. CASE Draining
  BY <1>1 DEF Regrip
<1>2. CASE ~Draining
  <2> DEFINE r(i) == [q[i] EXCEPT !.grip = Moved(@, on)]
  <2>1. \A i \in 1..Len(q) : q[i] \in Cmds
    OBVIOUS
  <2>2. \A i \in 1..Len(q) : r(i) \in Cmds
    BY <2>1 DEF Cmds, Moved
  <2>3. \A i \in 1..Len(q) : /\ r(i).entitled = q[i].entitled
                             /\ r(i).away = q[i].away
                             /\ on => r(i).grip # "lost"
    BY <2>1 DEF Cmds, Moved
  <2>4. Regrip(q, on) = [i \in 1..Len(q) |-> r(i)]
    BY <1>2 DEF Regrip
  <2> HIDE DEF r
  <2>5. Regrip(q, on) \in Seq(Cmds) /\ Len(Regrip(q, on)) = Len(q)
    BY <2>2, <2>4
  <2>6. QED
    BY <2>3, <2>4, <2>5
<1>3. QED
  BY <1>1, <1>2

(* A post adds one command at the end (shared.h, the mailbox).             *)
LEMMA AppendFacts ==
  ASSUME NEW q \in Seq(Cmds), NEW c \in Cmds
  PROVE  /\ Append(q, c) \in Seq(Cmds)
         /\ Len(Append(q, c)) = Len(q) + 1
         /\ \A i \in 1..Len(Append(q, c)) : Append(q, c)[i] = c \/ (i \in 1..Len(q) /\ Append(q, c)[i] = q[i])
  OBVIOUS

(* Taking the first command leaves the others in their order.              *)
LEMMA TailFacts ==
  ASSUME NEW q \in Seq(Cmds), q # <<>>
  PROVE  /\ Head(q) = q[1] /\ 1 \in 1..Len(q) /\ Head(q) \in Cmds
         /\ Tail(q) \in Seq(Cmds)
         /\ Len(Tail(q)) = Len(q) - 1
         /\ \A i \in 1..Len(Tail(q)) : i + 1 \in 1..Len(q) /\ Tail(q)[i] = q[i + 1]
  OBVIOUS

-----------------------------------------------------------------------------
(* The inductive invariant, operation by operation.                        *)

(* The program starts with empty hands and a shut gate.                    *)
LEMMA InitIInv == Init => IInv
<1> SUFFICES ASSUME Init PROVE IInv
  OBVIOUS
<1>1. queue = <<>> /\ Len(queue) = 0 /\ queue \in Seq(Cmds) /\ 0 <= Cap
  BY CapAssumption DEF Init
<1>2. cmd \in Cmds /\ cmd.entitled /\ pc = "top"
  BY DEF Init, NoCmd, Cmds, Tags
<1>3. TypeOK
  <2>1. queue \in Seq(Cmds) /\ Len(queue) <= Cap
    BY <1>1
  <2>2. QED
    BY <1>2, <2>1, Zenon DEF Init, TypeOK
<1>4. Guarded /\ AllEntitled /\ AllPresent /\ AllGripped
  <2>1. 1..Len(queue) = {}
    BY <1>1
  <2>2. Guarded
    BY DEF Init, Guarded
  <2>3. QED
    BY <1>2, <2>1, <2>2, Zenon DEF AllEntitled, AllPresent, AllGripped
<1>5. QED
  BY <1>3, <1>4 DEF IInv

(* A command that is posted, by whoever may, keeps the invariant.          *)
LEMMA PostStep ==
  ASSUME IInv, NEW tag \in Tags, NEW on \in BOOLEAN, NEW hand \in BOOLEAN,
         hand /\ (tag = "books" \/ byHand),
         ctrlPost(tag, on, hand), UNCHANGED <<cloudVars, plcVars, snapConn>>
  PROVE  IInv'
<1> DEFINE c == Posted(tag, on, hand)
<1>1. c \in Cmds /\ c.entitled /\ c.away = ~conn /\ c.grip = "kept"
  BY DEF Posted, Cmds, IInv, TypeOK
<1> HIDE DEF c
<1>2. queue \in Seq(Cmds) /\ Len(queue) \in Nat /\ Len(queue) <= Cap /\ Cap \in Nat
  BY CapAssumption DEF IInv, TypeOK
<1>3. UNCHANGED <<cloud, syncSeen, settled, enabled, byHand, snapConn, published, pc, w,
                  ctrl, allowWrites, cmd, conn, told>>
  BY DEF cloudVars, plcVars
<1>4. CASE Len(queue) < Cap
  <2>1. queue' = Append(queue, c)
    BY <1>4 DEF ctrlPost, c
  <2>2. /\ queue' \in Seq(Cmds) /\ Len(queue') = Len(queue) + 1
        /\ \A i \in 1..Len(queue') : queue'[i] = c \/ (i \in 1..Len(queue) /\ queue'[i] = queue[i])
    BY <1>1, <1>2, <2>1, AppendFacts
  <2>3. Len(queue') <= Cap
    BY <1>2, <1>4, <2>2
  <2>4. TypeOK'
    BY <1>3, <2>2, <2>3 DEF IInv, TypeOK
  <2>5. Guarded' /\ AllEntitled'
    BY <1>1, <1>3, <2>2 DEF IInv, Guarded, AllEntitled
  <2>6. AllPresent'
    BY <1>1, <1>3, <2>2 DEF IInv, AllPresent, MayWrite
  <2>7. AllGripped'
    BY <1>1, <1>3, <2>2 DEF IInv, AllGripped, Armed, Draining
  <2>8. QED
    BY <2>4, <2>5, <2>6, <2>7 DEF IInv
<1>5. CASE ~(Len(queue) < Cap)
  <2>1. queue' = queue
    BY <1>5 DEF ctrlPost
  <2>2. QED
    BY <1>3, <2>1 DEF IInv, TypeOK, Guarded, AllEntitled, AllPresent, MayWrite,
                      AllGripped, Armed, Draining
<1>6. QED
  BY <1>4, <1>5

(* The master switch moves: armed by the operator after a SYNC, or off.    *)
LEMMA SwitchStep ==
  ASSUME IInv, NEW on \in BOOLEAN, NEW hand \in BOOLEAN, on => hand,
         SetEnabled(on, hand), UNCHANGED <<plcVars, snapConn>>,
         cloud' \in {"down", "replaying", "synced"},
         syncSeen' \in BOOLEAN, settled' \in BOOLEAN,
         cloud' # "synced" => ~syncSeen'
  PROVE  IInv'
<1>1. enabled' = on /\ byHand' = (on /\ hand)
  BY DEF SetEnabled
<1>2. UNCHANGED <<snapConn, published, pc, w, ctrl, allowWrites, cmd, conn, told>>
  BY DEF plcVars
<1>3. queue \in Seq(Cmds) /\ Len(queue) <= Cap
  BY DEF IInv, TypeOK
<1>4. /\ queue' \in Seq(Cmds) /\ Len(queue') = Len(queue)
      /\ \A i \in 1..Len(queue) : queue'[i].entitled = queue[i].entitled /\ queue'[i].away = queue[i].away
      /\ Draining => queue' = queue
      /\ (on /\ ~Draining /\ ~enabled) => \A i \in 1..Len(queue) : queue'[i].grip # "lost"
      /\ (on /\ enabled) => queue' = queue
  <2>1. CASE on = enabled
    BY <1>3, <2>1 DEF SetEnabled
  <2>2. CASE on # enabled
    <3>1. queue' = Regrip(queue, on)
      BY <2>2 DEF SetEnabled
    <3>2. Draining => queue' = queue
      BY <3>1 DEF Regrip
    <3>3. ~(on /\ enabled)
      BY <2>2 DEF IInv, TypeOK
    <3>4. QED
      BY <1>3, <3>1, <3>2, <3>3, RegripFacts
  <2>3. QED
    BY <2>1, <2>2
<1>5. TypeOK'
  <2>1. enabled' \in BOOLEAN /\ byHand' \in BOOLEAN
    BY <1>1, Zenon
  <2>2. queue' \in Seq(Cmds) /\ Len(queue') <= Cap
    BY <1>3, <1>4
  <2>3. QED
    BY <1>2, <2>1, <2>2, Zenon DEF IInv, TypeOK
<1>6. Guarded'
  BY <1>1, Zenon DEF Guarded
<1>7. AllEntitled'
  BY <1>2, <1>4 DEF IInv, AllEntitled
<1>8. AllPresent'
  BY <1>2, <1>4 DEF IInv, AllPresent, MayWrite
<1>9. AllGripped'
  <2>1. CASE Draining
    BY <1>2, <1>4, <2>1 DEF IInv, AllGripped, Armed, Draining
  <2>2. CASE ~Draining
    <3>1. Armed' <=> on
      BY <1>1, <1>2, <2>2, Zenon DEF Armed, Draining
    <3>2. (on /\ enabled) => Armed
      BY <2>2 DEF Armed
    <3>3. on => \A i \in 1..Len(queue') : queue'[i].grip # "lost"
      BY <1>4, <2>2, <3>2 DEF IInv, AllGripped
    <3>4. QED
      BY <1>2, <3>1, <3>3 DEF IInv, AllGripped
  <2>3. QED
    BY <2>1, <2>2
<1>10. QED
  BY <1>5, <1>6, <1>7, <1>8, <1>9 DEF IInv

(* The session to the PLC goes down, outside the write of a command.       *)
LEMMA SessionLost ==
  ASSUME IInv
  PROVE  /\ WithoutSession(queue) \in Seq(Cmds)
         /\ Len(WithoutSession(queue)) = Len(queue)
         /\ Len(WithoutSession(queue)) <= Cap
         /\ \A i \in 1..Len(WithoutSession(queue)) :
              /\ WithoutSession(queue)[i].entitled
              /\ WithoutSession(queue)[i].grip = queue[i].grip
<1>1. queue \in Seq(Cmds) /\ Len(queue) <= Cap
  BY DEF IInv, TypeOK
<1>2. QED
  BY <1>1, WithoutSessionFacts DEF IInv, AllEntitled

(* A step that changes nothing.                                            *)
LEMMA StutterStep ==
  ASSUME IInv, UNCHANGED vars
  PROVE  IInv'
BY DEF vars, cloudVars, plcVars, IInv, TypeOK, Guarded, AllEntitled, AllPresent, MayWrite,
       AllGripped, Armed, Draining

(* A callback, from the library's replay or from the operator.             *)
LEMMA CallbackStep ==
  ASSUME IInv, NEW on \in BOOLEAN, NEW hand \in BOOLEAN,
         (cloud = "synced" /\ hand) \/ cloud = "replaying",
         Callback(on, hand), UNCHANGED <<plcVars, snapConn>>
  PROVE  IInv'
<1>1. ~ctrlQuiet => hand
  BY DEF ctrlQuiet, IInv, Guarded
<1>2. CASE onControlEnabledChange(on, hand)
  <2>1. UNCHANGED <<cloud, syncSeen, settled>>
    BY <1>2 DEF onControlEnabledChange
  <2>2. CASE ctrlQuiet
    BY <1>2, <2>1, <2>2, StutterStep DEF onControlEnabledChange, vars, cloudVars
  <2>3. CASE ~ctrlQuiet
    <3>1. SetEnabled(on, hand) /\ hand
      BY <1>1, <1>2, <2>3 DEF onControlEnabledChange
    <3>2. /\ cloud' \in {"down", "replaying", "synced"}
          /\ syncSeen' \in BOOLEAN /\ settled' \in BOOLEAN
      BY <2>1, Zenon DEF IInv, TypeOK
    <3>3. cloud' # "synced" => ~syncSeen'
      BY <2>1 DEF IInv, Guarded
    <3>4. QED
      BY <3>1, <3>2, <3>3, SwitchStep
  <2>4. QED
    BY <2>2, <2>3
<1>3. CASE onSystemRunChange(on, hand)
  <2>1. CASE ctrlGate
    <3>1. hand /\ byHand
      BY <1>1, <2>1 DEF ctrlGate, IInv, Guarded
    <3>2. ctrlPost("run", on, hand) /\ UNCHANGED cloudVars /\ "run" \in Tags
      BY <1>3, <2>1 DEF onSystemRunChange, Tags
    <3>3. QED
      BY <3>1, <3>2, PostStep
  <2>2. CASE ~ctrlGate
    BY <1>3, <2>2, StutterStep DEF onSystemRunChange, vars
  <2>3. QED
    BY <2>1, <2>2
<1>4. CASE onFlowResetTotalChange(on, hand)
  <2>1. CASE on /\ ~ctrlQuiet
    <3>1. ctrlPost("books", TRUE, hand) /\ UNCHANGED cloudVars /\ "books" \in Tags /\ hand
      BY <1>1, <1>4, <2>1 DEF onFlowResetTotalChange, Tags
    <3>2. QED
      BY <3>1, PostStep
  <2>2. CASE ~(on /\ ~ctrlQuiet)
    BY <1>4, <2>2, StutterStep DEF onFlowResetTotalChange, vars
  <2>3. QED
    BY <2>1, <2>2
<1>5. QED
  BY <1>2, <1>3, <1>4 DEF Callback

(* Sessions of the cloud, its callbacks and the snapshot.                  *)
LEMMA CloudStep ==
  ASSUME IInv, Cloud
  PROVE  IInv'
<1>1. CASE CloudConnect
  BY <1>1 DEF CloudConnect, plcVars, IInv, TypeOK, Guarded, AllEntitled, AllPresent, MayWrite,
              AllGripped, Armed, Draining
<1>2. CASE ctrlOnCloudSync
  <2>1. /\ cloud' = "synced" /\ syncSeen' = TRUE /\ settled' = FALSE
        /\ SetEnabled(FALSE, FALSE) /\ UNCHANGED <<plcVars, snapConn>>
    BY <1>2 DEF ctrlOnCloudSync
  <2>2. QED
    BY <2>1, SwitchStep
<1>3. CASE QuietOver
  BY <1>3 DEF QuietOver, plcVars, IInv, TypeOK, Guarded, AllEntitled, AllPresent, MayWrite,
              AllGripped, Armed, Draining
<1>4. CASE ctrlOnCloudDisconnect
  <2>1. /\ cloud' = "down" /\ syncSeen' = FALSE /\ settled' = FALSE
        /\ SetEnabled(FALSE, FALSE) /\ UNCHANGED <<plcVars, snapConn>>
    BY <1>4 DEF ctrlOnCloudDisconnect
  <2>2. QED
    BY <2>1, SwitchStep
<1>5. CASE Consume
  <2>1. snapConn' \in BOOLEAN
    BY <1>5, Zenon DEF Consume, IInv, TypeOK
  <2>2. QED
    BY <1>5, <2>1 DEF Consume, cloudVars, plcVars, IInv, TypeOK, Guarded, AllEntitled,
                      AllPresent, MayWrite, AllGripped, Armed, Draining
<1>6. ASSUME NEW on \in BOOLEAN, Replay(on)
      PROVE  IInv'
  <2>1. cloud = "replaying" /\ Callback(on, FALSE) /\ UNCHANGED <<plcVars, snapConn>>
    BY <1>6 DEF Replay
  <2>2. QED
    BY <2>1, CallbackStep
<1>7. ASSUME NEW on \in BOOLEAN, Operate(on)
      PROVE  IInv'
  <2>1. cloud = "synced" /\ Callback(on, TRUE) /\ UNCHANGED <<plcVars, snapConn>>
    BY <1>7 DEF Operate
  <2>2. QED
    BY <2>1, CallbackStep
<1>8. QED
  BY <1>1, <1>2, <1>3, <1>4, <1>5, <1>6, <1>7 DEF Cloud

-----------------------------------------------------------------------------
(* The tick of the PLC thread.                                             *)

(* The sweeps, in which the session may fail.                              *)
LEMMA TickPollStep ==
  ASSUME IInv, TickPoll
  PROVE  IInv'
<1>1. /\ pc = "top" /\ conn /\ pc' = "gate" /\ allowWrites' = TRUE
      /\ UNCHANGED <<cloud, syncSeen, settled, enabled, byHand, snapConn, ctrl, cmd, told, published>>
      /\ \/ UNCHANGED <<conn, w, queue>>
         \/ conn' = FALSE /\ w' \in BOOLEAN /\ queue' = WithoutSession(queue)
  BY DEF TickPoll, cloudVars
<1>2. conn' \in BOOLEAN /\ w' \in BOOLEAN
  BY <1>1, Zenon DEF IInv, TypeOK
<1>3. /\ queue' \in Seq(Cmds) /\ Len(queue') <= Cap /\ Len(queue') = Len(queue)
      /\ \A i \in 1..Len(queue') : queue'[i].entitled /\ queue'[i].grip = queue[i].grip
      /\ conn' = FALSE \/ queue' = queue
  BY <1>1, SessionLost DEF IInv, TypeOK, AllEntitled
<1>4. TypeOK'
  BY <1>1, <1>2, <1>3 DEF IInv, TypeOK
<1>5. Guarded' /\ AllEntitled'
  BY <1>1, <1>3 DEF IInv, Guarded, AllEntitled
<1>6. AllPresent'
  BY <1>1, <1>3 DEF IInv, AllPresent, MayWrite
<1>7. AllGripped'
  BY <1>1, <1>3 DEF IInv, AllGripped, Armed, Draining
<1>8. QED
  BY <1>4, <1>5, <1>6, <1>7 DEF IInv

(* The tick without a session, which forbids writes.                       *)
LEMMA TickAwayStep ==
  ASSUME IInv, TickAway
  PROVE  IInv'
<1>1. w' \in BOOLEAN /\ conn' \in BOOLEAN
  BY Zenon DEF TickAway
<1>2. TypeOK'
  BY <1>1 DEF TickAway, cloudVars, IInv, TypeOK
<1>3. QED
  BY <1>2 DEF TickAway, cloudVars, IInv, Guarded, AllEntitled, AllPresent, MayWrite,
              AllGripped, Armed, Draining

(* drainCommands reads the master switch once, for the whole drain.        *)
LEMMA ReadCtrlStep ==
  ASSUME IInv, ReadCtrl
  PROVE  IInv'
<1>1. /\ pc = "gate" /\ pc' = "drain" /\ ctrl' = enabled
      /\ UNCHANGED <<cloud, syncSeen, settled, enabled, byHand, snapConn, queue, w,
                     allowWrites, cmd, conn, told, published>>
  BY DEF ReadCtrl, cloudVars
<1>2. ctrl' \in BOOLEAN
  BY <1>1, Zenon DEF IInv, TypeOK
<1>3. TypeOK'
  BY <1>1, <1>2 DEF IInv, TypeOK
<1>4. (Armed' <=> Armed) /\ ~(pc' = "apply")
  BY <1>1, Zenon DEF Armed, Draining
<1>5. AllGripped'
  BY <1>1, <1>4 DEF IInv, AllGripped
<1>6. QED
  BY <1>1, <1>3, <1>5 DEF IInv, Guarded, AllEntitled, AllPresent, MayWrite

(* drainCommands takes one command and judges it.                          *)
LEMMA TakeStep ==
  ASSUME IInv, Take
  PROVE  IInv'
<1>1. /\ pc = "drain" /\ queue # <<>> /\ queue' = Tail(queue)
      /\ UNCHANGED <<cloud, syncSeen, settled, enabled, byHand, snapConn, w, ctrl,
                     allowWrites, conn, told, published>>
  BY DEF Take, cloudVars
<1>2. \/ pc' = "apply" /\ cmd' = Head(queue) /\ allowWrites /\ conn
         /\ (ctrl \/ Head(queue).tag = "books")
      \/ UNCHANGED <<pc, cmd>>
  BY DEF Take
<1>3. queue \in Seq(Cmds) /\ Len(queue) \in Nat /\ Len(queue) <= Cap /\ Cap \in Nat
  BY CapAssumption DEF IInv, TypeOK
<1>4. /\ Head(queue) = queue[1] /\ 1 \in 1..Len(queue) /\ Head(queue) \in Cmds
      /\ Tail(queue) \in Seq(Cmds)
      /\ Len(Tail(queue)) = Len(queue) - 1
      /\ \A i \in 1..Len(Tail(queue)) : i + 1 \in 1..Len(queue) /\ Tail(queue)[i] = queue[i + 1]
  BY <1>1, <1>3, TailFacts
<1>5. Len(queue') <= Cap
  BY <1>1, <1>3, <1>4
<1>6. TypeOK'
  BY <1>1, <1>2, <1>4, <1>5 DEF IInv, TypeOK
<1>7. Guarded' /\ AllEntitled'
  BY <1>1, <1>2, <1>4 DEF IInv, Guarded, AllEntitled
<1>8. AllPresent'
  BY <1>1, <1>2, <1>4 DEF IInv, AllPresent, MayWrite
<1>9. AllGripped'
  BY <1>1, <1>2, <1>4 DEF IInv, AllGripped, Armed, Draining
<1>10. QED
  BY <1>6, <1>7, <1>8, <1>9 DEF IInv

(* applyCommand writes, and may lose the session.                          *)
LEMMA ApplyStep ==
  ASSUME IInv, Apply
  PROVE  IInv'
<1>1. /\ pc = "apply" /\ pc' = "drain" /\ cmd' = NoCmd
      /\ UNCHANGED <<cloud, syncSeen, settled, enabled, byHand, snapConn, w, ctrl,
                     allowWrites, published>>
      /\ \/ UNCHANGED <<conn, queue>>
         \/ conn' = FALSE /\ queue' = WithoutSession(queue)
  BY DEF Apply, cloudVars
<1>2. told' \in BOOLEAN /\ conn' \in BOOLEAN
  <2>1. cmd.on \in BOOLEAN /\ told \in BOOLEAN
    BY DEF IInv, TypeOK, Cmds
  <2>2. told' \in BOOLEAN
    BY <2>1, Zenon DEF Apply
  <2>3. QED
    BY <1>1, <2>2, Zenon DEF IInv, TypeOK
<1>3. NoCmd \in Cmds /\ NoCmd.entitled
  BY DEF NoCmd, Cmds, Tags
<1>4. /\ queue' \in Seq(Cmds) /\ Len(queue') <= Cap /\ Len(queue') = Len(queue)
      /\ \A i \in 1..Len(queue') : queue'[i].entitled /\ queue'[i].grip = queue[i].grip
      /\ conn' = FALSE \/ (queue' = queue /\ conn' = conn)
  BY <1>1, SessionLost DEF IInv, TypeOK, AllEntitled
<1>5. TypeOK'
  BY <1>1, <1>2, <1>3, <1>4 DEF IInv, TypeOK
<1>6. Guarded' /\ AllEntitled'
  BY <1>1, <1>3, <1>4 DEF IInv, Guarded, AllEntitled
<1>7. AllPresent'
  BY <1>1, <1>4 DEF IInv, AllPresent, MayWrite
<1>8. AllGripped'
  BY <1>1, <1>4 DEF IInv, AllGripped, Armed, Draining
<1>9. QED
  BY <1>5, <1>6, <1>7, <1>8 DEF IInv

(* The mailbox is empty and the tick goes on to publish.                   *)
LEMMA DrainEndStep ==
  ASSUME IInv, DrainEnd
  PROVE  IInv'
<1>1. /\ queue' = <<>> /\ 1..Len(queue') = {} /\ queue' = queue
      /\ pc' = "publish" /\ ctrl' = FALSE /\ allowWrites' = FALSE
      /\ UNCHANGED <<cloud, syncSeen, settled, enabled, byHand, snapConn, w, cmd, conn,
                     told, published>>
  BY DEF DrainEnd, cloudVars
<1>2. TypeOK'
  BY <1>1 DEF IInv, TypeOK
<1>3. Guarded' /\ AllEntitled' /\ AllPresent' /\ AllGripped'
  BY <1>1 DEF IInv, Guarded, AllEntitled, AllPresent, AllGripped
<1>4. QED
  BY <1>2, <1>3 DEF IInv

(* The snapshot is handed over.                                            *)
LEMMA PublishStep ==
  ASSUME IInv, Publish
  PROVE  IInv'
<1>1. published' \in BOOLEAN
  BY Zenon DEF Publish, IInv, TypeOK
<1>2. TypeOK'
  BY <1>1 DEF Publish, cloudVars, IInv, TypeOK
<1>3. QED
  BY <1>2 DEF Publish, cloudVars, IInv, Guarded, AllEntitled, AllPresent, MayWrite,
              AllGripped, Armed, Draining

(* Every step of the PLC thread keeps the invariant.                       *)
LEMMA TickStep ==
  ASSUME IInv, Tick
  PROVE  IInv'
BY TickPollStep, TickAwayStep, ReadCtrlStep, TakeStep, ApplyStep, DrainEndStep, PublishStep
   DEF Tick

(* A reset of the gateway at any point.                                    *)
LEMMA RebootStep ==
  ASSUME IInv, Reboot
  PROVE  IInv'
<1>1. /\ queue' = <<>> /\ queue' \in Seq(Cmds) /\ Len(queue') <= Cap /\ 1..Len(queue') = {}
  BY CapAssumption DEF Reboot
<1>2. cmd' \in Cmds /\ cmd'.entitled /\ pc' = "top"
  BY DEF Reboot, NoCmd, Cmds, Tags
<1>3. TypeOK'
  BY <1>1, <1>2, Zenon DEF Reboot, IInv, TypeOK
<1>4. Guarded'
  BY DEF Reboot, Guarded
<1>5. QED
  BY <1>1, <1>2, <1>3, <1>4, Zenon DEF IInv, AllEntitled, AllPresent, AllGripped

-----------------------------------------------------------------------------
(***************************************************************************)
(* The strengthening holds in every reachable state: what waits in the     *)
(* mailbox is the operator's, belongs to the session a tick may write in,  *)
(* and has its master switch on whenever the tick will find it on.         *)
(***************************************************************************)
THEOREM Inductive == Spec => []IInv
<1>1. IInv /\ [Next]_vars => IInv'
  BY TickStep, CloudStep, RebootStep, StutterStep DEF Next
<1>2. QED
  BY InitIInv, <1>1, PTL DEF Spec

(* Type correctness of the command path, the mailbox's bound included.     *)
THEOREM TypeCorrect == Spec => []TypeOK
<1>1. IInv => TypeOK
  BY DEF IInv
<1>2. QED
  BY <1>1, Inductive, PTL

(***************************************************************************)
(* No value the cloud library replays is ever written to the PLC, in any   *)
(* order of sessions, SYNCs, reboots and ticks.                            *)
(***************************************************************************)
THEOREM OnlyOperators == Spec => []OnlyOperatorsReachPlc
<1>1. IInv => OnlyOperatorsReachPlc
  BY DEF IInv, AllEntitled, OnlyOperatorsReachPlc
<1>2. QED
  BY <1>1, Inductive, PTL

(***************************************************************************)
(* No command outlives the session to the PLC it was posted in.            *)
(***************************************************************************)
THEOREM NeverHeld == Spec => []NotHeldForReconnect
<1>1. IInv => NotHeldForReconnect
  BY DEF IInv, AllPresent, NotHeldForReconnect
<1>2. QED
  BY <1>1, Inductive, PTL

(***************************************************************************)
(* A master switch that is off when the tick reads it has stopped every    *)
(* machine command that waits.                                             *)
(***************************************************************************)
THEOREM DisarmedIsStopped == Spec => []DisarmStops
<1>1. IInv => DisarmStops
  BY DEF IInv, AllGripped, DisarmStops
<1>2. QED
  BY <1>1, Inductive, PTL
=============================================================================
