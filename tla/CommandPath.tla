----------------------------- MODULE CommandPath -----------------------------
(***************************************************************************)
(* A dashboard command on its way to the PLC: the cloud thread's callbacks *)
(* and gates (cloud_ctrl.h), the mailbox and the master switch shared with *)
(* the PLC thread (shared.h), and the tick that drains it (plc_thread.h).  *)
(*                                                                         *)
(* The two threads interleave at every shared access.  The cloud library   *)
(* replays stored values through the same callbacks, sessions come and go  *)
(* on both sides, and the watchdog may reset the gateway at any point.     *)
(*                                                                         *)
(* "run" stands for the machine switches that ctrlBool serves, "books" for *)
(* the water reset, which is not behind the master switch.                 *)
(***************************************************************************)
EXTENDS Integers, Sequences

CONSTANT Cap    \* slots of the mailbox, 16 in rtos::Mail<Cmd,16>

ASSUME CapAssumption == Cap \in Nat \ {0}

VARIABLES
  cloud,         \* the library's phase: a replay precedes every SYNC
  syncSeen,      \* s_syncSeen
  settled,       \* CTRL_SYNC_QUIET_MS have passed since s_syncMs
  enabled,       \* s_ctrlLocal.controlEnabled and its shared copy g_ctrl
  snapConn,      \* plcConnected in the cloud thread's snapshot
  queue,         \* g_cmdQueue
  published,     \* plcConnected in g_published
  pc, w, ctrl, allowWrites, cmd,   \* the PLC thread and its locals
  conn,          \* eip.connected()
  told,          \* the machine switch on the PLC
  byHand         \* ghost: the operator armed the control in this session

cloudVars == <<cloud, syncSeen, settled, enabled, byHand>>
plcVars   == <<pc, w, ctrl, allowWrites, cmd, conn, told, published>>
vars == <<cloudVars, plcVars, snapConn, queue>>

Tags == {"run", "books"}

(***************************************************************************)
(* A command carries its history as ghosts: whether an operator entitled   *)
(* to it posted it, whether the PLC session was gone then or since, and    *)
(* whether the master switch went off (and on again) before the tick that  *)
(* drains it.                                                              *)
(***************************************************************************)
Cmds == [tag : Tags, on : BOOLEAN, entitled : BOOLEAN, away : BOOLEAN,
         grip : {"kept", "lost", "regained"}]

NoCmd == [tag |-> "books", on |-> FALSE, entitled |-> TRUE, away |-> FALSE, grip |-> "kept"]

Draining == pc \in {"drain", "apply"}

\* Ghost: the session to the PLC went down.
WithoutSession(q) == [i \in 1..Len(q) |-> [q[i] EXCEPT !.away = TRUE]]

\* Ghost: the master switch moved before the tick that drains these commands.
Moved(grip, on) == IF ~on THEN "lost" ELSE IF grip = "lost" THEN "regained" ELSE grip

Regrip(q, on) ==
  IF Draining THEN q
  ELSE [i \in 1..Len(q) |-> [q[i] EXCEPT !.grip = Moved(@, on)]]

-----------------------------------------------------------------------------
(* The gates of cloud_ctrl.h, on the cloud thread.                         *)

ctrlQuiet == ~syncSeen \/ ~settled

ctrlGate == ~ctrlQuiet /\ enabled /\ snapConn

Posted(tag, on, hand) ==
  [tag |-> tag, on |-> on, away |-> ~conn, grip |-> "kept",
   entitled |-> hand /\ (tag = "books" \/ byHand)]

\* Mutant: a mailbox without a limit.
ctrlPostUnbounded(tag, on, hand) == queue' = Append(queue, Posted(tag, on, hand))

\* sharedCmdPost: a full mailbox drops the command and never blocks.
ctrlPost(tag, on, hand) ==
  queue' = IF Len(queue) < Cap THEN Append(queue, Posted(tag, on, hand)) ELSE queue

SetEnabled(on, hand) ==
  /\ enabled' = on
  /\ byHand' = (on /\ hand)
  /\ queue' = IF on = enabled THEN queue ELSE Regrip(queue, on)

onControlEnabledChange(on, hand) ==
  /\ IF ctrlQuiet THEN UNCHANGED <<enabled, byHand, queue>> ELSE SetEnabled(on, hand)
  /\ UNCHANGED <<cloud, syncSeen, settled>>

\* ctrlBool: the result of the post is not looked at.
onSystemRunChange(on, hand) ==
  /\ IF ctrlGate THEN ctrlPost("run", on, hand) ELSE UNCHANGED queue
  /\ UNCHANGED cloudVars

onFlowResetTotalChange(on, hand) ==
  /\ IF on /\ ~ctrlQuiet THEN ctrlPost("books", TRUE, hand) ELSE UNCHANGED queue
  /\ UNCHANGED cloudVars

Callback(on, hand) ==
  \/ onControlEnabledChange(on, hand)
  \/ onSystemRunChange(on, hand)
  \/ onFlowResetTotalChange(on, hand)

-----------------------------------------------------------------------------
(* The library's side of the cloud thread: connection, replay, SYNC.       *)

CloudConnect ==
  /\ cloud = "down"
  /\ cloud' = "replaying"
  /\ UNCHANGED <<syncSeen, settled, enabled, byHand, plcVars, snapConn, queue>>

\* The stored value of a control, whatever it is, goes through its callback.
Replay(on) ==
  /\ cloud = "replaying"
  /\ Callback(on, FALSE)
  /\ UNCHANGED <<plcVars, snapConn>>

ctrlOnCloudSync ==
  /\ cloud = "replaying"
  /\ cloud' = "synced"
  /\ syncSeen' = TRUE /\ settled' = FALSE
  /\ SetEnabled(FALSE, FALSE)
  /\ UNCHANGED <<plcVars, snapConn>>

QuietOver ==
  /\ syncSeen /\ ~settled
  /\ settled' = TRUE
  /\ UNCHANGED <<cloud, syncSeen, enabled, byHand, plcVars, snapConn, queue>>

\* Mutant: the flag of the previous SYNC survives the disconnect.
ctrlOnCloudDisconnectKeep ==
  /\ cloud # "down"
  /\ cloud' = "down"
  /\ SetEnabled(FALSE, FALSE)
  /\ UNCHANGED <<syncSeen, settled, plcVars, snapConn>>

ctrlOnCloudDisconnect ==
  /\ cloud # "down"
  /\ cloud' = "down"
  /\ syncSeen' = FALSE /\ settled' = FALSE
  /\ SetEnabled(FALSE, FALSE)
  /\ UNCHANGED <<plcVars, snapConn>>

\* The operator moves a switch or presses a button.
Operate(on) ==
  /\ cloud = "synced"
  /\ Callback(on, TRUE)
  /\ UNCHANGED <<plcVars, snapConn>>

\* cloudSideConsume, at the top of every pass.
Consume ==
  /\ snapConn' = published
  /\ UNCHANGED <<cloudVars, plcVars, queue>>

-----------------------------------------------------------------------------
(* A tick of the PLC thread (plcThreadBody).                               *)

\* The session may fail in any of the sweeps; all sensors unread clears w too.
TickPoll ==
  /\ pc = "top" /\ conn
  /\ \/ UNCHANGED <<conn, w, queue>>
     \/ conn' = FALSE /\ w' \in BOOLEAN /\ queue' = WithoutSession(queue)
  /\ allowWrites' = TRUE
  /\ pc' = "gate"
  /\ UNCHANGED <<cloudVars, snapConn, ctrl, cmd, told, published>>

\* Mutant: the tick of a reconnect may write.
TickAwayEager ==
  /\ pc = "top" /\ ~conn
  /\ conn' \in BOOLEAN
  /\ w' = conn'
  /\ allowWrites' = conn'
  /\ pc' = "gate"
  /\ UNCHANGED <<cloudVars, snapConn, queue, ctrl, cmd, told, published>>

\* Mutant: commands wait in the mailbox for the PLC.
TickAwayHold ==
  /\ pc = "top" /\ ~conn
  /\ conn' \in BOOLEAN
  /\ w' = conn'
  /\ pc' = "publish"
  /\ UNCHANGED <<cloudVars, snapConn, queue, ctrl, cmd, told, published, allowWrites>>

\* Without a session: reconnect if the backoff is over, and drop what waits.
TickAway ==
  /\ pc = "top" /\ ~conn
  /\ conn' \in BOOLEAN
  /\ w' = conn'
  /\ allowWrites' = FALSE
  /\ pc' = "gate"
  /\ UNCHANGED <<cloudVars, snapConn, queue, ctrl, cmd, told, published>>

\* Mutant: the second gate, on the PLC thread, is dropped.
ReadCtrlTrusting ==
  /\ pc = "gate"
  /\ ctrl' = TRUE
  /\ pc' = "drain"
  /\ UNCHANGED <<cloudVars, snapConn, queue, w, allowWrites, cmd, conn, told, published>>

\* drainCommands reads the master switch once.
ReadCtrl ==
  /\ pc = "gate"
  /\ ctrl' = enabled
  /\ pc' = "drain"
  /\ UNCHANGED <<cloudVars, snapConn, queue, w, allowWrites, cmd, conn, told, published>>

\* The next command is applied or dropped with a report.
Take ==
  /\ pc = "drain" /\ queue # <<>>
  /\ queue' = Tail(queue)
  /\ LET c == Head(queue)
     IN IF allowWrites /\ (ctrl \/ c.tag = "books") /\ conn
        THEN pc' = "apply" /\ cmd' = c
        ELSE UNCHANGED <<pc, cmd>>
  /\ UNCHANGED <<cloudVars, snapConn, w, ctrl, allowWrites, conn, told, published>>

\* applyCommand: the write is taken, refused, or lost with the session, the
\* PLC having taken it or not.
Apply ==
  /\ pc = "apply"
  /\ told' \in {told, IF cmd.tag = "run" THEN cmd.on ELSE told}
  /\ \/ UNCHANGED <<conn, queue>>
     \/ conn' = FALSE /\ queue' = WithoutSession(queue)
  /\ pc' = "drain" /\ cmd' = NoCmd
  /\ UNCHANGED <<cloudVars, snapConn, w, ctrl, allowWrites, published>>

DrainEnd ==
  /\ pc = "drain" /\ queue = <<>>
  /\ pc' = "publish"
  /\ ctrl' = FALSE /\ allowWrites' = FALSE
  /\ UNCHANGED <<cloudVars, snapConn, queue, w, cmd, conn, told, published>>

Publish ==
  /\ pc = "publish"
  /\ published' = w
  /\ pc' = "top"
  /\ UNCHANGED <<cloudVars, snapConn, queue, w, ctrl, allowWrites, cmd, conn, told>>

-----------------------------------------------------------------------------
Init ==
  /\ cloud = "down" /\ syncSeen = FALSE /\ settled = FALSE
  /\ enabled = FALSE /\ byHand = FALSE
  /\ snapConn = FALSE /\ queue = <<>> /\ published = FALSE
  /\ pc = "top" /\ w = FALSE /\ ctrl = FALSE /\ allowWrites = FALSE
  /\ cmd = NoCmd /\ conn = FALSE
  /\ told \in BOOLEAN

\* A watchdog reset or an applied OTA; the PLC stands as it was told.
Reboot ==
  /\ cloud' = "down" /\ syncSeen' = FALSE /\ settled' = FALSE
  /\ enabled' = FALSE /\ byHand' = FALSE
  /\ snapConn' = FALSE /\ queue' = <<>> /\ published' = FALSE
  /\ pc' = "top" /\ w' = FALSE /\ ctrl' = FALSE /\ allowWrites' = FALSE
  /\ cmd' = NoCmd /\ conn' = FALSE
  /\ UNCHANGED told

Tick == TickPoll \/ TickAway \/ ReadCtrl \/ Take \/ Apply \/ DrainEnd \/ Publish

Cloud ==
  \/ CloudConnect \/ ctrlOnCloudSync \/ QuietOver \/ ctrlOnCloudDisconnect \/ Consume
  \/ \E on \in BOOLEAN : Replay(on) \/ Operate(on)

Next == Tick \/ Cloud \/ Reboot

Spec == Init /\ [][Next]_vars

\* The PLC thread's loop never ends and its calls are bounded by time-outs.
FairSpec == Spec /\ WF_vars(Tick)

-----------------------------------------------------------------------------
TypeOK ==
  /\ cloud \in {"down", "replaying", "synced"}
  /\ syncSeen \in BOOLEAN /\ settled \in BOOLEAN
  /\ enabled \in BOOLEAN /\ byHand \in BOOLEAN
  /\ told \in BOOLEAN
  /\ snapConn \in BOOLEAN /\ published \in BOOLEAN /\ w \in BOOLEAN
  /\ queue \in Seq(Cmds) /\ Len(queue) <= Cap
  /\ pc \in {"top", "gate", "drain", "apply", "publish"}
  /\ ctrl \in BOOLEAN /\ allowWrites \in BOOLEAN /\ cmd \in Cmds /\ conn \in BOOLEAN

(***************************************************************************)
(* Nothing the library replays reaches the PLC, across any order of        *)
(* disconnects, SYNCs, reboots and late ticks: a command that is written   *)
(* was posted by an operator and, but for the water reset, under a master  *)
(* switch the operator turned on after the last SYNC (cloud_ctrl.h, "after *)
(* every boot AND after every reconnect").                                 *)
(***************************************************************************)
OnlyOperatorsReachPlc == pc = "apply" => cmd.entitled

(***************************************************************************)
(* A command posted while the PLC was away, or before its session broke,   *)
(* never fires on a later session (plc_thread.h, "dropped and reported,    *)
(* never held for the reconnect").                                         *)
(***************************************************************************)
NotHeldForReconnect == pc = "apply" => ~cmd.away

(***************************************************************************)
(* A master switch that goes off before the tick and stays off stops every *)
(* machine command that is still waiting.                                  *)
(***************************************************************************)
DisarmStops == (pc = "apply" /\ cmd.tag # "books") => cmd.grip # "lost"

(***************************************************************************)
(* A full mailbox makes room again even while the PLC stays away: posting  *)
(* never blocks, so a mailbox nobody drains would refuse for ever.         *)
(***************************************************************************)
MakesRoom == (Len(queue) = Cap) ~> (Len(queue) < Cap)

=============================================================================
