----------------------------- MODULE WaterLedger -----------------------------
(***************************************************************************)
(* The water accounting of the gateway: flow_meter.h (pulses, batches and  *)
(* the commit journal) and water_plc.h (waterToPlc, waterOnReset), both on *)
(* the PLC thread, against a PLC whose tags an engineer's program download *)
(* and the HMI's reset buttons change at any moment.                       *)
(*                                                                         *)
(* waterToPlc is one function but a dozen round trips, so it is a program  *)
(* counter here: between two of them the PLC may change, the session may   *)
(* drop with the request or only the reply lost, the CIP service may       *)
(* refuse, and the watchdog may reset the gateway.                         *)
(*                                                                         *)
(* Litres are integers: the unit is larger than WATERVOL_DROP_EPS, so "more*)
(* than the slop below" is "below".  Rate limits and the hour gate become  *)
(* free choices of the thread.                                             *)
(***************************************************************************)
EXTENDS Integers, Sequences

CONSTANTS
  WrapL,           \* WATERVOL_WRAP_L
  MaxSaneL,        \* WATERVOL_MAX_SANE_L
  Litres,          \* litres one tick of flow may measure
  DownloadTotals,  \* what a program download may leave in the total
  Budget           \* how often each environment event may happen

Events == {"litres", "faults", "downloads", "presses", "reboots"}

ASSUME WrapAssumption == WrapL \in Nat \ {0} /\ MaxSaneL \in Nat
ASSUME LitresAssumption == Litres \subseteq Nat
ASSUME DownloadAssumption == DownloadTotals \subseteq Int
ASSUME BudgetAssumption == Budget \in [Events -> Nat]

VARIABLES
  plc,           \* the REAL tags; "hist" stands for the newest history slot
  flag,          \* the two BOOL request tags the HMI raises
  conn,          \* eip.connected()
  uncommittedL, pendingCommit, inBatch,             \* flow_meter.h statics
  lastGoodCum, lastGoodValid,                       \* water_plc.h statics
  tripEverOk, hmiEverRun,                           \* waterToPlc, hmiUpdateDue statics
  liveCum, liveTrip, liveTripValid,                 \* snapshot fields
  pc, base, zi, zeroOk, zeroFor, tripProbe, forceHmi, push,  \* waterToPlc locals
  left,          \* what is left of Budget
  truth, laps, surplus, excused                     \* history, see "Ghosts"

plcVars  == <<plc, flag>>
flowVars == <<uncommittedL, pendingCommit, inBatch>>
goodVars == <<lastGoodCum, lastGoodValid>>
onceVars == <<tripEverOk, hmiEverRun>>
liveVars == <<liveCum, liveTrip, liveTripValid>>
locals   == <<base, zi, zeroOk, zeroFor, tripProbe, forceHmi, push>>
ghosts   == <<truth, laps, surplus, excused>>
vars == <<plcVars, conn, flowVars, goodVars, onceVars, liveVars, pc, locals, left, ghosts>>

Tags  == {"total", "display", "mark", "trip", "hist"}
Flags == {"reset", "tripReset"}
Steps == {"idle", "rdReset", "zero", "ackReset", "rdTrip", "rdCur", "wrMark",
          "wrTrip0", "clrHist", "ackTrip", "rdBase", "restore", "commit",
          "rdMark", "wrDisplay", "wrTrip", "wrHist"}

\* The order of waterOnReset's writes.  A local is put back to its initial value
\* where the function is done with it.
ZeroOrder == <<"total", "display", "mark", "trip", "hist">>

(***************************************************************************)
(* Ghosts.  truth: litres the meter should show, unwrapped, since the last *)
(* reset or first base.  laps: rollovers written by commits.  surplus: by  *)
(* how much a PLC reading was adopted above the books.  excused: the tag   *)
(* may have gone above the books by a lost reply or a download.            *)
(***************************************************************************)

-----------------------------------------------------------------------------
(* Helpers of water_plc.h and flow_meter.h.                                *)

\* Mutant: the rollover subtracts the span without looking.
waterVolWrapAlways(v) == v - WrapL

waterVolWrap(v) == v % WrapL

tripFromMark(cum, mark) == IF cum < mark THEN cum - mark + WrapL ELSE cum - mark

saneVol(v) == v >= 0 /\ v <= MaxSaneL

\* Mutant: a commit waits for the running discharge to end.
flowCommitReadyIdle == pendingCommit /\ ~inBatch /\ uncommittedL > 0

flowCommitReady == pendingCommit /\ uncommittedL > 0

\* One litre balance of the gateway's own books, unwrapped.
Books == WrapL * laps + lastGoodCum + uncommittedL

Spend(e) == left[e] > 0 /\ left' = [left EXCEPT ![e] = @ - 1]

-----------------------------------------------------------------------------
(* One round trip of EtherNetIP.cpp.  A refusal keeps the session; losing  *)
(* the request or the reply ends it, and every later call then fails.      *)

NoReply == \/ ~conn /\ UNCHANGED <<conn, left>>
           \/ conn /\ conn' \in BOOLEAN /\ Spend("faults")

PlcRead(ok) == \/ ok /\ conn /\ UNCHANGED <<conn, left>>
               \/ ~ok /\ NoReply

PlcWrite(tag, v, ok) ==
  \/ ok /\ conn /\ plc' = [plc EXCEPT ![tag] = v] /\ UNCHANGED <<conn, left>>
  \/ ~ok /\ NoReply /\ UNCHANGED plc
  \/ ~ok /\ conn /\ conn' = FALSE /\ Spend("faults") /\ plc' = [plc EXCEPT ![tag] = v]

FlagClear(f) ==
  \/ conn /\ flag' = [flag EXCEPT ![f] = FALSE] /\ UNCHANGED <<conn, left>>
  \/ NoReply /\ UNCHANGED flag
  \/ conn /\ conn' = FALSE /\ Spend("faults") /\ flag' = [flag EXCEPT ![f] = FALSE]

-----------------------------------------------------------------------------
(* The environment: the PLC program, the operator at the HMI, the watchdog.*)

\* A program download reinitialises every tag; the total may come up anywhere.
Download(t) ==
  /\ Spend("downloads")
  /\ plc' = [x \in Tags |-> IF x = "total" THEN t ELSE 0]
  /\ flag' = [f \in Flags |-> FALSE]
  /\ excused' = (excused \/ t > lastGoodCum)
  /\ UNCHANGED <<conn, flowVars, goodVars, onceVars, liveVars, pc, locals,
                 truth, laps, surplus>>

\* The HMI's button only raises the request.
Press(f) ==
  /\ Spend("presses")
  /\ flag' = [flag EXCEPT ![f] = TRUE]
  /\ UNCHANGED <<plc, conn, flowVars, goodVars, onceVars, liveVars, pc, locals, ghosts>>

\* A reset of the gateway: everything but the PLC's tags is RAM.
Reboot ==
  /\ Spend("reboots")
  /\ conn' = FALSE
  /\ uncommittedL' = 0 /\ pendingCommit' = FALSE /\ inBatch' = FALSE
  /\ lastGoodCum' = 0 /\ lastGoodValid' = FALSE
  /\ tripEverOk' = FALSE /\ hmiEverRun' = FALSE
  /\ liveCum' = 0 /\ liveTrip' = 0 /\ liveTripValid' = FALSE
  /\ pc' = "idle" /\ base' = 0 /\ zi' = 1 /\ zeroOk' = TRUE /\ zeroFor' = "hmi"
  /\ tripProbe' = TRUE /\ forceHmi' = FALSE /\ push' = FALSE
  /\ truth' = 0 /\ laps' = 0 /\ surplus' = 0 /\ excused' = FALSE
  /\ UNCHANGED plcVars

-----------------------------------------------------------------------------
(* flowTick, at the top of every tick, connected or not.                   *)

\* Flow above the batch threshold: the litres enter the journal.
FlowTick(l) ==
  /\ pc = "idle"
  /\ Spend("litres")
  /\ inBatch' = TRUE
  /\ uncommittedL' = uncommittedL + l
  /\ truth' = IF lastGoodValid THEN truth + l ELSE truth
  /\ UNCHANGED <<plcVars, conn, pendingCommit, goodVars, onceVars, liveVars, pc,
                 locals, laps, surplus, excused>>

\* FLOW_BATCH_IDLE_MS without flow: the discharge is handed to the commit.
BatchEnd ==
  /\ pc = "idle"
  /\ inBatch
  /\ inBatch' = FALSE
  /\ pendingCommit' = TRUE
  /\ UNCHANGED <<plcVars, conn, uncommittedL, goodVars, onceVars, liveVars, pc,
                 locals, left, ghosts>>

\* The thread's reconnect branch: eip.begin succeeded.
Reconnect ==
  /\ pc = "idle" /\ ~conn
  /\ conn' = TRUE
  /\ UNCHANGED <<plcVars, flowVars, goodVars, onceVars, liveVars, pc, locals,
                 left, ghosts>>

-----------------------------------------------------------------------------
(* waterOnReset: five writes, each attempted whatever the others returned. *)

StartZero(who) == pc' = "zero" /\ zi' = 1 /\ zeroOk' = TRUE /\ zeroFor' = who

\* CMD_FLOW_RESET_TOTAL from the cloud, taken by drainCommands on a live session.
CloudReset ==
  /\ pc = "idle" /\ conn
  /\ Spend("presses")
  /\ StartZero("cloud")
  /\ UNCHANGED <<plcVars, conn, flowVars, goodVars, onceVars, liveVars, base,
                 tripProbe, forceHmi, push, ghosts>>

ClearBooks ==
  /\ uncommittedL' = 0 /\ pendingCommit' = FALSE
  /\ lastGoodCum' = 0 /\ lastGoodValid' = TRUE
  /\ truth' = 0 /\ laps' = 0 /\ surplus' = 0
  /\ excused' = (plc["total"] > 0)
  /\ UNCHANGED <<inBatch>>

ZeroDone(allOk) ==
  /\ IF allOk THEN ClearBooks ELSE UNCHANGED <<flowVars, goodVars, ghosts>>
  /\ pc' = CASE zeroFor = "cloud"         -> "idle"
             [] zeroFor = "hmi" /\ allOk  -> "ackReset"
             [] zeroFor = "hmi" /\ ~allOk -> "rdTrip"
  /\ zi' = 1 /\ zeroOk' = TRUE /\ zeroFor' = "hmi"

\* Mutant: only the last write decides whether the reset was taken.
ZeroLastOnly ==
  /\ pc = "zero"
  /\ \E ok \in BOOLEAN :
       /\ PlcWrite(ZeroOrder[zi], 0, ok)
       /\ IF zi < Len(ZeroOrder)
          THEN /\ zi' = zi + 1
               /\ UNCHANGED <<pc, zeroOk, zeroFor, flowVars, goodVars, ghosts>>
          ELSE ZeroDone(ok)
  /\ UNCHANGED <<flag, onceVars, liveVars, base, tripProbe, forceHmi, push>>

Zero ==
  /\ pc = "zero"
  /\ \E ok \in BOOLEAN :
       /\ PlcWrite(ZeroOrder[zi], 0, ok)
       /\ IF zi < Len(ZeroOrder)
          THEN /\ zi' = zi + 1 /\ zeroOk' = (zeroOk /\ ok)
               /\ UNCHANGED <<pc, zeroFor, flowVars, goodVars, ghosts>>
          ELSE ZeroDone(zeroOk /\ ok)
  /\ UNCHANGED <<flag, onceVars, liveVars, base, tripProbe, forceHmi, push>>

-----------------------------------------------------------------------------
(* waterToPlc, first half: the two request flags.                          *)

\* A pass begins with the HMI's lifetime-reset flag.
RdReset ==
  /\ pc = "idle" /\ conn
  /\ \E ok \in BOOLEAN :
       /\ PlcRead(ok)
       /\ IF ok /\ flag["reset"]
          THEN StartZero("hmi")
          ELSE pc' = "rdTrip" /\ UNCHANGED <<zi, zeroOk, zeroFor>>
  /\ forceHmi' = FALSE
  /\ UNCHANGED <<plcVars, flowVars, goodVars, onceVars, liveVars, base, tripProbe,
                 push, ghosts>>

AckReset ==
  /\ pc = "ackReset"
  /\ FlagClear("reset")
  /\ pc' = "rdTrip"
  /\ UNCHANGED <<plc, flowVars, goodVars, onceVars, liveVars, locals, ghosts>>

\* Trip tags that never answered are probed only now and then.
RdTrip ==
  /\ pc = "rdTrip"
  /\ tripProbe' \in (IF tripEverOk THEN {TRUE} ELSE BOOLEAN)
  /\ \/ /\ ~tripProbe' /\ pc' = "rdBase" /\ UNCHANGED <<conn, left>>
     \/ /\ tripProbe'
        /\ \E ok \in BOOLEAN :
             /\ PlcRead(ok)
             /\ pc' = IF ok /\ flag["tripReset"] THEN "rdCur" ELSE "rdBase"
  /\ UNCHANGED <<plcVars, flowVars, goodVars, onceVars, liveVars, base, zi, zeroOk,
                 zeroFor, forceHmi, push, ghosts>>

\* No acknowledgement, and no mark, without a readable lifetime total.
RdCur ==
  /\ pc = "rdCur"
  /\ \E ok \in BOOLEAN :
       /\ PlcRead(ok)
       /\ IF ok /\ saneVol(plc["total"])
          THEN base' = plc["total"] /\ pc' = "wrMark"
          ELSE base' = 0 /\ pc' = "rdBase"
  /\ UNCHANGED <<plcVars, flowVars, goodVars, onceVars, liveVars, zi, zeroOk,
                 zeroFor, tripProbe, forceHmi, push, ghosts>>

\* The results of these three writes and of the acknowledgement are ignored.
TripStep(at, tag, v, next) ==
  /\ pc = at
  /\ \E ok \in BOOLEAN : PlcWrite(tag, v, ok)
  /\ pc' = next
  /\ UNCHANGED <<flag, flowVars, goodVars, onceVars, liveVars, locals, ghosts>>

WrMark  == TripStep("wrMark", "mark", base, "wrTrip0")
WrTrip0 == TripStep("wrTrip0", "trip", 0, "clrHist")
ClrHist == TripStep("clrHist", "hist", 0, "ackTrip")

AckTrip ==
  /\ pc = "ackTrip"
  /\ FlagClear("tripReset")
  /\ pc' = "rdBase" /\ base' = 0
  /\ UNCHANGED <<plc, flowVars, goodVars, onceVars, liveVars, zi, zeroOk, zeroFor,
                 tripProbe, forceHmi, push, ghosts>>

-----------------------------------------------------------------------------
(* waterToPlc, second half: base, restore, commit, live and HMI figures.   *)

\* Mutant: every base in the sanity band is trusted.
RdBaseTrusting ==
  /\ pc = "rdBase"
  /\ \E ok \in BOOLEAN :
       /\ PlcRead(ok)
       /\ IF ok /\ saneVol(plc["total"])
          THEN base' = plc["total"] /\ pc' = "commit"
          ELSE base' = 0 /\ pc' = "idle"
  /\ UNCHANGED <<plcVars, flowVars, goodVars, onceVars, liveVars, zi, zeroOk,
                 zeroFor, tripProbe, forceHmi, push, ghosts>>

\* The base is read every pass; one below the books is a replaced PLC copy.
RdBase ==
  /\ pc = "rdBase"
  /\ \E ok \in BOOLEAN :
       /\ PlcRead(ok)
       /\ IF ok /\ saneVol(plc["total"])
          THEN /\ base' = plc["total"]
               /\ pc' = IF lastGoodValid /\ plc["total"] < lastGoodCum
                        THEN "restore" ELSE "commit"
          ELSE base' = 0 /\ pc' = "idle"
  /\ UNCHANGED <<plcVars, flowVars, goodVars, onceVars, liveVars, zi, zeroOk,
                 zeroFor, tripProbe, forceHmi, push, ghosts>>

\* Mutant: WATERVOL_RESTORE_ENABLE 0, a lower base is only refused.
RestoreDisabled ==
  /\ pc = "restore"
  /\ base' = 0 /\ pc' = "idle"
  /\ UNCHANGED <<plcVars, conn, flowVars, goodVars, onceVars, liveVars, zi, zeroOk,
                 zeroFor, tripProbe, forceHmi, push, left, ghosts>>

Restore ==
  /\ pc = "restore"
  /\ \E ok \in BOOLEAN :
       /\ PlcWrite("total", lastGoodCum, ok)
       /\ IF ok
          THEN base' = lastGoodCum /\ forceHmi' = TRUE /\ pc' = "commit"
          ELSE base' = 0 /\ forceHmi' = FALSE /\ pc' = "idle"
  /\ UNCHANGED <<flag, flowVars, goodVars, onceVars, liveVars, zi, zeroOk,
                 zeroFor, tripProbe, push, ghosts>>

\* Mutant: the reference is taken before the commit, not after.
SettleEarly(newBase, journal, rolled) ==
  /\ lastGoodCum' = base /\ lastGoodValid' = TRUE
  /\ uncommittedL' = journal
  /\ liveCum' = waterVolWrap(newBase + journal)
  /\ base' = 0
  /\ pc' = "rdMark"
  /\ laps' = (IF lastGoodValid THEN laps ELSE 0) + rolled
  /\ truth' = IF lastGoodValid THEN truth ELSE base + uncommittedL
  /\ surplus' = IF lastGoodValid THEN surplus + (base - lastGoodCum) ELSE 0

\* What the pass leaves behind once the commit is settled: the reference, the
\* journal and the live total.  rolled is how often the commit wrapped.
Settle(newBase, journal, rolled) ==
  /\ lastGoodCum' = newBase /\ lastGoodValid' = TRUE
  /\ uncommittedL' = journal
  /\ liveCum' = waterVolWrap(newBase + journal)
  /\ base' = 0
  /\ pc' = "rdMark"
  /\ laps' = (IF lastGoodValid THEN laps ELSE 0) + rolled
  /\ truth' = IF lastGoodValid THEN truth ELSE base + uncommittedL
  /\ surplus' = IF lastGoodValid THEN surplus + (base - lastGoodCum) ELSE 0

\* Nothing to commit: the discharge in progress only shows in the live total.
NoCommit ==
  /\ pc = "commit"
  /\ ~flowCommitReady
  /\ Settle(base, uncommittedL, 0)
  /\ UNCHANGED <<plcVars, conn, pendingCommit, inBatch, onceVars, liveTrip,
                 liveTripValid, zi, zeroOk, zeroFor, tripProbe, forceHmi, push,
                 left, excused>>

\* Mutant: the journal is debited whatever the PLC answered.
CommitDebitFirst ==
  /\ pc = "commit"
  /\ flowCommitReady
  /\ LET newCum == waterVolWrap(base + uncommittedL)
     IN \E ok \in BOOLEAN :
          /\ PlcWrite("total", newCum, ok)
          /\ IF ok
             THEN Settle(newCum, 0, (base + uncommittedL) \div WrapL)
             ELSE Settle(base, 0, 0)
          /\ pendingCommit' = FALSE
          /\ excused' = (excused \/ (~ok /\ plc' # plc))
  /\ UNCHANGED <<flag, inBatch, onceVars, liveTrip, liveTripValid, zi, zeroOk,
                 zeroFor, tripProbe, forceHmi, push>>

\* Acknowledge, then debit the journal.
Commit ==
  /\ pc = "commit"
  /\ flowCommitReady
  /\ LET newCum == waterVolWrap(base + uncommittedL)
     IN \E ok \in BOOLEAN :
          /\ PlcWrite("total", newCum, ok)
          /\ IF ok
             THEN Settle(newCum, 0, (base + uncommittedL) \div WrapL) /\ pendingCommit' = FALSE
             ELSE Settle(base, uncommittedL, 0) /\ UNCHANGED pendingCommit
          /\ excused' = (excused \/ (~ok /\ plc' # plc))
  /\ UNCHANGED <<flag, inBatch, onceVars, liveTrip, liveTripValid, zi, zeroOk,
                 zeroFor, tripProbe, forceHmi, push>>

\* The trip is derived from the mark; the hour gate decides on the HMI write
\* and, past the boot refresh, on a history entry.
RdMark ==
  /\ pc = "rdMark"
  /\ \E ok \in BOOLEAN, hourly \in BOOLEAN :
       LET okMark   == ok /\ tripProbe
           markSane == okMark /\ saneVol(plc["mark"])
       IN /\ \/ tripProbe /\ PlcRead(ok)
             \/ ~tripProbe /\ ~ok /\ UNCHANGED <<conn, left>>
          /\ tripEverOk' = (tripEverOk \/ okMark)
          /\ liveTripValid' = markSane
          /\ liveTrip' = IF markSane THEN tripFromMark(liveCum, plc["mark"]) ELSE liveTrip
          /\ hmiEverRun' = (hmiEverRun \/ hourly)
          /\ push' = (hourly /\ hmiEverRun /\ markSane)
          /\ pc' = IF hourly \/ forceHmi THEN "wrDisplay" ELSE "idle"
  /\ tripProbe' = TRUE /\ forceHmi' = FALSE
  /\ UNCHANGED <<plcVars, flowVars, goodVars, liveCum, base, zi, zeroOk, zeroFor, ghosts>>

HmiStep(at, tag, v, next) ==
  /\ pc = at
  /\ \E ok \in BOOLEAN : PlcWrite(tag, v, ok)
  /\ pc' = next /\ push' = (push /\ next # "idle")
  /\ UNCHANGED <<flag, flowVars, goodVars, onceVars, liveVars, base, zi, zeroOk,
                 zeroFor, tripProbe, forceHmi, ghosts>>

WrDisplay == HmiStep("wrDisplay", "display", liveCum, IF liveTripValid THEN "wrTrip" ELSE "idle")
WrTrip    == HmiStep("wrTrip", "trip", liveTrip, IF push THEN "wrHist" ELSE "idle")
WrHist    == HmiStep("wrHist", "hist", liveTrip, "idle")

-----------------------------------------------------------------------------
Init ==
  /\ \E t \in DownloadTotals : plc = [x \in Tags |-> IF x = "total" THEN t ELSE 0]
  /\ flag = [f \in Flags |-> FALSE]
  /\ conn = FALSE
  /\ uncommittedL = 0 /\ pendingCommit = FALSE /\ inBatch = FALSE
  /\ lastGoodCum = 0 /\ lastGoodValid = FALSE
  /\ tripEverOk = FALSE /\ hmiEverRun = FALSE
  /\ liveCum = 0 /\ liveTrip = 0 /\ liveTripValid = FALSE
  /\ pc = "idle" /\ base = 0 /\ zi = 1 /\ zeroOk = TRUE /\ zeroFor = "hmi"
  /\ tripProbe = TRUE /\ forceHmi = FALSE /\ push = FALSE
  /\ left = Budget
  /\ truth = 0 /\ laps = 0 /\ surplus = 0 /\ excused = FALSE

\* waterToPlc, one round trip at a time.
Pass ==
  \/ RdReset \/ Zero \/ AckReset
  \/ RdTrip \/ RdCur \/ WrMark \/ WrTrip0 \/ ClrHist \/ AckTrip
  \/ RdBase \/ Restore \/ NoCommit \/ Commit
  \/ RdMark \/ WrDisplay \/ WrTrip \/ WrHist

Environment ==
  \/ \E t \in DownloadTotals : Download(t)
  \/ \E f \in Flags : Press(f)
  \/ CloudReset
  \/ Reboot
  \/ \E l \in Litres : FlowTick(l)
  \/ BatchEnd

Next == Pass \/ Reconnect \/ Environment

Spec == Init /\ [][Next]_vars

\* The PLC thread loops for ever and the reconnect backoff is bounded.
FairSpec == Spec /\ WF_vars(Pass) /\ WF_vars(Reconnect)

-----------------------------------------------------------------------------
TypeOK ==
  /\ plc \in [Tags -> Int] /\ flag \in [Flags -> BOOLEAN]
  /\ conn \in BOOLEAN
  /\ uncommittedL \in Nat /\ pendingCommit \in BOOLEAN /\ inBatch \in BOOLEAN
  /\ lastGoodCum \in Nat /\ lastGoodValid \in BOOLEAN
  /\ tripEverOk \in BOOLEAN /\ hmiEverRun \in BOOLEAN
  /\ liveCum \in Nat /\ liveTrip \in Int /\ liveTripValid \in BOOLEAN
  /\ pc \in Steps /\ base \in Nat
  /\ zi \in 1..5 /\ zeroOk \in BOOLEAN /\ zeroFor \in {"hmi", "cloud"}
  /\ tripProbe \in BOOLEAN /\ forceHmi \in BOOLEAN /\ push \in BOOLEAN
  /\ left \in [Events -> Nat]
  /\ truth \in Nat /\ laps \in Nat /\ surplus \in Nat /\ excused \in BOOLEAN

(***************************************************************************)
(* No water is lost: whatever commits are refused, replies lost, downloads *)
(* restored or resets abandoned half way, the reference, the journal and   *)
(* the rollovers account for every litre metered since the gateway first   *)
(* read a base (config.h, "THE COMMIT ORDER IS THE WHOLE DESIGN").         *)
(***************************************************************************)
BooksBalance == lastGoodValid => truth + surplus = Books

(***************************************************************************)
(* No water is counted twice, unless the reply to an accepted commit was   *)
(* lost or a download left the tag above the books: only then may a base   *)
(* read exceed the reference that the gateway keeps for it.                *)
(***************************************************************************)
CountedOnce == surplus > 0 => excused

(***************************************************************************)
(* The HMI's reset flag is only about to be acknowledged when the books    *)
(* are clear and every tag of the reset is zero on the PLC, or the total   *)
(* was raised again by a download ("acknowledge only what happened").      *)
(***************************************************************************)
AckAfterWholeReset ==
  pc = "ackReset" => /\ lastGoodValid /\ lastGoodCum = 0 /\ uncommittedL = 0
                     /\ \A t \in Tags : plc[t] = 0 \/ (t = "total" /\ left["downloads"] < Budget["downloads"])

(***************************************************************************)
(* The displayed lifetime total moves as WaterMeter says: a commit, a      *)
(* refused commit, a restore and a failed reset all leave it where it is   *)
(* (config.h: "the number on the HMI does not move").                      *)
(***************************************************************************)
Meter == INSTANCE WaterMeter WITH
  reading <- IF lastGoodValid THEN Books ELSE 0,
  known   <- lastGoodValid,
  doubt   <- excused,
  asked   <- pc = "zero"

MeterRefined == Meter!MeterSpec

(***************************************************************************)
(* Claimed in config.h beside WATERVOL_DROP_EPS, and false: a base below   *)
(* the reference can only mean that a download replaced the PLC's copy.  A *)
(* reset whose first write is taken and a later one refused zeroes the     *)
(* total and keeps the reference.                                          *)
(***************************************************************************)
RestoreOnlyAfterDownload ==
  pc = "restore" => left["downloads"] < Budget["downloads"]

(***************************************************************************)
(* A program download that drops the total is repaired from the gateway's  *)
(* own reference, once the session holds for a pass (a reset or a reboot   *)
(* of the gateway drops the reference instead).                            *)
(***************************************************************************)
DownloadRepaired ==
  (lastGoodValid /\ plc["total"] < lastGoodCum) ~> (plc["total"] >= lastGoodCum)

(***************************************************************************)
(* A finished discharge is eventually debited from the journal, even when  *)
(* the next one is already running.                                        *)
(***************************************************************************)
CommitsEventually == (pendingCommit /\ uncommittedL > 0) ~> ~pendingCommit
=============================================================================
