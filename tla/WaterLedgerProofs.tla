-------------------------- MODULE WaterLedgerProofs --------------------------
(***************************************************************************)
(* Proofs about WaterLedger: its type invariant, the balance of the books, *)
(* counting once, what has been zeroed when a lifetime reset is            *)
(* acknowledged, and that it implements WaterMeter, for every rollover,    *)
(* budget and set of litres.                                               *)
(***************************************************************************)
EXTENDS WaterLedger, TLAPS

(* What a pass relies on between reading the base and settling it: the     *)
(* base is never below the reference, and without an excuse equal to it.   *)
BaseCovers ==
  /\ ~lastGoodValid => lastGoodCum = 0
  /\ pc = "commit" => base >= lastGoodCum
  /\ pc = "commit" /\ lastGoodValid /\ ~excused => base = lastGoodCum

(* Without an excuse the storage tag is never above what the gateway knows.*)
NeverAbove ==
  ~excused => /\ lastGoodValid => plc["total"] <= lastGoodCum
              /\ pc = "commit" => plc["total"] <= base

IInv == TypeOK /\ BaseCovers /\ NeverAbove /\ BooksBalance /\ CountedOnce

-----------------------------------------------------------------------------
(* The type invariant in the groups that steps change or leave together.   *)
PlcTypes   == plc \in [Tags -> Int] /\ flag \in [Flags -> BOOLEAN]
LinkTypes  == conn \in BOOLEAN /\ left \in [Events -> Nat]
FlowTypes  == uncommittedL \in Nat /\ pendingCommit \in BOOLEAN /\ inBatch \in BOOLEAN
GoodTypes  == lastGoodCum \in Nat /\ lastGoodValid \in BOOLEAN
OnceTypes  == tripEverOk \in BOOLEAN /\ hmiEverRun \in BOOLEAN
LiveTypes  == liveCum \in Nat /\ liveTrip \in Int /\ liveTripValid \in BOOLEAN
ZeroTypes  == zi \in 1..5 /\ zeroOk \in BOOLEAN /\ zeroFor \in {"hmi", "cloud"}
PassTypes  == base \in Nat /\ tripProbe \in BOOLEAN /\ forceHmi \in BOOLEAN /\ push \in BOOLEAN
GhostTypes == truth \in Nat /\ laps \in Nat /\ surplus \in Nat /\ excused \in BOOLEAN

(* The groups together are the type invariant, now and after a step.       *)
LEMMA TypeGroups ==
  /\ TypeOK <=> /\ PlcTypes /\ LinkTypes /\ FlowTypes /\ GoodTypes /\ OnceTypes
               /\ LiveTypes /\ ZeroTypes /\ PassTypes /\ GhostTypes /\ pc \in Steps
  /\ TypeOK' <=> /\ PlcTypes' /\ LinkTypes' /\ FlowTypes' /\ GoodTypes' /\ OnceTypes'
                /\ LiveTypes' /\ ZeroTypes' /\ PassTypes' /\ GhostTypes' /\ pc' \in Steps
<1>1. TypeOK <=> /\ PlcTypes /\ LinkTypes /\ FlowTypes /\ GoodTypes /\ OnceTypes
                 /\ LiveTypes /\ ZeroTypes /\ PassTypes /\ GhostTypes /\ pc \in Steps
  BY Zenon DEF TypeOK, PlcTypes, LinkTypes, FlowTypes, GoodTypes, OnceTypes, LiveTypes,
               ZeroTypes, PassTypes, GhostTypes
<1>2. TypeOK' <=> /\ PlcTypes' /\ LinkTypes' /\ FlowTypes' /\ GoodTypes' /\ OnceTypes'
                  /\ LiveTypes' /\ ZeroTypes' /\ PassTypes' /\ GhostTypes' /\ pc' \in Steps
  BY Zenon DEF TypeOK, PlcTypes, LinkTypes, FlowTypes, GoodTypes, OnceTypes, LiveTypes,
               ZeroTypes, PassTypes, GhostTypes
<1>3. QED
  BY <1>1, <1>2

(* A group that a step leaves alone keeps its types.                       *)
LEMMA TypesKept ==
  ASSUME TypeOK
  PROVE  /\ UNCHANGED plcVars => PlcTypes'
         /\ UNCHANGED <<conn, left>> => LinkTypes'
         /\ UNCHANGED flowVars => FlowTypes'
         /\ UNCHANGED goodVars => GoodTypes'
         /\ UNCHANGED onceVars => OnceTypes'
         /\ UNCHANGED liveVars => LiveTypes'
         /\ UNCHANGED <<zi, zeroOk, zeroFor>> => ZeroTypes'
         /\ UNCHANGED <<base, tripProbe, forceHmi, push>> => PassTypes'
         /\ UNCHANGED ghosts => GhostTypes'
         /\ UNCHANGED pc => pc' \in Steps
<1>1. UNCHANGED plcVars => PlcTypes'
  BY TypeGroups DEF PlcTypes, plcVars
<1>2. UNCHANGED <<conn, left>> => LinkTypes'
  BY TypeGroups DEF LinkTypes
<1>3. UNCHANGED flowVars => FlowTypes'
  BY TypeGroups DEF FlowTypes, flowVars
<1>4. UNCHANGED goodVars => GoodTypes'
  BY TypeGroups DEF GoodTypes, goodVars
<1>5. UNCHANGED onceVars => OnceTypes'
  BY TypeGroups DEF OnceTypes, onceVars
<1>6. UNCHANGED liveVars => LiveTypes'
  BY TypeGroups DEF LiveTypes, liveVars
<1>7. UNCHANGED <<zi, zeroOk, zeroFor>> => ZeroTypes'
  BY TypeGroups DEF ZeroTypes
<1>8. UNCHANGED <<base, tripProbe, forceHmi, push>> => PassTypes'
  BY TypeGroups DEF PassTypes
<1>9. UNCHANGED ghosts => GhostTypes'
  BY TypeGroups DEF GhostTypes, ghosts
<1>10. UNCHANGED pc => pc' \in Steps
  BY TypeGroups
<1>11. QED
  BY <1>1, <1>2, <1>3, <1>4, <1>5, <1>6, <1>7, <1>8, <1>9, <1>10

-----------------------------------------------------------------------------
(* A wrapped total and its rollovers add up to the total (waterVolWrap).   *)
LEMMA WrapFacts ==
  ASSUME NEW v \in Nat
  PROVE  /\ waterVolWrap(v) \in Nat /\ waterVolWrap(v) < WrapL
         /\ v \div WrapL \in Nat
         /\ v = WrapL * (v \div WrapL) + waterVolWrap(v)
  BY WrapAssumption DEF waterVolWrap

(* Spending from the budget keeps it a budget.                             *)
LEMMA SpendKeeps ==
  ASSUME TypeOK, NEW e \in Events, Spend(e)
  PROVE  left' \in [Events -> Nat]
  BY DEF TypeOK, Spend

(* A call without an answer costs the session or a fault.                  *)
LEMMA NoReplyKeeps ==
  ASSUME TypeOK, NoReply
  PROVE  conn' \in BOOLEAN /\ left' \in [Events -> Nat]
  BY SpendKeeps DEF TypeOK, NoReply, Events

(* A read changes nothing but the session and the budget.                  *)
LEMMA ReadKeeps ==
  ASSUME TypeOK, NEW ok \in BOOLEAN, PlcRead(ok)
  PROVE  conn' \in BOOLEAN /\ left' \in [Events -> Nat]
  BY NoReplyKeeps DEF TypeOK, PlcRead

(* A write leaves every other tag alone; an acknowledged one is on the PLC.*)
LEMMA WriteKeeps ==
  ASSUME TypeOK, NEW tag \in Tags, NEW v \in Int, NEW ok \in BOOLEAN,
         PlcWrite(tag, v, ok)
  PROVE  /\ conn' \in BOOLEAN /\ left' \in [Events -> Nat]
         /\ plc' \in [Tags -> Int]
         /\ \A x \in Tags : x # tag => plc'[x] = plc[x]
         /\ plc'[tag] \in {plc[tag], v}
         /\ ok => plc'[tag] = v
<1> plc \in [Tags -> Int] /\ conn \in BOOLEAN /\ left \in [Events -> Nat]
  BY DEF TypeOK
<1>1. CASE ok /\ conn /\ plc' = [plc EXCEPT ![tag] = v] /\ UNCHANGED <<conn, left>>
  BY <1>1
<1>2. CASE ~ok /\ NoReply /\ UNCHANGED plc
  BY <1>2, NoReplyKeeps
<1>3. CASE ~ok /\ conn /\ conn' = FALSE /\ Spend("faults") /\ plc' = [plc EXCEPT ![tag] = v]
  <2>1. left' \in [Events -> Nat]
    BY <1>3, SpendKeeps DEF Events
  <2>2. QED
    BY <1>3, <2>1
<1>4. QED
  BY <1>1, <1>2, <1>3 DEF PlcWrite

(* Acknowledging an HMI flag touches nothing but that flag.                *)
LEMMA FlagKeeps ==
  ASSUME TypeOK, NEW f \in Flags, FlagClear(f)
  PROVE  /\ conn' \in BOOLEAN /\ left' \in [Events -> Nat]
         /\ flag' \in [Flags -> BOOLEAN]
<1> flag \in [Flags -> BOOLEAN] /\ conn \in BOOLEAN /\ left \in [Events -> Nat]
  BY DEF TypeOK
<1>1. CASE conn /\ flag' = [flag EXCEPT ![f] = FALSE] /\ UNCHANGED <<conn, left>>
  BY <1>1
<1>2. CASE NoReply /\ UNCHANGED flag
  BY <1>2, NoReplyKeeps
<1>3. CASE conn /\ conn' = FALSE /\ Spend("faults") /\ flag' = [flag EXCEPT ![f] = FALSE]
  <2>1. left' \in [Events -> Nat]
    BY <1>3, SpendKeeps DEF Events
  <2>2. QED
    BY <1>3, <2>1
<1>4. QED
  BY <1>1, <1>2, <1>3 DEF FlagClear

-----------------------------------------------------------------------------
(* The inductive invariant, action by action.                              *)

(* The gateway boots with empty books and any total on the PLC.            *)
LEMMA InitIInv == Init => IInv
<1> SUFFICES ASSUME Init PROVE IInv
  OBVIOUS
<1>1. plc \in [Tags -> Int]
  BY DownloadAssumption DEF Init
<1>2. TypeOK
  <2>1. /\ uncommittedL \in Nat /\ lastGoodCum \in Nat /\ liveCum \in Nat /\ liveTrip \in Int
        /\ base \in Nat /\ zi \in 1..5 /\ truth \in Nat /\ laps \in Nat /\ surplus \in Nat
    BY DEF Init
  <2>2. flag \in [Flags -> BOOLEAN] /\ left \in [Events -> Nat]
    BY BudgetAssumption DEF Init
  <2>3. QED
    BY <1>1, <2>1, <2>2, Zenon DEF Init, TypeOK, Steps
<1>3. BaseCovers /\ NeverAbove /\ BooksBalance /\ CountedOnce
  BY DEF Init, BaseCovers, NeverAbove, BooksBalance, CountedOnce
<1>4. QED
  BY <1>2, <1>3 DEF IInv

(* A program download replaces the total.                                  *)
LEMMA DownloadStep ==
  ASSUME IInv, NEW t \in DownloadTotals, Download(t)
  PROVE  IInv'
<1> USE DEF IInv
<1>1. TypeOK'
  <2>1. /\ plc' \in [Tags -> Int] /\ flag' \in [Flags -> BOOLEAN]
        /\ left' \in [Events -> Nat]
    BY SpendKeeps, DownloadAssumption DEF Download, Events, Tags
  <2>2. (t > lastGoodCum) \in BOOLEAN
    BY DownloadAssumption, SMT DEF TypeOK
  <2>3. excused' \in BOOLEAN
    BY <2>2, Zenon DEF Download, TypeOK
  <2>4. /\ UNCHANGED <<conn, flowVars, goodVars, onceVars, liveVars, pc, truth, laps, surplus>>
        /\ UNCHANGED <<base, zi, zeroOk, zeroFor, tripProbe, forceHmi, push>>
    BY DEF Download, locals
  <2>5. PlcTypes' /\ LinkTypes' /\ GhostTypes'
    BY <2>1, <2>3, <2>4 DEF TypeOK, PlcTypes, LinkTypes, GhostTypes
  <2>6. QED
    BY <2>4, <2>5, TypeGroups, TypesKept
<1>2. plc'["total"] = t /\ t \in Int
  BY DownloadAssumption DEF Download, Tags
<1>3. BaseCovers' /\ BooksBalance' /\ CountedOnce'
  BY DEF Download, TypeOK, BaseCovers, BooksBalance, CountedOnce, Books,
         flowVars, goodVars, locals
<1>4. NeverAbove'
  <2>1. CASE excused'
    BY <2>1 DEF NeverAbove
  <2>2. CASE ~excused'
    <3>0. ~(t > lastGoodCum)
      BY <2>2, Zenon DEF Download
    <3>1. t <= lastGoodCum
      BY <1>2, <3>0 DEF TypeOK
    <3>2. pc = "commit" => t <= base
      BY <1>2, <3>1 DEF TypeOK, BaseCovers
    <3>3. UNCHANGED <<lastGoodCum, lastGoodValid, pc, base>>
      BY DEF Download, goodVars, locals
    <3>4. QED
      BY <1>2, <3>1, <3>2, <3>3 DEF NeverAbove
  <2>3. QED
    BY <2>1, <2>2
<1>5. QED
  BY <1>1, <1>3, <1>4

(* A step that leaves the total, the journal, the reference, the base and  *)
(* the ghosts alone keeps the parts that relate them.                      *)
LEMMA PartsKept ==
  ASSUME BaseCovers, NeverAbove, BooksBalance, CountedOnce,
         plc'["total"] = plc["total"],
         UNCHANGED <<uncommittedL, goodVars, base, ghosts>>,
         pc' = "commit" => pc = "commit"
  PROVE  BaseCovers' /\ NeverAbove' /\ BooksBalance' /\ CountedOnce'
<1>1. BaseCovers'
  BY DEF BaseCovers, goodVars, ghosts
<1>2. NeverAbove'
  BY DEF NeverAbove, goodVars, ghosts
<1>3. BooksBalance' /\ CountedOnce'
  BY DEF BooksBalance, Books, CountedOnce, goodVars, ghosts
<1>4. QED
  BY <1>1, <1>2, <1>3

(* Discharges, downloads, presses, outages and reboots.                    *)
LEMMA EnvironmentStep ==
  ASSUME IInv, Environment \/ Reconnect
  PROVE  IInv'
<1> USE DEF IInv
<1>1. ASSUME NEW t \in DownloadTotals, Download(t) PROVE IInv'
  BY <1>1, DownloadStep
<1>2. ASSUME NEW f \in Flags, Press(f) PROVE IInv'
  <2>1. flag' \in [Flags -> BOOLEAN] /\ left' \in [Events -> Nat]
    BY <1>2, SpendKeeps DEF Press, TypeOK, Events
  <2>2. UNCHANGED <<plc, conn, flowVars, goodVars, onceVars, liveVars, pc, locals, ghosts>>
    BY <1>2 DEF Press
  <2>3. TypeOK'
    <3>1. PlcTypes' /\ LinkTypes'
      BY <2>1, <2>2 DEF TypeOK, PlcTypes, LinkTypes
    <3>2. QED
      BY <2>2, <3>1, TypeGroups, TypesKept DEF locals
  <2>4. BaseCovers' /\ NeverAbove' /\ BooksBalance' /\ CountedOnce'
    BY <2>2, PartsKept DEF flowVars, locals
  <2>5. QED
    BY <2>3, <2>4
<1>3. CASE CloudReset
  <2>1. /\ UNCHANGED <<plcVars, conn, flowVars, goodVars, onceVars, liveVars>>
        /\ UNCHANGED <<base, tripProbe, forceHmi, push, ghosts>>
    BY <1>3 DEF CloudReset
  <2>2. /\ left' \in [Events -> Nat] /\ pc' = "zero" /\ zi' = 1
        /\ zeroOk' = TRUE /\ zeroFor' = "cloud"
    BY <1>3, SpendKeeps DEF CloudReset, StartZero, TypeOK, Events
  <2>3. TypeOK'
    <3>1. LinkTypes' /\ ZeroTypes' /\ pc' \in Steps
      BY <2>1, <2>2 DEF TypeOK, LinkTypes, ZeroTypes, Steps
    <3>2. QED
      BY <2>1, <3>1, TypeGroups, TypesKept
  <2>4. BaseCovers' /\ NeverAbove' /\ BooksBalance' /\ CountedOnce'
    BY <2>1, <2>2, PartsKept DEF flowVars, plcVars
  <2>5. QED
    BY <2>3, <2>4
<1>4. CASE Reboot
  <2>1. TypeOK'
    <3>1. /\ uncommittedL' \in Nat /\ lastGoodCum' \in Nat /\ liveCum' \in Nat
          /\ liveTrip' \in Int /\ base' \in Nat /\ zi' \in 1..5
          /\ truth' \in Nat /\ laps' \in Nat /\ surplus' \in Nat
      BY <1>4 DEF Reboot
    <3>2. /\ plc' \in [Tags -> Int] /\ flag' \in [Flags -> BOOLEAN]
          /\ left' \in [Events -> Nat]
      BY <1>4, SpendKeeps DEF Reboot, TypeOK, Events, plcVars
    <3>3. QED
      BY <1>4, <3>1, <3>2, Zenon DEF Reboot, TypeOK, Steps
  <2>2. (BaseCovers /\ NeverAbove /\ BooksBalance /\ CountedOnce)'
    BY <1>4 DEF Reboot, BaseCovers, NeverAbove, BooksBalance, CountedOnce
  <2>3. QED
    BY <2>1, <2>2
<1>5. ASSUME NEW l \in Litres, FlowTick(l) PROVE IInv'
  <2>1. l \in Nat
    BY LitresAssumption
  <2>2. TypeOK'
    BY <1>5, <2>1, SpendKeeps
       DEF FlowTick, TypeOK, Events, plcVars, goodVars, onceVars, liveVars, locals
  <2>3. BaseCovers' /\ NeverAbove' /\ CountedOnce'
    BY <1>5 DEF FlowTick, BaseCovers, NeverAbove, CountedOnce, plcVars, goodVars, locals
  <2>4. BooksBalance'
    BY <1>5, <2>1, WrapAssumption
       DEF FlowTick, TypeOK, BooksBalance, Books, goodVars
  <2>5. QED
    BY <2>2, <2>3, <2>4
<1>6. CASE BatchEnd
  <2>1. /\ UNCHANGED <<plcVars, conn, uncommittedL, goodVars, onceVars, liveVars>>
        /\ UNCHANGED <<pc, locals, left, ghosts>>
        /\ inBatch' = FALSE /\ pendingCommit' = TRUE
    BY <1>6 DEF BatchEnd
  <2>2. TypeOK'
    <3>1. FlowTypes'
      BY <2>1 DEF TypeOK, FlowTypes
    <3>2. QED
      BY <2>1, <3>1, TypeGroups, TypesKept DEF locals
  <2>3. BaseCovers' /\ NeverAbove' /\ BooksBalance' /\ CountedOnce'
    BY <2>1, PartsKept DEF plcVars, locals
  <2>4. QED
    BY <2>2, <2>3
<1>7. CASE Reconnect
  <2>1. /\ UNCHANGED <<plcVars, flowVars, goodVars, onceVars, liveVars>>
        /\ UNCHANGED <<pc, locals, left, ghosts>>
        /\ conn' = TRUE
    BY <1>7 DEF Reconnect
  <2>2. TypeOK'
    <3>1. LinkTypes'
      BY <2>1 DEF TypeOK, LinkTypes
    <3>2. QED
      BY <2>1, <3>1, TypeGroups, TypesKept DEF locals
  <2>3. BaseCovers' /\ NeverAbove' /\ BooksBalance' /\ CountedOnce'
    BY <2>1, PartsKept DEF plcVars, flowVars, locals
  <2>4. QED
    BY <2>2, <2>3
<1>8. QED
  BY <1>1, <1>2, <1>3, <1>4, <1>5, <1>6, <1>7 DEF Environment
-----------------------------------------------------------------------------
(* A step that leaves the total, the journal, the reference and the ghosts *)
(* alone keeps the invariant, unless it arrives at the commit.             *)
LEMMA QuietStep ==
  ASSUME IInv, TypeOK', plc'["total"] = plc["total"],
         UNCHANGED <<uncommittedL, goodVars, ghosts>>, pc' # "commit"
  PROVE  IInv'
  BY DEF IInv, BaseCovers, NeverAbove, BooksBalance, CountedOnce, Books, goodVars, ghosts

(* The HMI's reset flag is read.                                           *)
LEMMA RdResetStep ==
  ASSUME IInv, RdReset
  PROVE  IInv'
<1>1. PICK ok \in BOOLEAN : /\ PlcRead(ok)
                           /\ \/ StartZero("hmi")
                              \/ pc' = "rdTrip" /\ UNCHANGED <<zi, zeroOk, zeroFor>>
  BY DEF RdReset
<1>2. conn' \in BOOLEAN /\ left' \in [Events -> Nat]
  BY <1>1, ReadKeeps DEF IInv
<1>3. zi' \in 1..5
  BY <1>1 DEF IInv, TypeOK, StartZero
<1>4. zeroOk' \in BOOLEAN /\ zeroFor' \in {"hmi", "cloud"} /\ pc' \in {"zero", "rdTrip"}
  BY <1>1, Zenon DEF IInv, TypeOK, StartZero
<1>5. TypeOK'
  <2>1. UNCHANGED <<plcVars, flowVars, goodVars, onceVars, liveVars, ghosts>>
    BY DEF RdReset
  <2>2. forceHmi' = FALSE /\ UNCHANGED <<base, tripProbe, push>>
    BY DEF RdReset
  <2>3. PassTypes'
    BY <2>2, TypeGroups DEF IInv, PassTypes
  <2>4. LinkTypes' /\ ZeroTypes' /\ pc' \in Steps
    BY <1>2, <1>3, <1>4 DEF LinkTypes, ZeroTypes, Steps
  <2>5. QED
    BY <2>1, <2>3, <2>4, TypeGroups, TypesKept DEF IInv
<1>6. QED
  BY <1>4, <1>5, QuietStep DEF RdReset, plcVars, flowVars, goodVars, ghosts

(* The HMI's reset flag is acknowledged.                                   *)
LEMMA AckResetStep ==
  ASSUME IInv, AckReset
  PROVE  IInv'
<1>1. conn' \in BOOLEAN /\ left' \in [Events -> Nat] /\ flag' \in [Flags -> BOOLEAN]
  BY FlagKeeps DEF IInv, AckReset, Flags
<1>2. TypeOK'
  BY <1>1 DEF IInv, TypeOK, AckReset, Steps, flowVars, goodVars, onceVars, liveVars,
              locals, ghosts
<1>3. QED
  BY <1>2, QuietStep DEF AckReset, flowVars

(* The HMI's trip reset flag is read.                                      *)
LEMMA RdTripStep ==
  ASSUME IInv, RdTrip
  PROVE  IInv'
<1>1. conn' \in BOOLEAN /\ left' \in [Events -> Nat]
  BY ReadKeeps DEF IInv, RdTrip, TypeOK
<1>2. tripProbe' \in BOOLEAN
  BY Zenon DEF RdTrip
<1>3. pc' \in {"rdBase", "rdCur"}
  BY DEF RdTrip
<1>4. TypeOK'
  BY <1>1, <1>2, <1>3
     DEF IInv, TypeOK, RdTrip, Steps, plcVars, flowVars, goodVars, onceVars, liveVars, ghosts
<1>5. QED
  BY <1>3, <1>4, QuietStep DEF RdTrip, plcVars, flowVars

(* The total is read for the trip's mark.                                  *)
LEMMA RdCurStep ==
  ASSUME IInv, RdCur
  PROVE  IInv'
<1>1. PICK ok \in BOOLEAN : /\ PlcRead(ok)
                           /\ \/ saneVol(plc["total"]) /\ base' = plc["total"] /\ pc' = "wrMark"
                              \/ base' = 0 /\ pc' = "rdBase"
  BY DEF RdCur
<1>2. conn' \in BOOLEAN /\ left' \in [Events -> Nat]
  BY <1>1, ReadKeeps DEF IInv
<1>3. base' \in Nat /\ pc' \in {"wrMark", "rdBase"}
  BY <1>1 DEF IInv, TypeOK, saneVol, Tags
<1>4. TypeOK'
  BY <1>2, <1>3
     DEF IInv, TypeOK, RdCur, Steps, plcVars, flowVars, goodVars, onceVars, liveVars, ghosts
<1>5. QED
  BY <1>3, <1>4, QuietStep DEF RdCur, plcVars, flowVars

(* The ignored writes of the trip reset, and those of the HMI refresh.     *)
LEMMA TripStepKeeps ==
  ASSUME IInv, NEW at, NEW tag \in Tags \ {"total"}, NEW v \in Int,
         NEW next \in Steps \ {"commit"}, TripStep(at, tag, v, next)
  PROVE  IInv'
<1>1. PICK ok \in BOOLEAN : PlcWrite(tag, v, ok)
  BY DEF TripStep
<1>2. /\ conn' \in BOOLEAN /\ left' \in [Events -> Nat] /\ plc' \in [Tags -> Int]
      /\ plc'["total"] = plc["total"]
  BY <1>1, WriteKeeps DEF IInv, Tags
<1>3. TypeOK'
  BY <1>2 DEF IInv, TypeOK, TripStep, flowVars, goodVars, onceVars, liveVars, locals, ghosts
<1>4. QED
  BY <1>2, <1>3, QuietStep DEF TripStep, flowVars

(* Writes that only serve the HMI leave the books alone.                   *)
LEMMA HmiStepKeeps ==
  ASSUME IInv, NEW at, NEW tag \in Tags \ {"total"}, NEW v \in Int,
         NEW next \in Steps \ {"commit"}, HmiStep(at, tag, v, next)
  PROVE  IInv'
<1>1. PICK ok \in BOOLEAN : PlcWrite(tag, v, ok)
  BY DEF HmiStep
<1>2. /\ conn' \in BOOLEAN /\ left' \in [Events -> Nat] /\ plc' \in [Tags -> Int]
      /\ plc'["total"] = plc["total"]
  BY <1>1, WriteKeeps DEF IInv, Tags
<1>3. push' \in BOOLEAN
  BY Zenon DEF HmiStep
<1>4. TypeOK'
  BY <1>2, <1>3 DEF IInv, TypeOK, HmiStep, flowVars, goodVars, onceVars, liveVars, ghosts
<1>5. QED
  BY <1>2, <1>4, QuietStep DEF HmiStep, flowVars

(* The HMI's trip reset flag is acknowledged.                              *)
LEMMA AckTripStep ==
  ASSUME IInv, AckTrip
  PROVE  IInv'
<1>1. conn' \in BOOLEAN /\ left' \in [Events -> Nat] /\ flag' \in [Flags -> BOOLEAN]
  BY FlagKeeps DEF IInv, AckTrip, Flags
<1>2. TypeOK'
  BY <1>1 DEF IInv, TypeOK, AckTrip, Steps, flowVars, goodVars, onceVars, liveVars, ghosts
<1>3. QED
  BY <1>2, QuietStep DEF AckTrip, flowVars
(* The trip's mark is read.                                                *)
LEMMA RdMarkStep ==
  ASSUME IInv, RdMark
  PROVE  IInv'
<1>1. conn' \in BOOLEAN /\ left' \in [Events -> Nat]
  BY ReadKeeps DEF IInv, RdMark, TypeOK
<1>2. PICK ok \in BOOLEAN, hourly \in BOOLEAN :
        /\ tripEverOk' = (tripEverOk \/ (ok /\ tripProbe))
        /\ liveTripValid' = (ok /\ tripProbe /\ saneVol(plc["mark"]))
        /\ liveTrip' = (IF ok /\ tripProbe /\ saneVol(plc["mark"])
                        THEN tripFromMark(liveCum, plc["mark"]) ELSE liveTrip)
        /\ hmiEverRun' = (hmiEverRun \/ hourly)
        /\ push' = (hourly /\ hmiEverRun /\ ok /\ tripProbe /\ saneVol(plc["mark"]))
        /\ pc' \in {"wrDisplay", "idle"}
  BY DEF RdMark
<1>3. /\ tripEverOk' \in BOOLEAN /\ liveTripValid' \in BOOLEAN
      /\ hmiEverRun' \in BOOLEAN /\ push' \in BOOLEAN
  BY <1>2, Zenon
<1>4. liveTrip' \in Int
  BY <1>2, WrapAssumption DEF IInv, TypeOK, tripFromMark, Tags
<1>5. TypeOK'
  BY <1>1, <1>2, <1>3, <1>4
     DEF IInv, TypeOK, RdMark, Steps, plcVars, flowVars, goodVars, ghosts
<1>6. QED
  BY <1>2, <1>5, QuietStep DEF RdMark, plcVars, flowVars

-----------------------------------------------------------------------------
(* The steps that move the total or the books.                             *)

(* waterOnReset, one of its tags at a time.                                *)
LEMMA ZeroStep ==
  ASSUME IInv, Zero
  PROVE  IInv'
<1> USE DEF IInv
<1>1. zi \in 1..5 /\ ZeroOrder[zi] \in Tags /\ Len(ZeroOrder) = 5
  BY DEF TypeOK, ZeroOrder, Tags
<1>2. PICK ok \in BOOLEAN :
        /\ PlcWrite(ZeroOrder[zi], 0, ok)
        /\ \/ /\ zi < Len(ZeroOrder)
              /\ zi' = zi + 1 /\ zeroOk' = (zeroOk /\ ok)
              /\ UNCHANGED <<pc, zeroFor, flowVars, goodVars, ghosts>>
           \/ ZeroDone(zeroOk /\ ok)
  BY DEF Zero
<1>3. /\ conn' \in BOOLEAN /\ left' \in [Events -> Nat] /\ plc' \in [Tags -> Int]
      /\ plc'["total"] = plc["total"] \/ plc'["total"] = 0
  BY <1>1, <1>2, WriteKeeps DEF Tags
<1>4. UNCHANGED <<flag, onceVars, liveVars, base, tripProbe, forceHmi, push>> /\ pc = "zero"
  BY DEF Zero
<1>5. CASE /\ zi < Len(ZeroOrder)
           /\ zi' = zi + 1 /\ zeroOk' = (zeroOk /\ ok)
           /\ UNCHANGED <<pc, zeroFor, flowVars, goodVars, ghosts>>
  <2>1. zeroOk' \in BOOLEAN
    BY <1>5, Zenon
  <2>2. zi' \in 1..5
    BY <1>1, <1>5
  <2>3. TypeOK'
    BY <1>3, <1>4, <1>5, <2>1, <2>2
       DEF TypeOK, flowVars, goodVars, onceVars, liveVars, ghosts
  <2>4. BaseCovers' /\ BooksBalance' /\ CountedOnce'
    BY <1>4, <1>5 DEF BaseCovers, BooksBalance, CountedOnce, Books, flowVars, goodVars, ghosts
  <2>5. NeverAbove'
    BY <1>3, <1>4, <1>5 DEF TypeOK, NeverAbove, goodVars, ghosts
  <2>6. QED
    BY <2>3, <2>4, <2>5
<1>6. CASE ZeroDone(zeroOk /\ ok)
  <2>1. pc' \in {"idle", "ackReset", "rdTrip"}
    BY <1>6, Zenon DEF ZeroDone, TypeOK
  <2>2. zi' \in 1..5 /\ zeroOk' \in BOOLEAN /\ zeroFor' \in {"hmi", "cloud"}
    BY <1>6 DEF ZeroDone
  <2>3. CASE UNCHANGED <<flowVars, goodVars, ghosts>>
    <3>1. TypeOK'
      BY <1>3, <1>4, <2>1, <2>2, <2>3
         DEF TypeOK, Steps, flowVars, goodVars, onceVars, liveVars, ghosts
    <3>2. BaseCovers' /\ BooksBalance' /\ CountedOnce'
      BY <1>4, <2>1, <2>3
         DEF BaseCovers, BooksBalance, CountedOnce, Books, flowVars, goodVars, ghosts
    <3>3. NeverAbove'
      BY <1>3, <2>1, <2>3 DEF TypeOK, NeverAbove, goodVars, ghosts
    <3>4. QED
      BY <3>1, <3>2, <3>3
  <2>4. CASE ClearBooks
    <3>0. (plc["total"] > 0) \in BOOLEAN
      BY DEF TypeOK, Tags
    <3>1. excused' \in BOOLEAN /\ pendingCommit' \in BOOLEAN /\ lastGoodValid' \in BOOLEAN
      BY <2>4, <3>0, Zenon DEF ClearBooks
    <3>2. TypeOK'
      BY <1>3, <1>4, <2>1, <2>2, <2>4, <3>1 DEF TypeOK, Steps, ClearBooks, onceVars, liveVars
    <3>3. BooksBalance' /\ CountedOnce' /\ BaseCovers'
      BY <2>1, <2>4, WrapAssumption DEF ClearBooks, BaseCovers, BooksBalance, CountedOnce, Books
    <3>4. ~excused' => ~(plc["total"] > 0)
      BY <2>4, Zenon DEF ClearBooks
    <3>5. NeverAbove'
      BY <1>3, <2>1, <2>4, <3>4 DEF TypeOK, Tags, NeverAbove, ClearBooks
    <3>6. QED
      BY <3>2, <3>3, <3>5
  <2>5. QED
    BY <1>6, <2>3, <2>4 DEF ZeroDone
<1>7. QED
  BY <1>2, <1>5, <1>6

(* The base is read, and judged against the last good total.               *)
LEMMA RdBaseStep ==
  ASSUME IInv, RdBase
  PROVE  IInv'
<1> USE DEF IInv
<1>1. conn' \in BOOLEAN /\ left' \in [Events -> Nat]
  BY ReadKeeps DEF RdBase
<1>2. \/ /\ base' = plc["total"] /\ base' \in Nat
         /\ pc' = IF lastGoodValid /\ plc["total"] < lastGoodCum THEN "restore" ELSE "commit"
      \/ base' = 0 /\ pc' = "idle"
  BY DEF RdBase, saneVol, TypeOK, Tags
<1>3. UNCHANGED <<plcVars, flowVars, goodVars, onceVars, liveVars, zi, zeroOk,
                  zeroFor, tripProbe, forceHmi, push, ghosts>>
  BY DEF RdBase
<1>4. TypeOK'
  BY <1>1, <1>2, <1>3
     DEF TypeOK, Steps, plcVars, flowVars, goodVars, onceVars, liveVars, ghosts
<1>5. BooksBalance' /\ CountedOnce'
  BY <1>3 DEF BooksBalance, CountedOnce, Books, flowVars, goodVars, ghosts
<1>6. BaseCovers' /\ NeverAbove'
  BY <1>2, <1>3 DEF TypeOK, Tags, BaseCovers, NeverAbove, plcVars, goodVars, ghosts
<1>7. QED
  BY <1>4, <1>5, <1>6

(* The last good total is written back after a download.                   *)
LEMMA RestoreStep ==
  ASSUME IInv, Restore
  PROVE  IInv'
<1> USE DEF IInv
<1>1. PICK ok \in BOOLEAN :
        /\ PlcWrite("total", lastGoodCum, ok)
        /\ \/ ok /\ base' = lastGoodCum /\ forceHmi' = TRUE /\ pc' = "commit"
           \/ ~ok /\ base' = 0 /\ forceHmi' = FALSE /\ pc' = "idle"
  BY DEF Restore
<1>2. /\ conn' \in BOOLEAN /\ left' \in [Events -> Nat] /\ plc' \in [Tags -> Int]
      /\ plc'["total"] \in {plc["total"], lastGoodCum}
      /\ ok => plc'["total"] = lastGoodCum
  BY <1>1, WriteKeeps DEF Tags, TypeOK
<1>3. UNCHANGED <<flag, flowVars, goodVars, onceVars, liveVars, zi, zeroOk,
                  zeroFor, tripProbe, push, ghosts>>
  BY DEF Restore
<1>4. TypeOK'
  <2>1. base' \in Nat /\ pc' \in {"commit", "idle"}
    BY <1>1 DEF TypeOK
  <2>2. forceHmi' \in BOOLEAN
    BY <1>1, Zenon
  <2>3. QED
    BY <1>2, <1>3, <2>1, <2>2
       DEF TypeOK, Steps, flowVars, goodVars, onceVars, liveVars, ghosts
<1>5. BooksBalance' /\ CountedOnce'
  BY <1>3 DEF BooksBalance, CountedOnce, Books, flowVars, goodVars, ghosts
<1>6. BaseCovers' /\ NeverAbove'
  BY <1>1, <1>2, <1>3 DEF TypeOK, Tags, BaseCovers, NeverAbove, goodVars, ghosts
<1>7. QED
  BY <1>4, <1>5, <1>6
(* Settling a pass on a new base nb and journal j keeps the books balanced *)
(* if the rolled-over total and the journal add up to base and journal.    *)
LEMMA SettleKeeps ==
  ASSUME IInv, pc = "commit", NEW nb \in Nat, NEW j \in Nat, NEW q \in Nat,
         Settle(nb, j, q), WrapL * q + nb + j = base + uncommittedL
  PROVE  /\ lastGoodCum' = nb /\ lastGoodValid' = TRUE /\ uncommittedL' = j
         /\ liveCum' \in Nat /\ base' = 0 /\ pc' = "rdMark"
         /\ truth' \in Nat /\ laps' \in Nat /\ surplus' \in Nat
         /\ BooksBalance' /\ (surplus' > 0 => excused)
<1> USE DEF IInv
<1>1. /\ lastGoodCum' = nb /\ lastGoodValid' = TRUE /\ uncommittedL' = j
      /\ base' = 0 /\ pc' = "rdMark"
  BY DEF Settle
<1>2. liveCum' \in Nat
  BY WrapFacts DEF Settle
<1>3. CASE lastGoodValid
  <2>1. laps' = laps + q /\ truth' = truth /\ surplus' = surplus + (base - lastGoodCum)
    BY <1>3 DEF Settle
  <2>2. base >= lastGoodCum /\ (~excused => base = lastGoodCum)
    BY <1>3 DEF BaseCovers
  <2>3. truth + surplus = WrapL * laps + lastGoodCum + uncommittedL
    BY <1>3 DEF BooksBalance, Books
  <2>4. WrapL * laps' = WrapL * laps + WrapL * q
    BY <2>1, WrapAssumption DEF TypeOK
  <2>5. WrapL * laps \in Nat /\ WrapL * q \in Nat
    BY WrapAssumption DEF TypeOK
  <2>6. truth' + surplus' = WrapL * laps' + nb + j
    BY <2>1, <2>3, <2>4, <2>5 DEF TypeOK
  <2>7. surplus' > 0 => excused
    BY <2>1, <2>2 DEF TypeOK, CountedOnce
  <2>8. QED
    BY <1>1, <1>2, <2>1, <2>2, <2>6, <2>7 DEF TypeOK, BooksBalance, Books
<1>4. CASE ~lastGoodValid
  <2>1. laps' = q /\ truth' = base + uncommittedL /\ surplus' = 0
    BY <1>4 DEF Settle
  <2>2. QED
    BY <1>1, <1>2, <2>1 DEF TypeOK, BooksBalance, Books
<1>5. QED
  BY <1>3, <1>4 DEF TypeOK

(* A pass with nothing to commit, or not yet.                              *)
LEMMA NoCommitStep ==
  ASSUME IInv, NoCommit
  PROVE  IInv'
<1> USE DEF IInv
<1>1. /\ lastGoodCum' = base /\ lastGoodValid' = TRUE /\ uncommittedL' = uncommittedL
      /\ liveCum' \in Nat /\ base' = 0 /\ pc' = "rdMark"
      /\ truth' \in Nat /\ laps' \in Nat /\ surplus' \in Nat
      /\ BooksBalance' /\ (surplus' > 0 => excused)
  <2>1. WrapL * 0 + base + uncommittedL = base + uncommittedL
    BY WrapAssumption DEF TypeOK
  <2>2. QED
    BY <2>1, SettleKeeps DEF NoCommit, TypeOK
<1>2. UNCHANGED <<plcVars, conn, pendingCommit, inBatch, onceVars, liveTrip,
                  liveTripValid, zi, zeroOk, zeroFor, tripProbe, forceHmi, push,
                  left, excused>>
  BY DEF NoCommit
<1>3. TypeOK'
  BY <1>1, <1>2 DEF TypeOK, Steps, plcVars, onceVars
<1>4. CountedOnce' /\ BaseCovers' /\ NeverAbove'
  BY <1>1, <1>2 DEF CountedOnce, BaseCovers, NeverAbove, NoCommit, plcVars
<1>5. QED
  BY <1>1, <1>3, <1>4

(* The commit: total and journal move together or not at all.              *)
LEMMA CommitStep ==
  ASSUME IInv, Commit
  PROVE  IInv'
<1> USE DEF IInv
<1> DEFINE owed == base + uncommittedL
<1>1. owed \in Nat /\ pc = "commit"
  BY DEF TypeOK, Commit
<1>2. /\ waterVolWrap(owed) \in Nat /\ owed \div WrapL \in Nat
      /\ WrapL * (owed \div WrapL) + waterVolWrap(owed) + 0 = owed
  <2>1. /\ waterVolWrap(owed) \in Nat /\ owed \div WrapL \in Nat
        /\ owed = WrapL * (owed \div WrapL) + waterVolWrap(owed)
    BY <1>1, WrapFacts
  <2>2. WrapL * (owed \div WrapL) \in Nat
    BY <2>1, WrapAssumption
  <2>3. QED
    BY <2>1, <2>2
<1>3. PICK ok \in BOOLEAN :
        /\ PlcWrite("total", waterVolWrap(owed), ok)
        /\ \/ /\ ok /\ Settle(waterVolWrap(owed), 0, owed \div WrapL)
              /\ pendingCommit' = FALSE
           \/ ~ok /\ Settle(base, uncommittedL, 0) /\ UNCHANGED pendingCommit
        /\ excused' = (excused \/ (~ok /\ plc' # plc))
  BY DEF Commit
<1>4. /\ conn' \in BOOLEAN /\ left' \in [Events -> Nat] /\ plc' \in [Tags -> Int]
      /\ ok => plc'["total"] = waterVolWrap(owed)
  BY <1>2, <1>3, WriteKeeps DEF Tags
<1>5. /\ lastGoodValid' = TRUE /\ base' = 0 /\ pc' = "rdMark" /\ liveCum' \in Nat
      /\ truth' \in Nat /\ laps' \in Nat /\ surplus' \in Nat
      /\ BooksBalance' /\ (surplus' > 0 => excused)
      /\ \/ ok /\ lastGoodCum' = waterVolWrap(owed) /\ uncommittedL' = 0
         \/ ~ok /\ lastGoodCum' = base /\ uncommittedL' = uncommittedL
  <2>1. CASE ok /\ Settle(waterVolWrap(owed), 0, owed \div WrapL)
    BY <1>1, <1>2, <2>1, SettleKeeps
  <2>2. CASE ~ok /\ Settle(base, uncommittedL, 0)
    <3>1. WrapL * 0 + base + uncommittedL = owed
      BY WrapAssumption DEF TypeOK
    <3>2. QED
      BY <1>1, <2>2, <3>1, SettleKeeps DEF TypeOK
  <2>3. QED
    BY <1>3, <2>1, <2>2
<1>6. pendingCommit' \in BOOLEAN /\ excused' \in BOOLEAN
  BY <1>3, Zenon DEF TypeOK
<1>7. UNCHANGED <<flag, inBatch, onceVars, liveTrip, liveTripValid, zi, zeroOk,
                  zeroFor, tripProbe, forceHmi, push>>
  BY DEF Commit
<1>8. TypeOK'
  BY <1>2, <1>4, <1>5, <1>6, <1>7 DEF TypeOK, Steps, onceVars
<1>9. CountedOnce' /\ BaseCovers'
  BY <1>3, <1>5 DEF CountedOnce, BaseCovers
<1>10. NeverAbove'
  <2>1. CASE ok
    BY <1>2, <1>4, <1>5, <2>1 DEF NeverAbove
  <2>2. CASE ~ok
    <3>1. ~excused' => ~excused /\ plc' = plc
      BY <1>3, <2>2, Zenon
    <3>2. QED
      BY <1>1, <1>5, <2>2, <3>1 DEF NeverAbove
  <2>3. QED
    BY <2>1, <2>2
<1>11. QED
  BY <1>5, <1>8, <1>9, <1>10
-----------------------------------------------------------------------------
(* Every step of waterToPlc keeps the invariant.                           *)
LEMMA PassStep ==
  ASSUME IInv, Pass
  PROVE  IInv'
<1>1. CASE WrMark \/ WrTrip0 \/ ClrHist
  BY <1>1, TripStepKeeps DEF WrMark, WrTrip0, ClrHist, Tags, Steps, IInv, TypeOK
<1>2. CASE WrDisplay \/ WrTrip \/ WrHist
  <2>1. /\ (IF liveTripValid THEN "wrTrip" ELSE "idle") \in Steps \ {"commit"}
        /\ (IF push THEN "wrHist" ELSE "idle") \in Steps \ {"commit"}
        /\ "idle" \in Steps \ {"commit"}
    BY DEF Steps
  <2>2. liveCum \in Int /\ liveTrip \in Int
    BY DEF IInv, TypeOK
  <2>3. {"display", "trip", "hist"} \subseteq Tags \ {"total"}
    BY DEF Tags
  <2>4. QED
    BY <1>2, <2>1, <2>2, <2>3, HmiStepKeeps DEF WrDisplay, WrTrip, WrHist
<1>3. QED
  BY <1>1, <1>2, RdResetStep, ZeroStep, AckResetStep, RdTripStep, RdCurStep, AckTripStep,
     RdBaseStep, RestoreStep, NoCommitStep, CommitStep, RdMarkStep DEF Pass

(* A step that changes nothing.                                            *)
LEMMA StutterStep ==
  ASSUME IInv, UNCHANGED vars
  PROVE  IInv'
BY DEF vars, plcVars, flowVars, goodVars, onceVars, liveVars, locals, ghosts,
       IInv, TypeOK, BaseCovers, NeverAbove, BooksBalance, CountedOnce, Books

(***************************************************************************)
(* The strengthening holds in every reachable state: the base a pass works *)
(* on covers the reference, and the PLC never holds more than the gateway  *)
(* knows unless a reply was lost or a download raised it.                  *)
(***************************************************************************)
THEOREM Inductive == Spec => []IInv
<1>1. IInv /\ [Next]_vars => IInv'
  BY PassStep, EnvironmentStep, StutterStep DEF Next
<1>2. QED
  BY InitIInv, <1>1, PTL DEF Spec

(* Type correctness of the water accounting.                               *)
THEOREM TypeCorrect == Spec => []TypeOK
<1>1. IInv => TypeOK
  BY DEF IInv
<1>2. QED
  BY <1>1, Inductive, PTL

(***************************************************************************)
(* The books balance: no order of refused commits, lost replies, session   *)
(* drops, downloads, half resets and reboots makes waterToPlc lose a litre *)
(* of the journal.                                                         *)
(***************************************************************************)
THEOREM NoWaterLost == Spec => []BooksBalance
<1>1. IInv => BooksBalance
  BY DEF IInv
<1>2. QED
  BY <1>1, Inductive, PTL

(***************************************************************************)
(* No litre is counted twice by waterToPlc unless a commit's reply is lost *)
(* or a download raises the total.                                         *)
(***************************************************************************)
THEOREM NeverCountedTwice == Spec => []CountedOnce
<1>1. IInv => CountedOnce
  BY DEF IInv
<1>2. QED
  BY <1>1, Inductive, PTL

-----------------------------------------------------------------------------
(***************************************************************************)
(* The lifetime reset: what has been zeroed by the time the HMI's request  *)
(* is acknowledged.                                                        *)
(***************************************************************************)
(* A tag is zero, or it is the total and a download has raised it.         *)
Zeroed(t) == plc[t] = 0 \/ (t = "total" /\ left["downloads"] < Budget["downloads"])

(* Half way through a reset with no failure, the tags behind the cursor are*)
(* zeroed; at the acknowledgement all of them are, and the books with them.*)
ResetSoFar ==
  /\ left["downloads"] <= Budget["downloads"]
  /\ (pc = "zero" /\ zeroOk) => \A k \in 1..(zi - 1) : Zeroed(ZeroOrder[k])
  /\ pc = "ackReset" => /\ lastGoodValid /\ lastGoodCum = 0 /\ uncommittedL = 0
                        /\ \A t \in Tags : Zeroed(t)

-----------------------------------------------------------------------------
(* No call to the PLC counts as a download.                                *)
LEMMA NoReplyNoDownload ==
  ASSUME TypeOK, NoReply
  PROVE  left'["downloads"] = left["downloads"]
  BY DEF TypeOK, NoReply, Spend, Events

(* Reading a tag is no download either.                                    *)
LEMMA ReadNoDownload ==
  ASSUME TypeOK, NEW ok \in BOOLEAN, PlcRead(ok)
  PROVE  left'["downloads"] = left["downloads"]
  BY NoReplyNoDownload DEF PlcRead

(* Nor is writing one.                                                     *)
LEMMA WriteNoDownload ==
  ASSUME TypeOK, NEW tag \in Tags, NEW v \in Int, NEW ok \in BOOLEAN,
         PlcWrite(tag, v, ok)
  PROVE  left'["downloads"] = left["downloads"]
  BY NoReplyNoDownload DEF TypeOK, PlcWrite, Spend, Events

(* Nor is acknowledging a flag.                                            *)
LEMMA FlagNoDownload ==
  ASSUME TypeOK, NEW f \in Flags, FlagClear(f)
  PROVE  left'["downloads"] = left["downloads"]
  BY NoReplyNoDownload DEF TypeOK, FlagClear, Spend, Events

(* A step that ends outside a reset owes nothing about it.                 *)
LEMMA OutsideReset ==
  ASSUME ResetSoFar, left'["downloads"] = left["downloads"],
         pc' \notin {"zero", "ackReset"}
  PROVE  ResetSoFar'
  BY DEF ResetSoFar

(* The gateway boots outside a reset.                                      *)
LEMMA InitReset == Init => ResetSoFar
  BY BudgetAssumption DEF Init, ResetSoFar, Events

-----------------------------------------------------------------------------
(* One write of waterOnReset: the cursor moves past a tag that is zero, or *)
(* the failure is remembered.                                              *)
LEMMA ZeroReset ==
  ASSUME TypeOK, ResetSoFar, Zero
  PROVE  ResetSoFar'
<1>1. zi \in 1..5 /\ ZeroOrder[zi] \in Tags /\ Len(ZeroOrder) = 5
  BY DEF TypeOK, ZeroOrder, Tags
<1>2. PICK ok \in BOOLEAN :
        /\ PlcWrite(ZeroOrder[zi], 0, ok)
        /\ IF zi < Len(ZeroOrder)
           THEN /\ zi' = zi + 1 /\ zeroOk' = (zeroOk /\ ok)
                /\ UNCHANGED <<pc, zeroFor, flowVars, goodVars, ghosts>>
           ELSE ZeroDone(zeroOk /\ ok)
  BY DEF Zero
<1>3. /\ left'["downloads"] = left["downloads"]
      /\ \A x \in Tags : x # ZeroOrder[zi] => plc'[x] = plc[x]
      /\ ok => plc'[ZeroOrder[zi]] = 0
  BY <1>1, <1>2, WriteNoDownload, WriteKeeps
<1>4. pc = "zero" /\ left["downloads"] <= Budget["downloads"]
  BY DEF Zero, ResetSoFar
<1>5. \A k \in 1..5 : ZeroOrder[k] \in Tags
  BY DEF ZeroOrder, Tags
<1>6. (zeroOk /\ ok) => \A k \in 1..zi : Zeroed(ZeroOrder[k])'
  <2> SUFFICES ASSUME zeroOk, ok, NEW k \in 1..zi
               PROVE  Zeroed(ZeroOrder[k])'
    OBVIOUS
  <2>1. CASE ZeroOrder[k] = ZeroOrder[zi]
    BY <1>3, <2>1 DEF Zeroed, ZeroOrder
  <2>2. CASE ZeroOrder[k] # ZeroOrder[zi]
    <3>1. k \in 1..(zi - 1) /\ ZeroOrder[k] \in Tags
      BY <1>1, <1>5, <2>2
    <3>2. Zeroed(ZeroOrder[k])
      BY <1>4, <3>1 DEF ResetSoFar
    <3>3. plc'[ZeroOrder[k]] = plc[ZeroOrder[k]]
      BY <1>3, <2>2, <3>1
    <3>4. QED
      BY <1>3, <3>2, <3>3 DEF Zeroed, ZeroOrder
  <2>3. QED
    BY <2>1, <2>2
<1>7. CASE zi < Len(ZeroOrder)
  <2>1. zi' = zi + 1 /\ zeroOk' = (zeroOk /\ ok) /\ pc' = pc
    BY <1>2, <1>7, Zenon
  <2>2. zeroOk' => \A k \in 1..(zi' - 1) : Zeroed(ZeroOrder[k])'
    <3>1. zi' - 1 = zi
      BY <1>1, <2>1
    <3>2. zeroOk' => zeroOk /\ ok
      BY <2>1, Zenon
    <3>3. QED
      BY <1>6, <3>1, <3>2
  <2>3. QED
    BY <1>3, <1>4, <2>1, <2>2 DEF ResetSoFar, ZeroOrder
<1>8. CASE ~(zi < Len(ZeroOrder))
  <2>1. ZeroDone(zeroOk /\ ok) /\ zi = 5
    BY <1>1, <1>2, <1>8
  <2>2. CASE zeroOk /\ ok
    <3>1. \A t \in Tags : Zeroed(t)'
      <4> SUFFICES ASSUME NEW t \in Tags PROVE Zeroed(t)'
        OBVIOUS
      <4>1. PICK k \in 1..5 : t = ZeroOrder[k]
        BY DEF Tags, ZeroOrder
      <4>2. QED
        BY <1>6, <2>1, <2>2, <4>1 DEF ZeroOrder
    <3>2. lastGoodValid' /\ lastGoodCum' = 0 /\ uncommittedL' = 0
      BY <2>1, <2>2 DEF ZeroDone, ClearBooks
    <3>3. pc' # "zero"
      BY <2>1, <2>2, Zenon DEF ZeroDone, TypeOK
    <3>4. QED
      BY <1>3, <1>4, <3>1, <3>2, <3>3 DEF ResetSoFar
  <2>3. CASE ~(zeroOk /\ ok)
    <3>1. pc' \in {"idle", "rdTrip"}
      BY <2>1, <2>3, Zenon DEF ZeroDone, TypeOK
    <3>2. QED
      BY <1>3, <3>1, OutsideReset
  <2>4. QED
    BY <2>2, <2>3
<1>9. QED
  BY <1>7, <1>8

(* A download in the middle of a reset raises at most the total.           *)
LEMMA DownloadReset ==
  ASSUME TypeOK, ResetSoFar, NEW t \in DownloadTotals, Download(t)
  PROVE  ResetSoFar'
<1>1. left'["downloads"] < Budget["downloads"]
  BY BudgetAssumption DEF TypeOK, ResetSoFar, Download, Spend, Events
<1>2. \A x \in Tags : Zeroed(x)'
  BY <1>1 DEF Download, Zeroed, Tags
<1>3. \A k \in 1..5 : ZeroOrder[k] \in Tags
  BY DEF ZeroOrder, Tags
<1>4. zi' = zi /\ zi \in 1..5
  BY DEF Download, TypeOK, locals
<1>5. \A k \in 1..(zi' - 1) : Zeroed(ZeroOrder[k])'
  BY <1>2, <1>3, <1>4 DEF ZeroOrder
<1>6. left'["downloads"] <= Budget["downloads"]
  BY <1>1, BudgetAssumption DEF TypeOK, Download, Spend, Events
<1>7. pc' = pc /\ UNCHANGED <<uncommittedL, lastGoodCum, lastGoodValid>>
  BY DEF Download, flowVars, goodVars
<1>8. QED
  BY <1>2, <1>5, <1>6, <1>7 DEF ResetSoFar

(* What happens around the gateway while it resets.                        *)
LEMMA EnvironmentReset ==
  ASSUME TypeOK, ResetSoFar, Environment \/ Reconnect
  PROVE  ResetSoFar'
<1>1. ASSUME NEW t \in DownloadTotals, Download(t) PROVE ResetSoFar'
  BY <1>1, DownloadReset
<1>2. ASSUME NEW f \in Flags, Press(f) PROVE ResetSoFar'
  <2>1. left'["downloads"] = left["downloads"] /\ plc' = plc /\ pc' = pc
    BY <1>2 DEF Press, Spend, TypeOK, Events
  <2>2. UNCHANGED <<zi, zeroOk, uncommittedL, lastGoodCum, lastGoodValid>>
    BY <1>2 DEF Press, locals, flowVars, goodVars
  <2>3. QED
    BY <2>1, <2>2 DEF ResetSoFar, Zeroed, ZeroOrder
<1>3. CASE CloudReset
  <2>1. left'["downloads"] = left["downloads"] /\ pc' = "zero" /\ zi' = 1
    BY <1>3 DEF CloudReset, StartZero, Spend, TypeOK, Events
  <2>2. QED
    BY <2>1 DEF ResetSoFar
<1>4. CASE Reboot
  BY <1>4, OutsideReset DEF Reboot, Spend, TypeOK, Events
<1>5. ASSUME NEW l \in Litres, FlowTick(l) PROVE ResetSoFar'
  BY <1>5, OutsideReset DEF FlowTick, Spend, TypeOK, Events
<1>6. CASE BatchEnd \/ Reconnect
  BY <1>6, OutsideReset DEF BatchEnd, Reconnect
<1>7. QED
  BY <1>1, <1>2, <1>3, <1>4, <1>5, <1>6 DEF Environment

(* The steps of a pass outside waterOnReset, and the two that enter it.    *)
LEMMA PassReset ==
  ASSUME TypeOK, ResetSoFar, Pass
  PROVE  ResetSoFar'
<1>1. CASE RdReset
  <2>1. PICK ok \in BOOLEAN : /\ PlcRead(ok)
                             /\ \/ StartZero("hmi")
                                \/ pc' = "rdTrip" /\ UNCHANGED <<zi, zeroOk, zeroFor>>
    BY <1>1 DEF RdReset
  <2>2. left'["downloads"] = left["downloads"]
    BY <2>1, ReadNoDownload
  <2>3. CASE StartZero("hmi")
    BY <2>2, <2>3 DEF StartZero, ResetSoFar
  <2>4. CASE pc' = "rdTrip"
    BY <2>2, <2>4, OutsideReset
  <2>5. QED
    BY <2>1, <2>3, <2>4
<1>2. CASE AckReset \/ AckTrip
  BY <1>2, FlagNoDownload, OutsideReset DEF AckReset, AckTrip, Flags
<1>3. CASE RdTrip
  <2>1. left'["downloads"] = left["downloads"]
    BY <1>3, ReadNoDownload DEF RdTrip
  <2>2. pc' \in {"rdBase", "rdCur"}
    BY <1>3, Zenon DEF RdTrip
  <2>3. QED
    BY <2>1, <2>2, OutsideReset
<1>4. CASE RdCur
  BY <1>4, ReadNoDownload, OutsideReset DEF RdCur
<1>5. CASE WrMark \/ WrTrip0 \/ ClrHist
  <2>1. PICK tag \in Tags, v \in Int, ok \in BOOLEAN : PlcWrite(tag, v, ok)
    BY <1>5 DEF WrMark, WrTrip0, ClrHist, TripStep, Tags, TypeOK
  <2>2. pc' \in {"wrTrip0", "clrHist", "ackTrip"}
    BY <1>5 DEF WrMark, WrTrip0, ClrHist, TripStep
  <2>3. QED
    BY <2>1, <2>2, WriteNoDownload, OutsideReset
<1>6. CASE WrDisplay \/ WrTrip \/ WrHist
  <2>1. PICK tag \in Tags, v \in Int, ok \in BOOLEAN : PlcWrite(tag, v, ok)
    BY <1>6 DEF WrDisplay, WrTrip, WrHist, HmiStep, Tags, TypeOK
  <2>2. pc' \in {"wrTrip", "wrHist", "idle"}
    BY <1>6, Zenon DEF WrDisplay, WrTrip, WrHist, HmiStep
  <2>3. QED
    BY <2>1, <2>2, WriteNoDownload, OutsideReset
<1>7. CASE RdBase
  <2>1. left'["downloads"] = left["downloads"]
    BY <1>7, ReadNoDownload DEF RdBase
  <2>2. pc' \in {"restore", "commit", "idle"}
    BY <1>7, Zenon DEF RdBase
  <2>3. QED
    BY <2>1, <2>2, OutsideReset
<1>8. CASE Restore
  BY <1>8, WriteNoDownload, OutsideReset DEF Restore, Tags, TypeOK
<1>9. CASE NoCommit
  BY <1>9, OutsideReset DEF NoCommit, Settle
<1>10. CASE Commit
  <2>1. PICK ok \in BOOLEAN : PlcWrite("total", waterVolWrap(base + uncommittedL), ok)
    BY <1>10 DEF Commit
  <2>2. waterVolWrap(base + uncommittedL) \in Int
    BY WrapFacts DEF TypeOK
  <2>3. pc' = "rdMark"
    BY <1>10 DEF Commit, Settle
  <2>4. QED
    BY <2>1, <2>2, <2>3, WriteNoDownload, OutsideReset DEF Tags
<1>11. CASE RdMark
  <2>1. left'["downloads"] = left["downloads"]
    BY <1>11, ReadNoDownload DEF RdMark
  <2>2. pc' \in {"wrDisplay", "idle"}
    BY <1>11, Zenon DEF RdMark
  <2>3. QED
    BY <2>1, <2>2, OutsideReset
<1>12. QED
  BY <1>1, <1>2, <1>3, <1>4, <1>5, <1>6, <1>7, <1>8, <1>9, <1>10, <1>11, ZeroReset DEF Pass

(***************************************************************************)
(* The HMI's reset request is acknowledged only after every tag of the     *)
(* reset was taken by the PLC and the gateway's own books were cleared,    *)
(* whatever fails, is downloaded, pressed or rebooted in between.          *)
(***************************************************************************)
THEOREM AcknowledgedWhole == Spec => []AckAfterWholeReset
<1>1. TypeOK /\ ResetSoFar /\ [Next]_vars => ResetSoFar'
  <2> SUFFICES ASSUME TypeOK, ResetSoFar, [Next]_vars PROVE ResetSoFar'
    OBVIOUS
  <2>1. CASE UNCHANGED vars
    BY <2>1 DEF vars, plcVars, flowVars, goodVars, locals, ResetSoFar, Zeroed, ZeroOrder
  <2>2. QED
    BY <2>1, PassReset, EnvironmentReset DEF Next
<1>2. ResetSoFar => AckAfterWholeReset
  BY DEF ResetSoFar, AckAfterWholeReset, Zeroed
<1>3. QED
  BY <1>1, <1>2, InitReset, TypeCorrect, PTL DEF Spec

-----------------------------------------------------------------------------
(***************************************************************************)
(* The refinement: every step of the gateway, the PLC and the network is a *)
(* step of the meter or leaves it alone.                                   *)
(***************************************************************************)
(* The display, as the refinement mapping has it.                          *)
Reading == IF lastGoodValid THEN Books ELSE 0
Zeroing == pc = "zero"

(* A step the meter does not see.                                          *)
Unseen == UNCHANGED <<Reading, lastGoodValid, excused, Zeroing>>
MeterStep == Meter!MeterNext \/ UNCHANGED Meter!meterVars

-----------------------------------------------------------------------------
(* What the display shows is a number of litres.                           *)
LEMMA ReadingType ==
  ASSUME TypeOK
  PROVE  Books \in Nat /\ Reading \in Nat
<1>1. WrapL * laps \in Nat
  BY WrapAssumption DEF TypeOK
<1>2. QED
  BY <1>1 DEF TypeOK, Books, Reading

(* A step that moves none of the three and stays in or out of a reset.     *)
LEMMA UnseenStep == Unseen => MeterStep
BY DEF Unseen, MeterStep, Reading, Zeroing, Meter!meterVars

(* The steps of the meter, in the ledger's terms: the first base read.     *)
LEMMA LearnStep ==
  ASSUME ~lastGoodValid, lastGoodValid', Reading' \in Nat, excused' \in {excused, TRUE},
         Zeroing' = Zeroing
  PROVE  MeterStep
BY DEF MeterStep, Reading, Zeroing, Meter!MeterNext, Meter!Learn

(* A tick of flow under a known total.                                     *)
LEMMA MeasureStep ==
  ASSUME lastGoodValid, NEW l \in Litres, Reading' = Reading + l,
         UNCHANGED <<lastGoodValid, excused, Zeroing>>
  PROVE  MeterStep
BY DEF MeterStep, Reading, Zeroing, Meter!MeterNext, Meter!Measure

(* An adopted surplus.                                                     *)
LEMMA JumpStep ==
  ASSUME lastGoodValid, excused, Reading' \in Nat, Reading' >= Reading,
         UNCHANGED <<lastGoodValid, excused, Zeroing>>
  PROVE  MeterStep
BY DEF MeterStep, Reading, Zeroing, Meter!MeterNext, Meter!Jump

(* A lost reply, or a download above the books.                            *)
LEMMA DoubtStep ==
  ASSUME ~excused, excused', UNCHANGED <<Reading, lastGoodValid, Zeroing>>
  PROVE  MeterStep
BY DEF MeterStep, Reading, Zeroing, Meter!MeterNext, Meter!Doubt

(* A reset begins, or is given up.                                         *)
LEMMA AskStep ==
  ASSUME Zeroing' = ~Zeroing, UNCHANGED <<Reading, lastGoodValid, excused>>
  PROVE  MeterStep
BY DEF MeterStep, Reading, Zeroing, Meter!MeterNext, Meter!Ask

(* A reset the PLC took as a whole.                                        *)
LEMMA WholeStep ==
  ASSUME Zeroing, ~Zeroing', Reading' = 0, lastGoodValid', excused' \in BOOLEAN
  PROVE  MeterStep
BY DEF MeterStep, Reading, Zeroing, Meter!MeterNext, Meter!Zero

(* A reboot.                                                               *)
LEMMA ForgetStep ==
  ASSUME Reading' = 0, ~lastGoodValid', ~excused', ~Zeroing'
  PROVE  MeterStep
BY DEF MeterStep, Reading, Zeroing, Meter!MeterNext, Meter!Forget

-----------------------------------------------------------------------------
(* Around the pass.                                                        *)

(* What leaves the journal, the reference and the ghosts alone is unseen,  *)
(* unless it enters or leaves a reset.                                     *)
LEMMA QuietUnseen ==
  ASSUME UNCHANGED <<uncommittedL, goodVars, ghosts>>, (pc' = "zero") = (pc = "zero")
  PROVE  MeterStep
<1>1. Unseen
  BY DEF Unseen, Reading, Zeroing, Books, goodVars, ghosts
<1>2. QED
  BY <1>1, UnseenStep

(* The same, where a reset begins or is given up.                          *)
LEMMA QuietAsk ==
  ASSUME UNCHANGED <<uncommittedL, goodVars, ghosts>>, (pc' = "zero") = ~(pc = "zero")
  PROVE  MeterStep
<1>1. Zeroing' = ~Zeroing /\ UNCHANGED <<Reading, lastGoodValid, excused>>
  BY DEF Reading, Zeroing, Books, goodVars, ghosts
<1>2. QED
  BY <1>1, AskStep

(* Discharges, downloads, presses, outages and reboots.                    *)
LEMMA EnvironmentMeter ==
  ASSUME IInv, Environment \/ Reconnect
  PROVE  MeterStep
<1>1. ASSUME NEW t \in DownloadTotals, Download(t) PROVE MeterStep
  <2>1. UNCHANGED <<uncommittedL, goodVars, pc, laps>> /\ excused' = (excused \/ t > lastGoodCum)
    BY <1>1 DEF Download, flowVars
  <2>2. UNCHANGED <<Reading, lastGoodValid, Zeroing>>
    BY <2>1 DEF Reading, Zeroing, Books, goodVars
  <2>3. CASE excused' = excused
    BY <2>2, <2>3, UnseenStep DEF Unseen
  <2>4. CASE ~excused /\ excused'
    BY <2>2, <2>4, DoubtStep
  <2>5. excused \in BOOLEAN /\ (excused => excused')
    BY <2>1, Zenon DEF IInv, TypeOK
  <2>6. excused' \in BOOLEAN
    BY <2>1, Zenon
  <2>7. QED
    BY <2>3, <2>4, <2>5, <2>6
<1>2. ASSUME NEW f \in Flags, Press(f) PROVE MeterStep
  BY <1>2, QuietUnseen DEF Press, flowVars
<1>3. CASE CloudReset
  BY <1>3, QuietAsk DEF CloudReset, StartZero, flowVars
<1>4. CASE Reboot
  <2>1. Reading' = 0 /\ ~lastGoodValid' /\ ~excused' /\ ~Zeroing'
    BY <1>4 DEF Reboot, Reading, Zeroing
  <2>2. QED
    BY <2>1, ForgetStep
<1>5. ASSUME NEW l \in Litres, FlowTick(l) PROVE MeterStep
  <2>1. /\ UNCHANGED <<lastGoodCum, lastGoodValid, laps, excused, Zeroing>>
        /\ uncommittedL' = uncommittedL + l
    BY <1>5 DEF FlowTick, goodVars, Zeroing
  <2>2. CASE lastGoodValid
    <3>1. l \in Nat /\ WrapL * laps \in Nat
      BY LitresAssumption, WrapAssumption DEF IInv, TypeOK
    <3>2. Reading' = Reading + l
      BY <2>1, <2>2, <3>1 DEF Reading, Books, IInv, TypeOK
    <3>3. QED
      BY <2>1, <2>2, <3>2, MeasureStep
  <2>3. CASE ~lastGoodValid
    BY <2>1, <2>3, UnseenStep DEF Unseen, Reading
  <2>4. QED
    BY <2>2, <2>3
<1>6. CASE BatchEnd \/ Reconnect
  BY <1>6, QuietUnseen DEF BatchEnd, Reconnect, flowVars
<1>7. QED
  BY <1>1, <1>2, <1>3, <1>4, <1>5, <1>6 DEF Environment

-----------------------------------------------------------------------------
(* The lifetime reset.                                                     *)

(* The last write of waterOnReset zeroes the display or gives it up; the   *)
(* others move nothing.                                                    *)
LEMMA ZeroMeter ==
  ASSUME IInv, Zero
  PROVE  MeterStep
<1>1. pc = "zero"
  BY DEF Zero
<1>2. PICK ok \in BOOLEAN :
        \/ UNCHANGED <<pc, flowVars, goodVars, ghosts>>
        \/ ZeroDone(zeroOk /\ ok)
  BY DEF Zero
<1>3. CASE UNCHANGED <<pc, flowVars, goodVars, ghosts>>
  BY <1>3, QuietUnseen DEF flowVars
<1>4. CASE ZeroDone(zeroOk /\ ok)
  <2>1. zeroFor \in {"hmi", "cloud"} /\ zeroOk \in BOOLEAN
    BY DEF IInv, TypeOK
  <2>2. pc' # "zero"
    BY <1>4, <2>1 DEF ZeroDone
  <2>3. CASE zeroOk /\ ok
    <3>1. ClearBooks
      BY <1>4, <2>3 DEF ZeroDone
    <3>2. Reading' = 0
      BY <3>1, WrapAssumption DEF ClearBooks, Reading, Books
    <3>3. lastGoodValid' /\ excused' \in BOOLEAN
      <4>1. lastGoodValid' = TRUE /\ excused' = (plc["total"] > 0)
        BY <3>1 DEF ClearBooks
      <4>2. (plc["total"] > 0) \in BOOLEAN
        BY DEF IInv, TypeOK, Tags
      <4>3. QED
        BY <4>1, <4>2
    <3>4. QED
      BY <1>1, <2>2, <3>2, <3>3, WholeStep DEF Zeroing
  <2>4. CASE ~(zeroOk /\ ok)
    <3>1. UNCHANGED <<flowVars, goodVars, ghosts>>
      BY <1>4, <2>4 DEF ZeroDone
    <3>2. QED
      BY <1>1, <2>2, <3>1, QuietAsk DEF flowVars
  <2>5. QED
    BY <2>3, <2>4
<1>5. QED
  BY <1>2, <1>3, <1>4

-----------------------------------------------------------------------------
(* The pass.                                                               *)

(* Settling a pass whose rolled-over total and journal add up to base and  *)
(* journal: a first base is learnt, a known display only moves by surplus. *)
LEMMA SettleMeter ==
  ASSUME IInv, pc = "commit", NEW nb \in Nat, NEW jl \in Nat, NEW q \in Nat,
         Settle(nb, jl, q), WrapL * q + nb + jl = base + uncommittedL,
         excused' \in BOOLEAN, excused => excused'
  PROVE  MeterStep
<1> USE DEF IInv
<1>1. /\ lastGoodCum' = nb /\ lastGoodValid' = TRUE /\ uncommittedL' = jl /\ pc' = "rdMark"
      /\ laps' = (IF lastGoodValid THEN laps ELSE 0) + q
  BY DEF Settle
<1>2. Zeroing' = Zeroing
  BY <1>1 DEF Zeroing
<1>3. Reading' = WrapL * laps' + nb + jl
  BY <1>1 DEF Reading, Books
<1>4. CASE ~lastGoodValid
  <2>1. laps' = q /\ WrapL * q \in Nat
    BY <1>1, <1>4, WrapAssumption
  <2>2. Reading' \in Nat
    BY <1>3, <2>1
  <2>3. excused' \in {excused, TRUE}
    BY DEF TypeOK
  <2>4. QED
    BY <1>1, <1>2, <1>4, <2>2, <2>3, LearnStep
<1>5. CASE lastGoodValid
  <2>1. laps' = laps + q
    BY <1>1, <1>5
  <2>2. WrapL * laps' = WrapL * laps + WrapL * q
    BY <2>1, WrapAssumption DEF TypeOK
  <2>3. WrapL * laps \in Nat /\ WrapL * q \in Nat
    BY WrapAssumption DEF TypeOK
  <2>4. Reading' = WrapL * laps + base + uncommittedL
    BY <1>3, <2>2, <2>3 DEF TypeOK
  <2>5. Reading = WrapL * laps + lastGoodCum + uncommittedL
    BY <1>5 DEF Reading, Books
  <2>6. base >= lastGoodCum /\ (~excused => base = lastGoodCum)
    BY <1>5 DEF BaseCovers
  <2>7. CASE excused
    <3>1. Reading' \in Nat /\ Reading' >= Reading
      BY <2>3, <2>4, <2>5, <2>6 DEF TypeOK
    <3>2. excused' = excused
      BY <2>7 DEF TypeOK
    <3>3. QED
      BY <1>1, <1>2, <1>5, <2>7, <3>1, <3>2, JumpStep
  <2>8. CASE ~excused
    <3>1. Reading' = Reading
      BY <2>4, <2>5, <2>6, <2>8
    <3>2. lastGoodValid' = lastGoodValid
      BY <1>1, <1>5 DEF TypeOK
    <3>3. CASE excused'
      BY <1>2, <2>8, <3>1, <3>2, <3>3, DoubtStep
    <3>4. CASE ~excused'
      <4>1. excused' = excused
        BY <2>8, <3>4 DEF TypeOK
      <4>2. QED
        BY <1>2, <3>1, <3>2, <4>1, UnseenStep DEF Unseen
    <3>5. QED
      BY <3>3, <3>4
  <2>9. QED
    BY <2>7, <2>8
<1>6. QED
  BY <1>4, <1>5

(* The end of a pass, with and without a commit.                           *)
LEMMA NoCommitMeter ==
  ASSUME IInv, NoCommit
  PROVE  MeterStep
<1>1. base \in Nat /\ uncommittedL \in Nat /\ excused \in BOOLEAN
  BY DEF IInv, TypeOK
<1>2. WrapL * 0 + base + uncommittedL = base + uncommittedL
  BY <1>1, WrapAssumption
<1>3. excused' = excused /\ pc = "commit" /\ Settle(base, uncommittedL, 0)
  BY DEF NoCommit
<1>4. QED
  BY <1>1, <1>2, <1>3, SettleMeter

LEMMA CommitMeter ==
  ASSUME IInv, Commit
  PROVE  MeterStep
<1> DEFINE owed == base + uncommittedL
<1>1. base \in Nat /\ uncommittedL \in Nat /\ owed \in Nat /\ pc = "commit"
  BY DEF IInv, TypeOK, Commit
<1>2. /\ waterVolWrap(owed) \in Nat /\ owed \div WrapL \in Nat
      /\ WrapL * (owed \div WrapL) + waterVolWrap(owed) + 0 = owed
      /\ WrapL * 0 + base + uncommittedL = owed
  <2>1. /\ waterVolWrap(owed) \in Nat /\ owed \div WrapL \in Nat
        /\ owed = WrapL * (owed \div WrapL) + waterVolWrap(owed)
    BY <1>1, WrapFacts
  <2>2. WrapL * (owed \div WrapL) \in Nat /\ WrapL * 0 = 0
    BY <2>1, WrapAssumption
  <2>3. QED
    BY <1>1, <2>1, <2>2
<1>3. PICK ok \in BOOLEAN :
        /\ \/ Settle(waterVolWrap(owed), 0, owed \div WrapL)
           \/ Settle(base, uncommittedL, 0)
        /\ excused' = (excused \/ (~ok /\ plc' # plc))
  BY DEF Commit
<1>4. excused' \in BOOLEAN /\ (excused => excused')
  BY <1>3, Zenon
<1>5. CASE Settle(waterVolWrap(owed), 0, owed \div WrapL)
  BY <1>1, <1>2, <1>4, <1>5, SettleMeter
<1>6. CASE Settle(base, uncommittedL, 0)
  BY <1>1, <1>2, <1>4, <1>6, SettleMeter
<1>7. QED
  BY <1>3, <1>5, <1>6

(* Every step of waterToPlc is a step of the meter, or unseen.             *)
LEMMA PassMeter ==
  ASSUME IInv, Pass
  PROVE  MeterStep
<1>1. CASE RdReset
  <2>1. pc = "idle" /\ UNCHANGED <<uncommittedL, goodVars, ghosts>> /\ pc' \in {"zero", "rdTrip"}
    BY <1>1 DEF RdReset, StartZero, flowVars
  <2>2. QED
    BY <2>1, QuietUnseen, QuietAsk
<1>2. CASE AckReset \/ RdTrip \/ RdCur \/ AckTrip \/ RdBase \/ Restore \/ RdMark
  <2>1. UNCHANGED <<uncommittedL, goodVars, ghosts>> /\ pc # "zero"
    BY <1>2 DEF AckReset, RdTrip, RdCur, AckTrip, RdBase, Restore, RdMark, flowVars
  <2>2. pc' # "zero"
    BY <1>2 DEF AckReset, RdTrip, RdCur, AckTrip, RdBase, Restore, RdMark
  <2>3. QED
    BY <2>1, <2>2, QuietUnseen
<1>3. CASE WrMark \/ WrTrip0 \/ ClrHist
  <2>1. UNCHANGED <<uncommittedL, goodVars, ghosts>> /\ pc # "zero" /\ pc' # "zero"
    BY <1>3 DEF WrMark, WrTrip0, ClrHist, TripStep, flowVars
  <2>2. QED
    BY <2>1, QuietUnseen
<1>4. CASE WrDisplay \/ WrTrip \/ WrHist
  <2>1. UNCHANGED <<uncommittedL, goodVars, ghosts>> /\ pc # "zero" /\ pc' # "zero"
    BY <1>4 DEF WrDisplay, WrTrip, WrHist, HmiStep, flowVars
  <2>2. QED
    BY <2>1, QuietUnseen
<1>5. QED
  BY <1>1, <1>2, <1>3, <1>4, ZeroMeter, NoCommitMeter, CommitMeter DEF Pass

-----------------------------------------------------------------------------
(***************************************************************************)
(* The water accounting implements WaterMeter: the displayed total moves   *)
(* by measured litres, by a whole reset, by a reboot, or upwards after a   *)
(* stated doubt; no refused commit, lost reply, restore or half reset of   *)
(* waterToPlc moves it otherwise.                                          *)
(***************************************************************************)
THEOREM ImplementsMeter == Spec => MeterRefined
<1>1. Init => Meter!MeterInit
  BY DEF Init, Meter!MeterInit
<1>2. IInv /\ [Next]_vars => [Meter!MeterNext]_Meter!meterVars
  <2> SUFFICES ASSUME IInv, [Next]_vars PROVE MeterStep
    BY DEF MeterStep
  <2>1. CASE UNCHANGED vars
    BY <2>1, QuietUnseen DEF vars, flowVars
  <2>2. QED
    BY <2>1, PassMeter, EnvironmentMeter DEF Next
<1>3. QED
  BY <1>1, <1>2, Inductive, PTL DEF Spec, MeterRefined, Meter!MeterSpec
=============================================================================
