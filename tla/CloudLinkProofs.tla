--------------------------- MODULE CloudLinkProofs ----------------------------
(***************************************************************************)
(* What CloudLink promises at any time, proved for all periods and         *)
(* budgets: types, the gate that opens, the association that is dropped    *)
(* only for cause, and the two bounds on a reset.  LinkRecovers, which is  *)
(* liveness, is checked by TLC only.                                       *)
(***************************************************************************)
EXTENDS CloudLink, TLAPS

WorldTypes ==
  /\ ap \in BOOLEAN /\ path \in Paths /\ fault \in Faults
  /\ wifi \in BOOLEAN /\ cloud \in BOOLEAN /\ sync \in BOOLEAN
  /\ lib \in {"seeking", "attached"}
  /\ pc \in {"gate", "update", "ladder", "rescue"}
  /\ left \in [Events -> Nat]
KnockTypes ==
  /\ addr \in {"none", "live", "gone"} /\ addrAge \in 0..AddrTtl
  /\ dnsFail \in None..NegCache /\ streak \in 0..Reresolve
  /\ okAge \in 0..Window /\ failFor \in None..OpenAfter /\ openAge \in 0..OpenEvery
  /\ shut \in Nat
AgeTypes ==
  /\ off \in None..Long /\ wifiFor \in None..Settle /\ armed \in None..Grace
  /\ reassocs \in 0..2 /\ tried \in None..RescueEvery
  /\ upFor \in None..NoSync /\ unsynced \in 0..NoSync /\ ownAge \in None..Grace + 3
FlagTypes == kicked \in BOOLEAN /\ syncWas \in BOOLEAN /\ settled \in BOOLEAN
Typed == WorldTypes /\ KnockTypes /\ AgeTypes /\ FlagTypes

(* The ladder has dropped an association only after the radio had settled. *)
Earned == reassocs > 0 => settled

(* Refused some passes in a row, the gate's two clocks have run that long. *)
Refusals == IF pc = "gate" THEN shut ELSE shut - 1
Refusing ==
  shut > 0 => /\ failFor # None
              /\ failFor >= Refusals \/ failFor = OpenAfter
              /\ openAge >= Refusals \/ openAge = OpenEvery

(* A connection the ladder counts is one the library has; before the       *)
(* ladder has looked, an association that broke may still be counted.      *)
Attached ==
  /\ cloud => wifi
  /\ lib = "seeking" => ~cloud /\ (upFor = None \/ pc = "ladder")

(* The guard's clock runs no faster than the time without SYNC.            *)
Unsynced ==
  upFor # None /\ cloud => /\ pc # "ladder" => syncWas = sync
                           /\ ~sync /\ ~syncWas => unsynced >= upFor

(* Past the ceiling, or past the ladder's first disconnect, every pass is  *)
(* one of the grace or takes the second disconnect.                        *)
Second == IF reassocs = 2 THEN 1 ELSE 0
Allowance ==
  IF pc # "rescue" THEN Second + (IF armed = None THEN 0 ELSE armed)
  ELSE IF armed = None THEN Second - 1
  ELSE IF armed = Grace THEN Second + Grace - 1 ELSE Second + armed
Bounded ==
  /\ reassocs = 0 => ownAge = None
  /\ reassocs > 0 => off - Ceiling <= Allowance \/ ownAge - 1 <= Allowance

IInv == Typed /\ Earned /\ Refusing /\ GateOpens /\ Attached /\ Unsynced /\ Bounded

-----------------------------------------------------------------------------
(* Ages.                                                                   *)

(* Every period is a natural number, and none that is a clock's bound is 0. *)
LEMMA PeriodFacts ==
  /\ NegCache \in Nat /\ AddrTtl \in Nat /\ Reresolve \in Nat /\ OpenAfter \in Nat
  /\ OpenEvery \in Nat /\ Settle \in Nat /\ Window \in Nat /\ Grace \in Nat
  /\ NoSync \in Nat /\ RescueEvery \in Nat /\ Ceiling \in Nat
  /\ 0 < NegCache /\ 0 < AddrTtl /\ 0 < OpenAfter /\ 0 < OpenEvery /\ 0 < Settle
  /\ 0 < Grace /\ 0 < NoSync /\ 0 < RescueEvery /\ 0 < Ceiling /\ 0 < Reresolve
  /\ Long \in Nat /\ Long = Ceiling + Grace + 2
<1>1. {NegCache, AddrTtl, Reresolve, OpenAfter, OpenEvery, RescueEvery, Settle,
       Window, Grace, NoSync} \subseteq Nat \ {0}
  BY PeriodsAssumption
<1>2. {Reassoc1, Reassoc2, Evidence, Ceiling} \subseteq Nat /\ Evidence < Ceiling
  BY PeriodsAssumption
<1>3. QED
  BY <1>1, <1>2 DEF Long

(* A tick ages what runs by at most one, up to its bound, and nothing else. *)
LEMMA LongerFacts ==
  ASSUME NEW bound \in Nat, NEW age \in None..bound
  PROVE  /\ Longer(age, bound) \in None..bound
         /\ Longer(age, bound) <= age + 1 /\ age <= Longer(age, bound)
         /\ age = None => Longer(age, bound) = None
         /\ age # None => 0 <= Longer(age, bound)
         /\ age # None /\ age # bound => Longer(age, bound) = age + 1
BY DEF Longer, None

(* The same of an age that always runs.                                    *)
LEMMA LongerNat ==
  ASSUME NEW bound \in Nat, NEW age \in 0..bound
  PROVE  Longer(age, bound) \in 0..bound
BY DEF Longer, None

(* An event spent leaves the budget a budget.                              *)
LEMMA SpendFacts ==
  ASSUME left \in [Events -> Nat], NEW e \in Events, Spend(e)
  PROVE  left' \in [Events -> Nat]
BY DEF Spend

(* A disconnect leaves the radio down, cured or failed.                    *)
LEMMA DisconnectFacts ==
  ASSUME WorldTypes, Disconnect
  PROVE  /\ wifi' = FALSE /\ cloud' = FALSE
         /\ fault' \in Faults /\ left' \in [Events -> Nat]
<1>1. fault \in Faults /\ left \in [Events -> Nat] /\ "faults" \in Events
  BY DEF WorldTypes, Events
<1>2. CASE fault' = (IF fault = "session" THEN "none" ELSE fault) /\ UNCHANGED left
  BY <1>1, <1>2 DEF Disconnect, Faults
<1>3. CASE fault' = "radio" /\ Spend("faults")
  BY <1>1, <1>3, SpendFacts DEF Disconnect, Faults
<1>4. QED
  BY <1>2, <1>3 DEF Disconnect

(* The first state is typed.                                               *)
LEMMA InitTyped == Init => Typed
<1> SUFFICES ASSUME Init PROVE Typed
  OBVIOUS
<1>1. WorldTypes
  BY BudgetAssumption DEF Init, WorldTypes, Paths, Faults
<1>2. KnockTypes
  BY PeriodFacts DEF Init, KnockTypes, None
<1>3. AgeTypes
  BY PeriodFacts DEF Init, AgeTypes, None
<1>4. FlagTypes
  BY DEF Init, FlagTypes
<1>5. QED
  BY <1>1, <1>2, <1>3, <1>4 DEF Typed

(* Every step types the world, the link and the budget.                    *)
LEMMA StepWorld ==
  ASSUME Typed, [Next]_vars
  PROVE  WorldTypes'
<1>1. WorldTypes /\ Associable \in BOOLEAN
  BY DEF Typed, WorldTypes, Associable
<1>2. "outside" \in Events /\ "faults" \in Events /\ left \in [Events -> Nat]
  BY <1>1 DEF WorldTypes, Events
<1>3. CASE AccessPoint
  <2>1. ap' \in BOOLEAN /\ wifi' \in BOOLEAN /\ cloud' \in BOOLEAN
    BY <1>3 DEF AccessPoint
  <2>2. left' \in [Events -> Nat]
    BY <1>2, <1>3, SpendFacts DEF AccessPoint
  <2>3. UNCHANGED <<path, fault, lib, sync, pc>>
    BY <1>3 DEF AccessPoint
  <2>4. QED
    BY <1>1, <2>1, <2>2, <2>3 DEF WorldTypes
<1>4. CASE Uplink
  <2>1. left' \in [Events -> Nat]
    BY <1>2, <1>4, SpendFacts DEF Uplink
  <2>2. QED
    BY <1>1, <1>4, <2>1 DEF WorldTypes, Uplink, link
<1>5. CASE NodeGone
  <2>1. left' \in [Events -> Nat]
    BY <1>2, <1>5, SpendFacts DEF NodeGone
  <2>2. QED
    BY <1>1, <1>5, <2>1 DEF WorldTypes, NodeGone, world, link
<1>6. CASE LibraryFails
  <2>1. left' \in [Events -> Nat]
    BY <1>2, <1>6, SpendFacts DEF LibraryFails
  <2>2. QED
    BY <1>1, <1>6, <2>1 DEF WorldTypes, LibraryFails, Faults
<1>7. CASE GateConnected \/ GateRadioDown \/ GateLanded
  BY <1>1, <1>7 DEF WorldTypes, GateConnected, GateRadioDown, GateLanded, world, link
<1>8. CASE GateRefused
  BY <1>1, <1>8 DEF WorldTypes, GateRefused, world, link
<1>9. CASE UpdateRadio
  BY <1>1, <1>9 DEF WorldTypes, UpdateRadio, world
<1>10. CASE UpdateLost
  BY <1>1, <1>10 DEF WorldTypes, UpdateLost, world
<1>11. CASE UpdateConnect
  <2>1. (path # "down" /\ fault \notin {"session", "stuck"}) \in BOOLEAN
    OBVIOUS
  <2>2. QED
    BY <1>1, <1>11, <2>1 DEF WorldTypes, UpdateConnect, world
<1>12. CASE UpdateAttached
  <2>1. left' \in [Events -> Nat]
    BY <1>2, <1>12, SpendFacts DEF UpdateAttached
  <2>2. cloud' \in BOOLEAN /\ sync' \in BOOLEAN
    BY <1>1, <1>12 DEF WorldTypes, UpdateAttached
  <2>3. QED
    BY <1>1, <1>12, <2>1, <2>2 DEF WorldTypes, UpdateAttached, world
<1>13. CASE LadderUp
  <2>1. /\ wifi' \in BOOLEAN /\ cloud' \in BOOLEAN
        /\ fault' \in Faults /\ left' \in [Events -> Nat]
    <3>1. Disconnect \/ UNCHANGED <<wifi, cloud, fault, left>>
      BY <1>13 DEF LadderUp
    <3>2. QED
      BY <1>1, <3>1, DisconnectFacts DEF WorldTypes
  <2>2. UNCHANGED <<ap, path, lib, sync>> /\ pc' = "rescue"
    BY <1>13 DEF LadderUp
  <2>3. QED
    BY <1>1, <2>1, <2>2 DEF WorldTypes
<1>14. CASE EpisodeBegins \/ LadderRests \/ LadderNotDue \/ LadderWaits
  BY <1>1, <1>14 DEF WorldTypes, EpisodeBegins, LadderRests, LadderNotDue, LadderWaits,
       world, link
<1>15. CASE LadderReassoc
  <2>1. UNCHANGED <<ap, path, lib, sync>> /\ pc' = "rescue" /\ Disconnect
    BY <1>15 DEF LadderReassoc
  <2>2. QED
    BY <1>1, <2>1, DisconnectFacts DEF WorldTypes
<1>16. CASE LadderReset
  BY <1>1, <1>16 DEF WorldTypes, LadderReset, RadioOff, Blank, Faults
<1>17. CASE wifiRescue
  <2>1. wifi' \in BOOLEAN /\ pc' = "gate"
    BY <1>1, <1>17 DEF WorldTypes, wifiRescue
  <2>2. UNCHANGED <<world, lib, cloud, sync, left>>
    BY <1>17 DEF wifiRescue
  <2>3. QED
    BY <1>1, <2>1, <2>2 DEF WorldTypes, world
<1>18. CASE UNCHANGED vars
  BY <1>1, <1>18 DEF WorldTypes, vars, world, link
<1>19. QED
  BY <1>3, <1>4, <1>5, <1>6, <1>7, <1>8, <1>9, <1>10, <1>11, <1>12, <1>13, <1>14, <1>15,
     <1>16, <1>17, <1>18 DEF Next, Pass, Outside, Update, Ladder

(* Every step types what the gate keeps.                                   *)
LEMMA StepKnock ==
  ASSUME Typed, [Next]_vars
  PROVE  KnockTypes'
<1>1. KnockTypes
  BY DEF Typed
<1>2. \A ok \in BOOLEAN : cloudProbeOnce(ok) =>
        /\ addr' \in {"none", "live", "gone"} /\ addrAge' \in 0..AddrTtl
        /\ dnsFail' \in None..NegCache /\ streak' \in 0..Reresolve
  <2> SUFFICES ASSUME NEW ok \in BOOLEAN, cloudProbeOnce(ok)
               PROVE  /\ addr' \in {"none", "live", "gone"} /\ addrAge' \in 0..AddrTtl
                      /\ dnsFail' \in None..NegCache /\ streak' \in 0..Reresolve
    OBVIOUS
  <2>1. addr' \in {"none", "live", "gone"} /\ addrAge' \in 0..AddrTtl
    BY <1>1, PeriodFacts DEF KnockTypes, cloudProbeOnce
  <2>2. dnsFail' \in None..NegCache
    BY <1>1, PeriodFacts DEF KnockTypes, cloudProbeOnce, None
  <2>3. streak' \in 0..Reresolve
    <3> DEFINE runs == IF Found /\ Stale THEN 0 ELSE streak
    <3>1. streak \in 0..Reresolve /\ runs \in 0..Reresolve
      BY <1>1, PeriodFacts DEF KnockTypes
    <3>2. streak' = IF addr' = "none" THEN streak
                    ELSE IF ok THEN 0 ELSE IF runs < Reresolve THEN runs + 1 ELSE runs
      BY DEF cloudProbeOnce
    <3> HIDE DEF runs
    <3>3. QED
      BY <3>1, <3>2, PeriodFacts
  <2>4. QED
    BY <2>1, <2>2, <2>3
<1>3. CASE AccessPoint \/ Uplink \/ LibraryFails
  BY <1>1, <1>3 DEF KnockTypes, AccessPoint, Uplink, LibraryFails, knock, ghosts
<1>4. CASE NodeGone
  BY <1>1, <1>4 DEF KnockTypes, NodeGone, ghosts
<1>5. CASE GateConnected
  BY <1>1, <1>5, PeriodFacts DEF KnockTypes, GateConnected, None
<1>6. CASE GateRadioDown
  BY <1>1, <1>6, PeriodFacts DEF KnockTypes, GateRadioDown, knock
<1>7. CASE GateLanded
  <2>1. /\ addr' \in {"none", "live", "gone"} /\ addrAge' \in 0..AddrTtl
        /\ dnsFail' \in None..NegCache /\ streak' \in 0..Reresolve
    BY <1>2, <1>7 DEF GateLanded
  <2>2. failFor' \in None..OpenAfter /\ okAge' \in 0..Window
    BY <1>7, PeriodFacts DEF GateLanded, None
  <2>3. openAge' \in 0..OpenEvery /\ shut' \in Nat
    BY <1>1, <1>7 DEF KnockTypes, GateLanded
  <2>4. QED
    BY <2>1, <2>2, <2>3 DEF KnockTypes
<1>8. CASE GateRefused
  <2>1. cloudProbeOnce(FALSE) /\ Refused
    BY <1>8 DEF GateRefused
  <2>2. failFor' \in None..OpenAfter /\ okAge' \in 0..Window
    BY <1>1, <2>1, PeriodFacts DEF KnockTypes, Refused, None
  <2>3. openAge' \in {0, openAge} /\ shut' \in {0, shut + 1}
    BY <1>8 DEF GateRefused
  <2>4. openAge' \in 0..OpenEvery /\ shut' \in Nat
    BY <1>1, <2>3, PeriodFacts DEF KnockTypes
  <2>5. /\ addr' \in {"none", "live", "gone"} /\ addrAge' \in 0..AddrTtl
        /\ dnsFail' \in None..NegCache /\ streak' \in 0..Reresolve
    BY <1>2, <2>1
  <2>6. QED
    BY <2>2, <2>4, <2>5 DEF KnockTypes
<1>9. CASE Update
  BY <1>1, <1>9 DEF KnockTypes, Update, UpdateRadio, UpdateLost, UpdateConnect,
       UpdateAttached, knock, ghosts
<1>10. CASE LadderUp \/ EpisodeBegins \/ LadderRests \/ LadderReassoc
            \/ LadderNotDue \/ LadderWaits
  BY <1>1, <1>10 DEF KnockTypes, LadderUp, EpisodeBegins, LadderRests, LadderReassoc,
       LadderNotDue, LadderWaits, knock
<1>11. CASE LadderReset
  BY <1>11, PeriodFacts DEF KnockTypes, LadderReset, Blank, None
<1>12. CASE wifiRescue
  <2>1. UNCHANGED <<addr, streak, shut>> /\ Time
    BY <1>12 DEF wifiRescue
  <2>2. addrAge' \in 0..AddrTtl
    <3>1. addrAge' \in {addrAge, Longer(addrAge, AddrTtl)}
      BY <2>1 DEF Time
    <3>2. addrAge \in 0..AddrTtl
      BY <1>1 DEF KnockTypes
    <3>3. QED
      BY <3>1, <3>2, LongerNat, PeriodFacts
  <2>3. dnsFail' \in None..NegCache /\ failFor' \in None..OpenAfter
    <3>1. dnsFail' = Longer(dnsFail, NegCache) /\ failFor' = Longer(failFor, OpenAfter)
      BY <2>1 DEF Time
    <3>2. dnsFail \in None..NegCache /\ failFor \in None..OpenAfter
      BY <1>1 DEF KnockTypes
    <3>3. QED
      BY <3>1, <3>2, LongerFacts, PeriodFacts
  <2>4. okAge' \in 0..Window /\ openAge' \in 0..OpenEvery
    <3>1. okAge' = Longer(okAge, Window) /\ openAge' = Longer(openAge, OpenEvery)
      BY <2>1 DEF Time
    <3>2. okAge \in 0..Window /\ openAge \in 0..OpenEvery
      BY <1>1 DEF KnockTypes
    <3>3. QED
      BY <3>1, <3>2, LongerNat, PeriodFacts
  <2>5. addr' \in {"none", "live", "gone"} /\ streak' \in 0..Reresolve /\ shut' \in Nat
    BY <1>1, <2>1 DEF KnockTypes
  <2>6. QED
    BY <2>2, <2>3, <2>4, <2>5 DEF KnockTypes
<1>13. CASE UNCHANGED vars
  BY <1>1, <1>13 DEF KnockTypes, vars, knock, ghosts
<1>14. QED
  BY <1>3, <1>4, <1>5, <1>6, <1>7, <1>8, <1>9, <1>10, <1>11, <1>12, <1>13
     DEF Next, Pass, Outside, Ladder

(* Every step types the ages the ladder keeps.                             *)
LEMMA StepAges ==
  ASSUME Typed, [Next]_vars
  PROVE  AgeTypes'
<1>1. AgeTypes
  BY DEF Typed
<1>2. wifiSince \in None..Settle
  BY <1>1, PeriodFacts DEF AgeTypes, wifiSince, None
<1>3. CASE AccessPoint \/ Uplink \/ LibraryFails \/ NodeGone
  BY <1>1, <1>3 DEF AgeTypes, AccessPoint, Uplink, LibraryFails, NodeGone, ladder, ghosts
<1>4. CASE GateConnected \/ GateRadioDown \/ GateLanded \/ GateRefused
  BY <1>1, <1>4 DEF AgeTypes, GateConnected, GateRadioDown, GateLanded, GateRefused, ladder
<1>5. CASE Update
  BY <1>1, <1>5 DEF AgeTypes, Update, UpdateRadio, UpdateLost, UpdateConnect,
       UpdateAttached, ladder, ghosts
<1>6. CASE LadderUp
  <2>1. UpSince \in None..NoSync
    BY <1>1, PeriodFacts DEF AgeTypes, UpSince, None
  <2>2. /\ off' = None /\ armed' = None /\ reassocs' = 0 /\ ownAge' = None
        /\ wifiFor' = wifiSince /\ upFor' = UpSince /\ UNCHANGED <<tried, unsynced>>
    BY <1>6 DEF LadderUp, EpisodeEnds
  <2>3. QED
    BY <1>1, <1>2, <2>1, <2>2, PeriodFacts DEF AgeTypes, None
<1>7. CASE EpisodeBegins \/ LadderRests \/ LadderNotDue \/ LadderWaits
  <2>1. wifiFor' = wifiSince /\ upFor' = None /\ UNCHANGED <<reassocs, tried, ownAge, unsynced>>
    BY <1>7 DEF EpisodeBegins, LadderRests, LadderNotDue, LadderWaits, Due, LadderDown
  <2>2. off' \in {0, off} /\ armed' \in {None, 0, armed}
    BY <1>7 DEF EpisodeBegins, LadderRests, LadderNotDue, LadderWaits
  <2>3. QED
    BY <1>1, <1>2, <2>1, <2>2, PeriodFacts DEF AgeTypes, None
<1>8. CASE LadderReassoc
  <2>1. wifiFor' = wifiSince /\ upFor' = None /\ UNCHANGED <<off, armed, tried, unsynced>>
    BY <1>8 DEF LadderReassoc, LadderDown
  <2>2. reassocs' = reassocs + 1 /\ reassocs \in {0, 1} /\ ownAge' \in {0, ownAge}
    BY <1>8 DEF LadderReassoc, reassocDue
  <2>3. QED
    BY <1>1, <1>2, <2>1, <2>2, PeriodFacts DEF AgeTypes, None
<1>9. CASE LadderReset
  BY <1>9, PeriodFacts DEF AgeTypes, LadderReset, Blank, None
<1>10. CASE wifiRescue
  <2>1. UNCHANGED reassocs /\ Time
    BY <1>10 DEF wifiRescue
  <2>2. off' \in None..Long /\ wifiFor' \in None..Settle /\ armed' \in None..Grace
        /\ upFor' \in None..NoSync /\ ownAge' \in None..Grace + 3
    <3>1. off' = Longer(off, Long) /\ wifiFor' = Longer(wifiFor, Settle)
          /\ armed' = Longer(armed, Grace) /\ upFor' = Longer(upFor, NoSync)
          /\ ownAge' = Longer(ownAge, Grace + 3)
      BY <2>1 DEF Time
    <3>2. off \in None..Long /\ wifiFor \in None..Settle /\ armed \in None..Grace
          /\ upFor \in None..NoSync /\ ownAge \in None..Grace + 3
      BY <1>1 DEF AgeTypes
    <3>3. Grace + 3 \in Nat
      BY PeriodFacts
    <3>4. QED
      BY <3>1, <3>2, <3>3, LongerFacts, PeriodFacts
  <2>3. unsynced' \in 0..NoSync
    <3>1. unsynced' \in {0, Longer(unsynced, NoSync)}
      BY <2>1 DEF Time
    <3>2. unsynced \in 0..NoSync
      BY <1>1 DEF AgeTypes
    <3>3. QED
      BY <3>1, <3>2, LongerNat, PeriodFacts
  <2>4. tried' \in {None, 1, Longer(tried, RescueEvery)}
    BY <1>10 DEF wifiRescue
  <2>5. tried' \in None..RescueEvery
    <3>1. tried \in None..RescueEvery
      BY <1>1 DEF AgeTypes
    <3>2. Longer(tried, RescueEvery) \in None..RescueEvery
      BY <3>1, LongerFacts, PeriodFacts
    <3>3. QED
      BY <2>4, <3>2, PeriodFacts DEF None
  <2>6. QED
    BY <1>1, <2>1, <2>2, <2>3, <2>5 DEF AgeTypes
<1>11. CASE UNCHANGED vars
  BY <1>1, <1>11 DEF AgeTypes, vars, ladder, ghosts
<1>12. QED
  BY <1>3, <1>4, <1>5, <1>6, <1>7, <1>8, <1>9, <1>10, <1>11 DEF Next, Pass, Outside, Ladder

(* Every step types the flags the ladder keeps.                            *)
LEMMA StepFlags ==
  ASSUME Typed, [Next]_vars
  PROVE  FlagTypes'
<1>1. FlagTypes /\ sync \in BOOLEAN
  BY DEF Typed, WorldTypes
<1>2. CASE AccessPoint \/ Uplink \/ LibraryFails \/ NodeGone
  BY <1>1, <1>2 DEF FlagTypes, AccessPoint, Uplink, LibraryFails, NodeGone, ladder, ghosts
<1>3. CASE GateConnected \/ GateRadioDown \/ GateLanded \/ GateRefused
  BY <1>1, <1>3 DEF FlagTypes, GateConnected, GateRadioDown, GateLanded, GateRefused, ladder
<1>4. CASE Update
  BY <1>1, <1>4 DEF FlagTypes, Update, UpdateRadio, UpdateLost, UpdateConnect,
       UpdateAttached, ladder, ghosts
<1>5. CASE LadderUp
  <2>1. syncWas' = sync /\ settled' = FALSE
    BY <1>5 DEF LadderUp, EpisodeEnds
  <2>2. kicked' = ((upFor # None /\ kicked)
                   \/ (~sync /\ ~(upFor # None /\ kicked) /\ UpSince = NoSync))
    BY <1>5 DEF LadderUp
  <2>3. kicked' \in BOOLEAN
    BY <2>2
  <2>4. QED
    BY <1>1, <2>1, <2>3 DEF FlagTypes
<1>6. CASE EpisodeBegins \/ LadderRests \/ LadderNotDue \/ LadderWaits \/ LadderReassoc
  <2>1. LadderDown
    BY <1>6 DEF EpisodeBegins, LadderRests, LadderNotDue, LadderWaits, LadderReassoc, Due
  <2>2. settled' \in BOOLEAN /\ syncWas' = FALSE /\ UNCHANGED kicked
    BY <2>1 DEF LadderDown
  <2>3. QED
    BY <1>1, <2>2 DEF FlagTypes
<1>7. CASE LadderReset
  BY <1>7 DEF FlagTypes, LadderReset, Blank
<1>8. CASE wifiRescue
  BY <1>1, <1>8 DEF FlagTypes, wifiRescue
<1>9. CASE UNCHANGED vars
  BY <1>1, <1>9 DEF FlagTypes, vars, ladder, ghosts
<1>10. QED
  BY <1>2, <1>3, <1>4, <1>5, <1>6, <1>7, <1>8, <1>9 DEF Next, Pass, Outside, Ladder

(* The types are inductive on their own.                                   *)
LEMMA StepTyped ==
  ASSUME Typed, [Next]_vars
  PROVE  Typed'
BY StepWorld, StepKnock, StepAges, StepFlags DEF Typed

-----------------------------------------------------------------------------
(* What the parts of a pass leave alone.                                   *)

(* Outside the board nothing but the link and the cached node changes.     *)
LEMMA OutsideFacts ==
  ASSUME Outside
  PROVE  /\ UNCHANGED <<ladder, ghosts, pc, failFor, openAge, lib, sync>>
         /\ cloud' => cloud
         /\ (cloud => wifi) => (cloud' => wifi')
<1>1. CASE AccessPoint
  BY <1>1 DEF AccessPoint, knock
<1>2. CASE Uplink
  BY <1>2 DEF Uplink, knock, link
<1>3. CASE NodeGone
  BY <1>3 DEF NodeGone, link
<1>4. CASE LibraryFails
  BY <1>4 DEF LibraryFails, knock
<1>5. QED
  BY <1>1, <1>2, <1>3, <1>4 DEF Outside

Gate == GateConnected \/ GateRadioDown \/ GateLanded \/ GateRefused

(* The gate does not touch the link or the ladder.                         *)
LEMMA GateFacts ==
  ASSUME Gate
  PROVE  /\ pc = "gate" /\ pc' \in {"update", "ladder"}
         /\ UNCHANGED <<ladder, settled, ownAge, unsynced, link>>
         /\ cloud => pc' = "update"
<1>1. CASE GateConnected
  BY <1>1 DEF GateConnected
<1>2. CASE GateRadioDown
  BY <1>2 DEF GateRadioDown
<1>3. CASE GateLanded
  BY <1>3 DEF GateLanded
<1>4. CASE GateRefused
  BY <1>4 DEF GateRefused
<1>5. QED
  BY <1>1, <1>2, <1>3, <1>4 DEF Gate

(* The library's step does not touch the gate's state or the ladder's.     *)
LEMMA UpdateFacts ==
  ASSUME Update
  PROVE  pc = "update" /\ pc' = "ladder" /\ UNCHANGED <<ladder, ghosts, knock>>
BY DEF Update, UpdateRadio, UpdateLost, UpdateConnect, UpdateAttached

Down == EpisodeBegins \/ LadderRests \/ LadderReassoc \/ LadderNotDue \/ LadderWaits

(* With the cloud down the ladder goes on to the rescue, or resets.        *)
LEMMA DownFacts ==
  ASSUME Down
  PROVE  /\ pc = "ladder" /\ pc' = "rescue" /\ ~cloud
         /\ upFor' = None /\ settled' = (settled \/ wifiSettled)
         /\ UNCHANGED <<knock, shut, lib, unsynced>>
<1>1. LadderDown
  BY DEF Down, EpisodeBegins, LadderRests, LadderReassoc, LadderNotDue, LadderWaits, Due
<1>2. pc' = "rescue" /\ UNCHANGED <<knock, shut, lib, unsynced>>
  BY DEF Down, EpisodeBegins, LadderRests, LadderReassoc, LadderNotDue, LadderWaits, link
<1>3. QED
  BY <1>1, <1>2 DEF LadderDown

(* A step is of the world, of the gate, the library, the ladder, or the    *)
(* rescue, or it is none.                                                  *)
LEMMA Steps ==
  ASSUME [Next]_vars
  PROVE  Outside \/ Gate \/ Update \/ LadderUp \/ Down \/ LadderReset \/ wifiRescue
         \/ UNCHANGED vars
BY DEF Next, Pass, Ladder, Gate, Down

-----------------------------------------------------------------------------
(* The reset is earned; the gate opens.                                    *)

(* A settled radio is remembered until the cloud is up again.              *)
LEMMA StepEarned ==
  ASSUME Earned, [Next]_vars
  PROVE  Earned'
<1>1. CASE Outside
  BY <1>1, OutsideFacts DEF Earned, ladder, ghosts
<1>2. CASE Gate
  BY <1>2, GateFacts DEF Earned, ladder
<1>3. CASE Update
  BY <1>3, UpdateFacts DEF Earned, ladder, ghosts
<1>4. CASE LadderUp
  BY <1>4 DEF Earned, LadderUp, EpisodeEnds
<1>5. CASE LadderReassoc
  <2>1. settled' = (settled \/ wifiSettled) /\ wifiSettled
    BY <1>5, DownFacts DEF Down, LadderReassoc, reassocDue
  <2>2. QED
    BY <2>1 DEF Earned
<1>6. CASE EpisodeBegins \/ LadderRests \/ LadderNotDue \/ LadderWaits
  <2>1. settled => settled'
    BY <1>6, DownFacts DEF Down
  <2>2. UNCHANGED reassocs
    BY <1>6 DEF EpisodeBegins, LadderRests, LadderNotDue, LadderWaits
  <2>3. QED
    BY <2>1, <2>2 DEF Earned
<1>7. CASE LadderReset
  BY <1>7 DEF Earned, LadderReset, Blank
<1>8. CASE wifiRescue
  BY <1>8 DEF Earned, wifiRescue
<1>9. CASE UNCHANGED vars
  BY <1>9 DEF Earned, vars, ladder, ghosts
<1>10. QED
  BY <1>1, <1>2, <1>3, <1>4, <1>5, <1>6, <1>7, <1>8, <1>9, Steps DEF Down

(* A refusal that does not open the gate leaves one of the clocks short of *)
(* its bound, and so the passes refused within it.                         *)
LEMMA StepRefusing ==
  ASSUME Typed, Refusing, GateOpens, [Next]_vars
  PROVE  Refusing' /\ GateOpens'
<1>1. /\ failFor \in None..OpenAfter /\ openAge \in 0..OpenEvery /\ shut \in Nat
      /\ pc \in {"gate", "update", "ladder", "rescue"}
  BY DEF Typed, KnockTypes, WorldTypes
<1>2. CASE UNCHANGED <<failFor, openAge, shut>> /\ (pc = "gate" <=> pc' = "gate")
  BY <1>2 DEF Refusing, GateOpens, Refusals
<1>3. CASE shut' = 0
  BY <1>3, PeriodFacts DEF Refusing, GateOpens
<1>4. CASE GateRefused /\ shut' # 0
  <2>1. /\ pc = "gate" /\ pc' = "ladder" /\ shut' = shut + 1
        /\ failFor' = (IF failFor = None THEN 0 ELSE failFor)
        /\ ~(failFor' = OpenAfter /\ openAge = OpenEvery)
        /\ openAge' = openAge
    BY <1>4 DEF GateRefused, Refused
  <2>2. /\ failFor' # None
        /\ failFor' >= shut \/ failFor' = OpenAfter
        /\ openAge >= shut \/ openAge = OpenEvery
    BY <1>1, <2>1, PeriodFacts DEF Refusing, Refusals, None
  <2>3. shut < OpenAfter \/ shut < OpenEvery
    BY <1>1, <2>1, <2>2, PeriodFacts DEF None
  <2>4. GateOpens'
    BY <1>1, <2>1, <2>3, PeriodFacts DEF GateOpens
  <2>5. failFor' # None
    BY <1>1, <2>1 DEF None
  <2>6. Refusals' = shut
    BY <1>1, <2>1 DEF Refusals
  <2>7. QED
    BY <2>1, <2>2, <2>4, <2>5, <2>6 DEF Refusing
<1>5. CASE wifiRescue
  <2>1. /\ pc = "rescue" /\ pc' = "gate" /\ shut' = shut
        /\ failFor' = Longer(failFor, OpenAfter) /\ openAge' = Longer(openAge, OpenEvery)
    BY <1>5 DEF wifiRescue, Time
  <2>2. SUFFICES ASSUME shut > 0 PROVE Refusing'
    BY <2>1 DEF Refusing, GateOpens
  <2>3. /\ failFor # None
        /\ failFor >= shut - 1 \/ failFor = OpenAfter
        /\ openAge >= shut - 1 \/ openAge = OpenEvery
    BY <2>1, <2>2 DEF Refusing, Refusals
  <2>4. failFor' # None /\ (failFor' >= shut \/ failFor' = OpenAfter)
    BY <1>1, <2>1, <2>3, PeriodFacts DEF Longer, None
  <2>5. openAge' >= shut \/ openAge' = OpenEvery
    BY <1>1, <2>1, <2>3, PeriodFacts DEF Longer, None
  <2>6. Refusals' = shut
    BY <2>1 DEF Refusals
  <2>7. QED
    BY <2>4, <2>5, <2>6 DEF Refusing
<1>6. CASE Outside
  BY <1>2, <1>6, OutsideFacts DEF ghosts
<1>7. CASE Gate
  <2>1. GateRefused \/ shut' = 0
    BY <1>7 DEF Gate, GateConnected, GateRadioDown, GateLanded
  <2>2. QED
    BY <1>3, <1>4, <2>1
<1>8. CASE Update
  BY <1>2, <1>8, UpdateFacts DEF ghosts, knock
<1>9. CASE LadderUp
  BY <1>2, <1>9 DEF LadderUp, knock
<1>10. CASE Down
  BY <1>2, <1>10, DownFacts DEF knock
<1>11. CASE LadderReset
  BY <1>3, <1>11 DEF LadderReset, Blank
<1>12. CASE UNCHANGED vars
  BY <1>2, <1>12 DEF vars, knock, ghosts
<1>13. QED
  BY <1>5, <1>6, <1>7, <1>8, <1>9, <1>10, <1>11, <1>12, Steps

-----------------------------------------------------------------------------
(* The no-SYNC guard.                                                      *)

(* Only the library's step makes a connection, and it attaches to it.      *)
LEMMA StepAttached ==
  ASSUME Typed, Attached, [Next]_vars
  PROVE  Attached'
<1>1. cloud \in BOOLEAN /\ wifi \in BOOLEAN
  BY DEF Typed, WorldTypes
<1>2. CASE Outside
  BY <1>2, OutsideFacts DEF Attached, ladder
<1>3. CASE Gate
  BY <1>3, GateFacts DEF Attached, ladder, link
<1>4. CASE Update
  <2>1. pc' = "ladder" /\ UNCHANGED upFor
    BY <1>4, UpdateFacts DEF ladder
  <2>2. CASE UpdateRadio
    BY <2>1, <2>2 DEF Attached, UpdateRadio
  <2>3. CASE UpdateLost
    BY <2>1, <2>3 DEF Attached, UpdateLost
  <2>4. CASE UpdateConnect
    <3>1. wifi /\ wifi' = wifi /\ lib = "seeking" /\ (cloud' => lib' = "attached")
      BY <2>4 DEF UpdateConnect
    <3>2. QED
      BY <2>1, <3>1 DEF Attached
  <2>5. CASE UpdateAttached
    BY <2>1, <2>5 DEF Attached, UpdateAttached
  <2>6. QED
    BY <1>4, <2>2, <2>3, <2>4, <2>5 DEF Update
<1>5. CASE LadderUp
  <2>1. cloud /\ UNCHANGED lib
    BY <1>5 DEF LadderUp
  <2>2. cloud' => wifi'
    <3>1. Disconnect \/ UNCHANGED <<wifi, cloud>>
      BY <1>5 DEF LadderUp
    <3>2. QED
      BY <3>1 DEF Attached, Disconnect
  <2>3. QED
    BY <2>1, <2>2 DEF Attached
<1>6. CASE Down
  <2>1. upFor' = None /\ ~cloud /\ UNCHANGED lib
    BY <1>6, DownFacts
  <2>2. ~cloud'
    <3>1. Disconnect \/ UNCHANGED link
      BY <1>6 DEF Down, EpisodeBegins, LadderRests, LadderReassoc, LadderNotDue, LadderWaits
    <3>2. QED
      BY <2>1, <3>1 DEF Disconnect, link
  <2>3. QED
    BY <2>1, <2>2 DEF Attached
<1>7. CASE LadderReset
  BY <1>7 DEF Attached, LadderReset, RadioOff, Blank
<1>8. CASE wifiRescue
  <2>1. pc = "rescue" /\ UNCHANGED <<cloud, lib>> /\ upFor' = Longer(upFor, NoSync)
    BY <1>8 DEF wifiRescue, Time
  <2>2. wifi => wifi'
    BY <1>8 DEF wifiRescue
  <2>3. upFor = None => upFor' = None
    BY <2>1 DEF Longer
  <2>4. QED
    BY <2>1, <2>2, <2>3 DEF Attached
<1>9. CASE UNCHANGED vars
  BY <1>9 DEF Attached, vars, link, ladder
<1>10. QED
  BY <1>2, <1>3, <1>4, <1>5, <1>6, <1>7, <1>8, <1>9, Steps

(* Where SYNC was seen or lost the guard's clock starts over; where not, it *)
(* and the time without SYNC age together.                                 *)
LEMMA StepUnsynced ==
  ASSUME Typed, Attached, Unsynced, [Next]_vars
  PROVE  Unsynced'
<1>1. /\ upFor \in None..NoSync /\ unsynced \in 0..NoSync /\ cloud \in BOOLEAN
      /\ sync \in BOOLEAN /\ syncWas \in BOOLEAN
  BY DEF Typed, AgeTypes, WorldTypes, FlagTypes
<1>2. CASE Outside
  BY <1>2, OutsideFacts DEF Unsynced, ladder, ghosts
<1>3. CASE Gate
  BY <1>3, GateFacts DEF Unsynced, ladder, link
<1>4. CASE Update
  <2>1. pc = "update" /\ pc' = "ladder" /\ UNCHANGED <<upFor, syncWas, unsynced>>
    BY <1>4, UpdateFacts DEF ladder, ghosts
  <2>2. SUFFICES ASSUME upFor # None, cloud', ~syncWas
                 PROVE  unsynced >= upFor
    BY <2>1 DEF Unsynced
  <2>3. UpdateAttached
    BY <1>4, <2>1, <2>2 DEF Update, UpdateRadio, UpdateLost, UpdateConnect, Attached
  <2>4. cloud
    BY <2>3 DEF UpdateAttached
  <2>5. QED
    BY <2>1, <2>2, <2>4 DEF Unsynced
<1>5. CASE LadderUp
  <2>1. /\ cloud /\ upFor' = UpSince /\ syncWas' = sync /\ UNCHANGED <<sync, unsynced>>
    BY <1>5 DEF LadderUp
  <2>2. ~sync => unsynced >= UpSince
    <3>1. CASE UpSince = 0
      BY <1>1, <3>1
    <3>2. CASE UpSince = upFor /\ upFor # None /\ ~(syncWas /\ ~sync)
      BY <1>1, <2>1, <3>2 DEF Unsynced
    <3>3. QED
      BY <3>1, <3>2 DEF UpSince
  <2>3. QED
    BY <2>1, <2>2 DEF Unsynced
<1>6. CASE Down
  BY <1>6, DownFacts DEF Unsynced
<1>7. CASE LadderReset
  BY <1>7 DEF Unsynced, LadderReset, Blank
<1>8. CASE wifiRescue
  <2>1. /\ pc = "rescue" /\ UNCHANGED <<cloud, sync, syncWas>>
        /\ upFor' = Longer(upFor, NoSync)
        /\ unsynced' = IF cloud /\ ~sync THEN Longer(unsynced, NoSync) ELSE 0
    BY <1>8 DEF wifiRescue, Time
  <2>2. SUFFICES ASSUME upFor' # None, cloud
                 PROVE  syncWas = sync /\ (~sync => unsynced' >= upFor')
    BY <2>1 DEF Unsynced
  <2>3. upFor # None
    BY <2>1, <2>2 DEF Longer
  <2>4. syncWas = sync /\ (~sync => unsynced >= upFor)
    BY <2>1, <2>2, <2>3 DEF Unsynced
  <2>5. ~sync => unsynced' = Longer(unsynced, NoSync)
    BY <2>1, <2>2
  <2>6. unsynced >= upFor => Longer(unsynced, NoSync) >= Longer(upFor, NoSync)
    BY <1>1, <2>3, PeriodFacts DEF Longer, None
  <2>7. QED
    BY <2>1, <2>4, <2>5, <2>6
<1>9. CASE UNCHANGED vars
  BY <1>9 DEF Unsynced, vars, link, ladder, ghosts
<1>10. QED
  BY <1>2, <1>3, <1>4, <1>5, <1>6, <1>7, <1>8, <1>9, Steps

-----------------------------------------------------------------------------
(* The ceiling.                                                            *)

(* What ages by at most one stays within a bound that grows by one.        *)
LEMMA Together ==
  ASSUME NEW a \in Int, NEW b \in Int, NEW c \in Int, NEW n \in Int, NEW m \in Int,
         n + 1 <= m, b <= a + 1
  PROVE  /\ a - c <= n => b - c <= m
         /\ a - 1 <= n => b - 1 <= m
OBVIOUS

(* With the cloud down the ladder rests, goes up a rung, disarms or waits. *)
LEMMA StepBounded ==
  ASSUME Typed, Bounded, [Next]_vars
  PROVE  Bounded'
<1>1. /\ off \in None..Long /\ armed \in None..Grace /\ reassocs \in 0..2
      /\ ownAge \in None..Grace + 3
  BY DEF Typed, AgeTypes
<1>2. CASE UNCHANGED <<off, armed, reassocs, ownAge>> /\ (pc = "rescue" <=> pc' = "rescue")
  BY <1>2 DEF Bounded, Allowance, Second
<1>3. CASE reassocs' = 0 /\ ownAge' = None
  BY <1>3 DEF Bounded
<1>4. CASE /\ pc' = "rescue" /\ UNCHANGED <<reassocs, ownAge>>
           /\ armed' \in None..Grace
           /\ reassocs > 0 => off' \in Int /\ off' < Ceiling
  <2>1. Allowance' \in Int /\ -1 <= Allowance'
    <3>1. Second' \in {0, 1} /\ pc' = "rescue"
      BY <1>4 DEF Second
    <3>2. /\ armed' = None => Allowance' = Second' - 1
          /\ armed' = Grace => Allowance' = Second' + Grace - 1
          /\ armed' \notin {None, Grace} => Allowance' = Second' + armed'
      BY <3>1, PeriodFacts DEF Allowance, None
    <3>3. armed' = None \/ (armed' \in Int /\ 0 <= armed')
      BY <1>4, PeriodFacts DEF None
    <3>4. QED
      BY <3>1, <3>2, <3>3, PeriodFacts
  <2>2. reassocs > 0 => off' - Ceiling <= Allowance'
    BY <1>4, <2>1, PeriodFacts
  <2>3. QED
    BY <1>4, <2>2 DEF Bounded
<1>5. CASE Outside
  BY <1>2, <1>5, OutsideFacts DEF ladder, ghosts
<1>6. CASE Gate
  BY <1>2, <1>6, GateFacts DEF ladder
<1>7. CASE Update
  BY <1>2, <1>7, UpdateFacts DEF ladder, ghosts
<1>8. CASE LadderUp
  BY <1>3, <1>8 DEF LadderUp, EpisodeEnds
<1>9. CASE EpisodeBegins
  <2>1. off' = 0 /\ UNCHANGED <<armed, reassocs, ownAge>> /\ pc' = "rescue"
    BY <1>9 DEF EpisodeBegins
  <2>2. QED
    BY <1>1, <1>4, <2>1, PeriodFacts
<1>10. CASE LadderRests
  <2>1. UNCHANGED <<off, armed, reassocs, ownAge>> /\ pc' = "rescue" /\ ~ceiling
    BY <1>10 DEF LadderRests, resting
  <2>2. reassocs > 0 => off < Ceiling
    BY <1>1, <2>1, PeriodFacts DEF ceiling, None
  <2>3. off \in Int
    BY <1>1, PeriodFacts DEF None
  <2>4. QED
    BY <1>1, <1>4, <2>1, <2>2, <2>3
<1>11. CASE LadderNotDue
  <2>1. UNCHANGED <<off, reassocs, ownAge>> /\ armed' = None /\ pc' = "rescue" /\ ~ceiling
    BY <1>11 DEF LadderNotDue, resetDue
  <2>2. reassocs > 0 => off < Ceiling
    BY <1>1, <2>1, PeriodFacts DEF ceiling, None
  <2>3. off \in Int /\ None \in None..Grace
    BY <1>1, PeriodFacts DEF None
  <2>4. QED
    BY <1>4, <2>1, <2>2, <2>3
<1>12. CASE LadderReassoc
  <2>1. /\ pc = "ladder" /\ pc' = "rescue" /\ UNCHANGED <<off, armed>>
        /\ reassocs' = reassocs + 1 /\ reassocs \in {0, 1}
        /\ ownAge' = (IF ownAge = None THEN 0 ELSE ownAge)
    BY <1>12, DownFacts DEF Down, LadderReassoc, reassocDue
  <2>2. CASE reassocs = 0
    <3>1. ownAge' = 0 /\ reassocs' = 1
      BY <2>1, <2>2 DEF Bounded
    <3>2. Allowance' \in Int /\ -1 <= Allowance'
      BY <1>1, <2>1, PeriodFacts DEF Allowance, Second, None
    <3>3. QED
      BY <3>1, <3>2 DEF Bounded
  <2>3. CASE reassocs = 1
    <3>1. Second = 0 /\ Second' = 1 /\ reassocs' = 2
      BY <2>1, <2>3 DEF Second
    <3>2. Allowance = (IF armed = None THEN 0 ELSE armed) /\ Allowance \in Int
      BY <1>1, <2>1, <3>1, PeriodFacts DEF Allowance, None
    <3>3. Allowance' >= Allowance /\ Allowance' \in Int
      BY <1>1, <2>1, <3>1, <3>2, PeriodFacts DEF Allowance, None
    <3>4. ownAge' = ownAge \/ (ownAge' = 0 /\ ownAge = None)
      BY <2>1
    <3>5. 0 <= Allowance
      BY <1>1, <3>2 DEF None
    <3>6. off - Ceiling <= Allowance \/ ownAge - 1 <= Allowance
      BY <2>3 DEF Bounded
    <3>7. off' - Ceiling <= Allowance' \/ ownAge' - 1 <= Allowance'
      BY <1>1, <2>1, <3>2, <3>3, <3>4, <3>5, <3>6, PeriodFacts DEF None
    <3>8. QED
      BY <3>1, <3>7 DEF Bounded
  <2>4. QED
    BY <2>1, <2>2, <2>3
<1>13. CASE LadderWaits
  <2>1. /\ pc = "ladder" /\ pc' = "rescue" /\ UNCHANGED <<off, reassocs, ownAge>>
        /\ armed # Grace /\ armed' = (IF armed = None THEN 0 ELSE armed)
    BY <1>13, DownFacts DEF Down, LadderWaits
  <2>2. Allowance' = Allowance
    BY <1>1, <2>1, PeriodFacts DEF Allowance, Second, None
  <2>3. QED
    BY <2>1, <2>2 DEF Bounded
<1>14. CASE LadderReset
  BY <1>3, <1>14 DEF LadderReset, Blank
<1>15. CASE wifiRescue
  <2>1. /\ pc = "rescue" /\ pc' = "gate" /\ UNCHANGED reassocs
        /\ off' = Longer(off, Long) /\ armed' = Longer(armed, Grace)
        /\ ownAge' = Longer(ownAge, Grace + 3)
    BY <1>15 DEF wifiRescue, Time
  <2>2. /\ off' \in Int /\ off' <= off + 1
        /\ ownAge' \in Int /\ ownAge' <= ownAge + 1
        /\ ownAge = None => ownAge' = None
    <3>1. Grace + 3 \in Nat
      BY PeriodFacts
    <3>2. QED
      BY <1>1, <2>1, <3>1, LongerFacts, PeriodFacts DEF None
  <2>3. Second' = Second /\ Second \in {0, 1}
    BY <2>1 DEF Second
  <2>4. Allowance \in Int /\ Allowance' \in Int /\ Allowance + 1 <= Allowance'
    <3>1. CASE armed = None
      <4>1. armed' = None
        BY <2>1, <3>1 DEF Longer
      <4>2. QED
        BY <2>1, <2>3, <3>1, <4>1 DEF Allowance
    <3>2. CASE armed = Grace
      <4>1. armed' = Grace
        BY <2>1, <3>2 DEF Longer
      <4>2. QED
        BY <2>1, <2>3, <3>2, <4>1, PeriodFacts DEF Allowance, None
    <3>3. CASE armed \notin {None, Grace}
      <4>1. armed' = armed + 1 /\ armed \in Int /\ 0 <= armed
        BY <1>1, <2>1, <3>3, PeriodFacts DEF Longer, None
      <4>2. QED
        BY <2>1, <2>3, <3>3, <4>1, PeriodFacts DEF Allowance, None
    <3>4. QED
      BY <3>1, <3>2, <3>3
  <2>5. SUFFICES ASSUME reassocs > 0
                 PROVE  off' - Ceiling <= Allowance' \/ ownAge' - 1 <= Allowance'
    BY <2>1, <2>2 DEF Bounded
  <2>6. off - Ceiling <= Allowance \/ ownAge - 1 <= Allowance
    BY <2>5 DEF Bounded
  <2>7. off \in Int /\ ownAge \in Int /\ Ceiling \in Int
    BY <1>1, PeriodFacts DEF None
  <2>8. off - Ceiling <= Allowance => off' - Ceiling <= Allowance'
    BY <2>2, <2>4, <2>7, Together
  <2>9. ownAge - 1 <= Allowance => ownAge' - 1 <= Allowance'
    BY <2>2, <2>4, <2>7, Together
  <2>10. QED
    BY <2>6, <2>8, <2>9
<1>16. CASE UNCHANGED vars
  BY <1>2, <1>16 DEF vars, ladder, ghosts
<1>17. QED
  BY <1>5, <1>6, <1>7, <1>8, <1>9, <1>10, <1>11, <1>12, <1>13, <1>14, <1>15, <1>16, Steps
     DEF Down

-----------------------------------------------------------------------------
(* The invariant, and what follows from it.                                *)

(* The invariant holds at first.                                           *)
LEMMA InitIInv == Init => IInv
<1> SUFFICES ASSUME Init PROVE IInv
  OBVIOUS
<1>1. Typed
  BY InitTyped
<1>2. shut = 0 /\ reassocs = 0 /\ ownAge = None /\ upFor = None /\ cloud = FALSE
  BY DEF Init
<1>3. Earned /\ Refusing /\ Attached /\ Unsynced /\ Bounded
  BY <1>2 DEF Earned, Refusing, Attached, Unsynced, Bounded
<1>4. GateOpens
  BY <1>2, PeriodFacts DEF GateOpens
<1>5. QED
  BY <1>1, <1>3, <1>4 DEF IInv

(* Every step keeps it.                                                    *)
LEMMA StepIInv == IInv /\ [Next]_vars => IInv'
BY StepTyped, StepEarned, StepRefusing, StepAttached, StepUnsynced, StepBounded DEF IInv

(* It holds in every state of every run.                                   *)
LEMMA Inductive == Spec => []IInv
BY InitIInv, StepIInv, PTL DEF Spec

(* Every variable keeps its type, and no age passes its bound.             *)
THEOREM TypeCorrect == Spec => []TypeOK
<1>1. IInv => TypeOK
  BY DEF IInv, Typed, WorldTypes, KnockTypes, AgeTypes, FlagTypes, TypeOK
<1>2. QED
  BY <1>1, Inductive, PTL

(* With WiFi up and the cloud down, no run of refused passes outlasts both *)
(* fail-open times (cloud_probe.h's cloudGate).                            *)
THEOREM FailOpen == Spec => []GateOpens
<1>1. IInv => GateOpens
  BY DEF IInv
<1>2. QED
  BY <1>1, Inductive, PTL

(* Once the ladder has dropped the association itself, the outage ends     *)
(* within the ceiling and the grace, whatever the radio does after that.   *)
THEOREM CeilingReached == Spec => []CeilingHolds
<1>1. ASSUME IInv PROVE CeilingHolds
  <2>1. /\ off \in None..Long /\ armed \in None..Grace /\ reassocs \in 0..2
        /\ ownAge \in None..Grace + 3 /\ Bounded
    BY <1>1 DEF IInv, Typed, AgeTypes
  <2>2. Allowance \in Int /\ Allowance <= Grace + 1
    BY <2>1, PeriodFacts DEF Allowance, Second, None
  <2>3. SUFFICES ASSUME reassocs > 0
                 PROVE  off <= Ceiling + Grace + 1 \/ ownAge <= Grace + 2
    BY DEF CeilingHolds
  <2>4. off - Ceiling <= Allowance \/ ownAge - 1 <= Allowance
    BY <2>1, <2>3 DEF Bounded
  <2>5. QED
    BY <2>1, <2>2, <2>4, PeriodFacts DEF None
<1>2. QED
  BY <1>1, Inductive, PTL

(* A reset needs a radio that had settled since the cloud was last up: an  *)
(* access point that is simply off never resets the board.                 *)
THEOREM DeadApSpared == Spec => DeadApNoReset
<1>1. ASSUME IInv, LadderReset PROVE settled \/ wifiSettled
  BY <1>1 DEF IInv, Earned, LadderReset, resting, ceiling
<1>2. IInv => [LadderReset => settled \/ wifiSettled]_vars
  BY <1>1
<1>3. QED
  BY <1>2, Inductive, PTL DEF DeadApNoReset

(* The guard drops a connection only after that long without SYNC, counted *)
(* anew wherever SYNC came and went.                                       *)
THEOREM KickEarned == Spec => KickNotEarly
<1>1. ASSUME IInv, [Next]_vars, pc = "ladder", cloud, pc' # pc, ~cloud'
      PROVE  unsynced = NoSync
  <2>1. ~Outside /\ ~Gate /\ ~Update /\ ~Down /\ ~LadderReset /\ ~wifiRescue
        /\ ~UNCHANGED vars
    BY <1>1, OutsideFacts, GateFacts, UpdateFacts, DownFacts
       DEF LadderReset, wifiRescue, vars
  <2>2. LadderUp
    BY <1>1, <2>1, Steps
  <2>3. ~sync /\ UpSince = NoSync
    BY <1>1, <2>2 DEF LadderUp
  <2>4. upFor \in None..NoSync /\ unsynced \in 0..NoSync
    BY <1>1 DEF IInv, Typed, AgeTypes
  <2>5. UpSince = upFor /\ upFor # None /\ ~syncWas
    BY <2>3, PeriodFacts DEF UpSince
  <2>6. unsynced >= upFor
    BY <1>1, <2>3, <2>5 DEF IInv, Unsynced
  <2>7. QED
    BY <2>3, <2>4, <2>5, <2>6, PeriodFacts DEF None
<1>2. IInv /\ [Next]_vars =>
        [pc = "ladder" /\ cloud /\ pc' # pc /\ ~cloud' => unsynced = NoSync]_vars
  BY <1>1
<1>3. QED
  BY <1>2, Inductive, PTL DEF KickNotEarly, Spec
=============================================================================
