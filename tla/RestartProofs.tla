---------------------------- MODULE RestartProofs ----------------------------
(***************************************************************************)
(* Proofs about Restart, for every budget of the feeder in ticks, every    *)
(* size of ring and chunk and every number of faults: the marker names     *)
(* truly, the credentials are a pair, a clean ladder reset hands its       *)
(* records over, and the ring through all resets implements ReplayLog.     *)
(***************************************************************************)
EXTENDS Restart, ReplayRingProofs

-----------------------------------------------------------------------------
(* The type invariant in the groups that steps change or leave together.   *)
ThreadTypes ==
  /\ th \in [Threads -> {"ok", "slow", "stuck"}] /\ since \in [Threads -> 0..Long + 1]
  /\ logHeld \in BOOLEAN /\ kvHeld \in BOOLEAN /\ armed \in BOOLEAN /\ hw \in 0..HwTicks
PcTypes ==
  /\ feed \in {"watch", "mark", "log"}
  /\ mainPc \in {"loop", "ssid", "pass", "unssid", "unpass", "web", "clear", "reset"}
  /\ cloudPc \in {"loop", "marked", "save", "meta", "reset"} /\ saving \in Chunks
  /\ staged \in Nets \cup {None}
StoreTypes ==
  marker \in Tags \cup {None} /\ ssid \in Nets \cup {None} /\ pass \in Nets \cup {None}
ReasonTypes == why \in Tags \cup {None} /\ cause \in Causes \cup {None}
GhostTypes ==
  /\ decided \subseteq Tags /\ before \in [decided : SUBSET Tags, refused : BOOLEAN]
  /\ refused \in BOOLEAN /\ unread \in BOOLEAN
  /\ whole \in BOOLEAN /\ kept \in {Default, Half} \cup {<<n, n>> : n \in Nets}

(* The groups together are the type invariant, now and after a step.       *)
LEMMA TypeGroups ==
  /\ TypeOK <=> /\ RingTypeOK /\ life \in Stages /\ ThreadTypes /\ PcTypes /\ StoreTypes
                /\ ReasonTypes /\ left \in [Events -> Nat] /\ GhostTypes
  /\ TypeOK' <=> /\ RingTypeOK' /\ life' \in Stages /\ ThreadTypes' /\ PcTypes' /\ StoreTypes'
                 /\ ReasonTypes' /\ left' \in [Events -> Nat] /\ GhostTypes'
<1>1. TypeOK <=> /\ RingTypeOK /\ life \in Stages /\ ThreadTypes /\ PcTypes /\ StoreTypes
                 /\ ReasonTypes /\ left \in [Events -> Nat] /\ GhostTypes
  BY Zenon DEF TypeOK, ThreadTypes, PcTypes, StoreTypes, ReasonTypes, GhostTypes
<1>2. TypeOK' <=> /\ RingTypeOK' /\ life' \in Stages /\ ThreadTypes' /\ PcTypes' /\ StoreTypes'
                  /\ ReasonTypes' /\ left' \in [Events -> Nat] /\ GhostTypes'
  BY Zenon DEF TypeOK, ThreadTypes, PcTypes, StoreTypes, ReasonTypes, GhostTypes
<1>3. QED
  BY <1>1, <1>2

(* A group that a step leaves alone keeps its types.                       *)
LEMMA TypesKept ==
  ASSUME TypeOK
  PROVE  /\ UNCHANGED ringVars => RingTypeOK'
         /\ UNCHANGED life => life' \in Stages
         /\ UNCHANGED threads => ThreadTypes'
         /\ UNCHANGED pcs => PcTypes'
         /\ UNCHANGED store => StoreTypes'
         /\ UNCHANGED reason => ReasonTypes'
         /\ UNCHANGED left => left' \in [Events -> Nat]
         /\ UNCHANGED <<decided, before, refused, unread, kept, whole>> => GhostTypes'
<1>1. UNCHANGED ringVars => RingTypeOK'
  BY TypeGroups, CopyKeepsTypes
<1>2. UNCHANGED life => life' \in Stages
  BY TypeGroups
<1>3. UNCHANGED threads => ThreadTypes'
  BY TypeGroups DEF ThreadTypes, threads
<1>4. UNCHANGED pcs => PcTypes'
  BY TypeGroups DEF PcTypes, pcs, Chunks
<1>5. UNCHANGED store => StoreTypes'
  BY TypeGroups DEF StoreTypes, store
<1>6. UNCHANGED reason => ReasonTypes'
  BY TypeGroups DEF ReasonTypes, reason
<1>7. UNCHANGED left => left' \in [Events -> Nat]
  BY TypeGroups
<1>8. UNCHANGED <<decided, before, refused, unread, kept, whole>> => GhostTypes'
  BY TypeGroups DEF GhostTypes
<1>9. QED
  BY <1>1, <1>2, <1>3, <1>4, <1>5, <1>6, <1>7, <1>8

(* The constants of the feeder.                                            *)
LEMMA Ticks ==
  /\ Short \in Nat \ {0} /\ Long \in Nat \ {0} /\ HwTicks \in Nat \ {0}
  /\ Short < Long /\ Long <= 1000
  /\ \A t \in Threads : Allowed(t) \in Nat \ {0} /\ Allowed(t) <= Long
<1>1. Short \in Nat \ {0} /\ Long \in Nat \ {0} /\ HwTicks \in Nat \ {0} /\ Short < Long
  BY WatchAssumption
<1>2. QED
  BY <1>1, ResolutionAssumption DEF Allowed

(* Spending from the budget keeps it a budget.                             *)
LEMMA SpendKeeps ==
  ASSUME TypeOK, NEW e \in Events, Spend(e)
  PROVE  left' \in [Events -> Nat]
  BY TypeGroups DEF Spend

(* The first chunk is one.                                                 *)
LEMMA FirstChunk == 0 \in Chunks
<1>1. 0 * RP_CHUNK_RECS < RP_MAX
  BY Sizes
<1>2. QED
  BY <1>1, ChunkNumbers

(* A marker is written, or refused, for what was decided.                  *)
LEMMA MarkKeeps ==
  ASSUME TypeOK, NEW tag \in Tags, NEW truth \in SUBSET Tags,
         bootMarkIntentional(tag, truth), UNCHANGED <<ssid, pass, before, unread, kept, whole>>
  PROVE  /\ StoreTypes' /\ GhostTypes' /\ left' \in [Events -> Nat]
         /\ decided' = decided \cup truth
         /\ \/ marker' = tag /\ refused' = refused
            \/ marker' = marker /\ refused' = TRUE
<1>1. decided' = decided \cup truth
  BY DEF bootMarkIntentional
<1>2. \/ marker' = tag /\ refused' = refused
      \/ marker' = marker /\ refused' = TRUE
  BY DEF bootMarkIntentional
<1>3. left' \in [Events -> Nat]
  BY SpendKeeps, TypeGroups DEF bootMarkIntentional, Events
<1>4. StoreTypes'
  BY <1>2, TypeGroups DEF StoreTypes
<1>5. GhostTypes'
  BY <1>1, <1>2, TypeGroups DEF GhostTypes
<1>6. QED
  BY <1>1, <1>2, <1>3, <1>4, <1>5

(* A reset keeps the store and the saved copy, and forgets all else.       *)
LEMMA RestartedKeeps ==
  ASSUME TypeOK, NEW c \in Causes, Restarted(c)
  PROVE  /\ RingTypeOK' /\ life' \in Stages /\ ThreadTypes' /\ PcTypes' /\ StoreTypes'
         /\ ReasonTypes' /\ GhostTypes'
<1>1. RingTypeOK'
  BY TypeGroups, CopyKeepsTypes DEF Restarted
<1>2. ThreadTypes'
  <2>1. 0 \in 0..Long + 1 /\ 0 \in 0..HwTicks
    BY Ticks
  <2>2. /\ th' = [t \in Threads |-> "ok"] /\ since' = [t \in Threads |-> 0]
        /\ logHeld' = FALSE /\ kvHeld' = FALSE /\ armed' = FALSE /\ hw' = 0
    BY DEF Restarted
  <2>3. since' \in [Threads -> 0..Long + 1]
    BY <2>1, <2>2
  <2>4. QED
    BY <2>1, <2>2, <2>3 DEF ThreadTypes
<1>3. PcTypes' /\ life' \in Stages
  BY FirstChunk DEF Restarted, PcTypes, Stages, Chunks
<1>4. StoreTypes' /\ ReasonTypes'
  BY TypeGroups DEF Restarted, StoreTypes, ReasonTypes, store
<1>5. GhostTypes'
  <2>1. before' \in [decided : SUBSET Tags, refused : BOOLEAN]
    BY TypeGroups DEF Restarted, GhostTypes
  <2>2. QED
    BY <2>1, TypeGroups DEF Restarted, GhostTypes
<1>6. QED
  BY <1>1, <1>2, <1>3, <1>4, <1>5

(* All the ways a life ends.                                               *)
Ends(c) ==
  /\ Restarted(c)
  /\ \/ PowerCut /\ c = "power"
     \/ MainResets /\ c = "software"
     \/ LadderResets /\ c = "software"
     \/ FeederResets /\ c = "software"
     \/ HardwareResets /\ c = "watchdog"

(* Every one of them is a reset for one of the three causes.               *)
LEMMA LifeEnds ==
  ASSUME TypeOK, PowerCut \/ MainResets \/ LadderResets \/ FeederResets \/ HardwareResets
  PROVE  left' \in [Events -> Nat] /\ \E c \in Causes : Ends(c)
<1>1. left' \in [Events -> Nat]
  <2>1. PowerCut => left' \in [Events -> Nat]
    BY SpendKeeps DEF PowerCut, Events
  <2>2. QED
    BY <2>1, TypeGroups DEF MainResets, LadderResets, FeederResets, HardwareResets
<1>2. {"power", "software", "watchdog"} \subseteq Causes
  BY DEF Causes
<1>3. /\ PowerCut => Ends("power")
      /\ MainResets \/ LadderResets \/ FeederResets => Ends("software")
      /\ HardwareResets => Ends("watchdog")
  BY DEF Ends, PowerCut, MainResets, LadderResets, FeederResets, HardwareResets
<1>4. QED
  BY <1>1, <1>2, <1>3

-----------------------------------------------------------------------------
(* The steps of the boot keep the types.                                   *)
LEMMA BootTypes ==
  ASSUME TypeOK, Boot
  PROVE  TypeOK'
<1>1. /\ RingTypeOK /\ why \in Tags \cup {None} /\ marker \in Tags \cup {None}
      /\ ReasonTypes /\ StoreTypes /\ GhostTypes
  BY TypeGroups DEF StoreTypes, ReasonTypes
<1>2. ASSUME NEW from, NEW to \in Stages, BootStage(from, to)
      PROVE  /\ life' \in Stages /\ ThreadTypes' /\ PcTypes'
             /\ UNCHANGED <<ssid, pass, decided, refused, kept, whole>>
  BY <1>2, TypesKept DEF BootStage
<1>3. {"load", "removeChunks", "override", "run"} \subseteq Stages
  BY DEF Stages
<1>4. CASE bootReasonCapture
  <2>1. BootStage("capture", "load") /\ UNCHANGED <<ringVars, cause, before>>
    BY <1>4 DEF bootReasonCapture
  <2>2. \/ why' = marker /\ marker' = None /\ UNCHANGED <<left, unread>>
        \/ Spend("faults") /\ unread' = TRUE /\ UNCHANGED <<why, marker>>
    BY <1>4 DEF bootReasonCapture
  <2>3. left' \in [Events -> Nat]
    BY <2>2, SpendKeeps, TypeGroups DEF Events
  <2>4. StoreTypes' /\ ReasonTypes' /\ GhostTypes'
    BY <1>1, <1>2, <1>3, <2>1, <2>2 DEF StoreTypes, ReasonTypes, GhostTypes
  <2>5. QED
    BY <1>2, <1>3, <2>1, <2>3, <2>4, TypeGroups, TypesKept
<1>5. CASE BootLoad
  <2>1. PICK to \in {"removeChunks", "override"} : BootStage("load", to)
    BY <1>5 DEF BootLoad
  <2>2. UNCHANGED <<marker, reason, before, unread>>
    BY <1>5 DEF BootLoad
  <2>3. RingTypeOK'
    BY <1>1, <1>5, LoadFills, CopyKeepsTypes DEF BootLoad
  <2>4. left' \in [Events -> Nat]
    BY <1>5, SpendKeeps, TypeGroups DEF BootLoad, Events
  <2>5. StoreTypes' /\ ReasonTypes' /\ GhostTypes'
    BY <1>1, <1>2, <1>3, <2>1, <2>2 DEF StoreTypes, ReasonTypes, GhostTypes, reason
  <2>6. QED
    BY <1>2, <1>3, <2>1, <2>3, <2>4, <2>5, TypeGroups
<1>6. CASE BootRemoveChunk \/ BootRemoveMeta
  <2>1. PICK to \in {"removeChunks", "override"} : BootStage("removeChunks", to)
    BY <1>6 DEF BootRemoveChunk, BootRemoveMeta
  <2>2. UNCHANGED <<marker, reason, before, unread, left>>
    BY <1>6 DEF BootRemoveChunk, BootRemoveMeta
  <2>3. RingTypeOK'
    BY <1>1, <1>6, CopyKeepsTypes DEF BootRemoveChunk, BootRemoveMeta
  <2>4. StoreTypes' /\ ReasonTypes' /\ GhostTypes'
    BY <1>1, <1>2, <1>3, <2>1, <2>2 DEF StoreTypes, ReasonTypes, GhostTypes, reason
  <2>5. QED
    BY <1>2, <1>3, <2>1, <2>2, <2>3, <2>4, TypeGroups
<1>7. CASE BootOverride
  <2>1. /\ BootStage("override", "run") /\ UNCHANGED <<ringVars, marker>>
        /\ why' = None /\ cause' = None /\ before' = Told
    BY <1>7 DEF BootOverride
  <2>2. left' \in [Events -> Nat]
    BY <1>7, SpendKeeps, TypeGroups DEF BootOverride, Events
  <2>3. unread' \in BOOLEAN
    <3>1. (unread /\ marker # None) \in BOOLEAN
      BY Zenon
    <3>2. QED
      BY <1>7, <3>1 DEF BootOverride
  <2>4. Told \in [decided : SUBSET Tags, refused : BOOLEAN]
    BY DEF Told
  <2>5. StoreTypes' /\ ReasonTypes' /\ GhostTypes'
    BY <1>1, <1>2, <1>3, <2>1, <2>3, <2>4 DEF StoreTypes, ReasonTypes, GhostTypes
  <2>6. QED
    BY <1>2, <1>3, <2>1, <2>2, <2>5, TypeGroups, TypesKept
<1>8. QED
  BY <1>4, <1>5, <1>6, <1>7 DEF Boot

(* A pair that is saved, whole or half, is one that was kept.              *)
LEMMA KeptTypes ==
  ASSUME TypeOK
  PROVE  /\ Default \in {Default, Half} \cup {<<n, n>> : n \in Nets}
         /\ Half \in {Default, Half} \cup {<<n, n>> : n \in Nets}
         /\ Lone \in {Default, Half}
         /\ staged = None => <<staged, staged>> = Default
         /\ Saved \in {Default, Half} \cup {<<n, n>> : n \in Nets}
<1>1. Lone \in {Default, Half}
  BY DEF Lone
<1>2. staged = None => <<staged, staged>> = Default
  BY DEF Default
<1>3. staged \in Nets \cup {None}
  BY TypeGroups DEF PcTypes
<1>4. QED
  BY <1>1, <1>2, <1>3 DEF Saved

(* A write of the override, stored or refused, keeps the types.            *)
LEMMA PutKeeps ==
  ASSUME TypeOK, NEW from, NEW to \in {"pass", "web", "unpass", "clear"},
         NEW s \in Nets \cup {None}, NEW p \in Nets \cup {None},
         NEW k \in {Default, Half} \cup {<<n, n>> : n \in Nets},
         MainPuts(from, to, s, p, k)
  PROVE  TypeOK'
<1>1. /\ UNCHANGED <<ringVars, life, threads, reason, before, unread, feed, cloudPc, saving, staged,
                     marker, decided, refused>>
      /\ mainPc' = to
  BY DEF MainPuts, Rest
<1>2. \/ ssid' = s /\ pass' = p /\ kept' = k /\ UNCHANGED <<whole, left>>
      \/ Spend("faults") /\ whole' = FALSE /\ UNCHANGED <<ssid, pass, kept>>
  BY DEF MainPuts
<1>3. RingTypeOK' /\ life' \in Stages /\ ThreadTypes' /\ ReasonTypes'
  BY <1>1, TypesKept
<1>4. left' \in [Events -> Nat]
  BY <1>2, SpendKeeps, TypeGroups DEF Events
<1>5. StoreTypes'
  BY <1>1, <1>2, TypeGroups DEF StoreTypes
<1>6. GhostTypes'
  BY <1>1, <1>2, TypeGroups DEF GhostTypes
<1>7. PcTypes'
  BY <1>1, TypeGroups DEF PcTypes, Chunks
<1>8. QED
  BY <1>3, <1>4, <1>5, <1>6, <1>7, TypeGroups

(* The web page and the console keep the types.                            *)
LEMMA MainTypes ==
  ASSUME TypeOK, Main, ~MainResets
  PROVE  TypeOK'
<1>1. StoreTypes /\ PcTypes /\ GhostTypes
  BY TypeGroups
<1>2. UNCHANGED <<ringVars, life, threads, reason, before, unread, feed, cloudPc, saving>>
  BY DEF Main, MainStarts, MainUnopened, WritesSsid, WritesPass, RemovesSsid, RemovesPass,
         MainPuts, MainMarks, Rest
<1>3. RingTypeOK' /\ life' \in Stages /\ ThreadTypes' /\ ReasonTypes'
  BY <1>2, TypesKept
<1>4. CASE MainStarts \/ MainUnopened
  <2>1. /\ mainPc' \in {"loop", "ssid", "unssid", "web", "clear"}
        /\ staged' \in Nets \cup {None}
        /\ UNCHANGED <<store, decided, refused, kept>>
        /\ whole' \in BOOLEAN
    BY <1>1, <1>4 DEF MainStarts, MainUnopened, PcTypes, GhostTypes
  <2>2. left' \in [Events -> Nat]
    <3>1. CASE MainStarts
      BY <3>1, SpendKeeps DEF MainStarts, Events
    <3>2. CASE MainUnopened
      <4>1. left \in [Events -> Nat] /\ left["saves"] > 0 /\ left["faults"] > 0
            /\ left' = [left EXCEPT !["saves"] = @ - 1, !["faults"] = @ - 1]
        BY <3>2, TypeGroups DEF MainUnopened
      <4>2. left["saves"] - 1 \in Nat /\ left["faults"] - 1 \in Nat
        BY <4>1 DEF Events
      <4>3. QED
        BY <4>1, <4>2
    <3>3. QED
      BY <1>4, <3>1, <3>2
  <2>3. PcTypes' /\ GhostTypes'
    BY <1>1, <1>2, <2>1 DEF PcTypes, GhostTypes, Chunks
  <2>4. QED
    BY <1>3, <2>1, <2>2, <2>3, TypeGroups, TypesKept
<1>5. CASE WritesSsid \/ WritesPass \/ RemovesSsid \/ RemovesPass
  <2>1. ssid \in Nets \cup {None} /\ pass \in Nets \cup {None} /\ staged \in Nets \cup {None}
    BY <1>1 DEF StoreTypes, PcTypes
  <2>2. CASE WritesSsid
    BY <2>1, <2>2, KeptTypes, PutKeeps DEF WritesSsid
  <2>3. CASE WritesPass
    BY <2>1, <2>3, KeptTypes, PutKeeps DEF WritesPass
  <2>4. CASE RemovesSsid
    BY <2>1, <2>4, KeptTypes, PutKeeps DEF RemovesSsid
  <2>5. CASE RemovesPass
    BY <2>1, <2>5, KeptTypes, PutKeeps DEF RemovesPass
  <2>6. QED
    BY <1>5, <2>2, <2>3, <2>4, <2>5
<1>6. CASE MainMarks
  <2>1. /\ mainPc \in Tags /\ {mainPc} \in SUBSET Tags /\ mainPc' = "reset"
        /\ bootMarkIntentional(mainPc, {mainPc}) /\ UNCHANGED <<ssid, pass, staged, kept, whole>>
    BY <1>6 DEF MainMarks, Tags
  <2>2. StoreTypes' /\ GhostTypes' /\ left' \in [Events -> Nat]
    BY <1>2, <2>1, MarkKeeps
  <2>3. PcTypes'
    BY <1>1, <1>2, <2>1 DEF PcTypes, Chunks
  <2>4. QED
    BY <1>3, <2>2, <2>3, TypeGroups
<1>7. QED
  BY <1>4, <1>5, <1>6 DEF Main

-----------------------------------------------------------------------------
(* The chunks that the running save has written.                           *)
Written(c) == \/ cloudPc = "save" /\ c < saving
              \/ cloudPc = "meta" /\ c * RP_CHUNK_RECS < count

(* A save has something to save, and has written its part of the ring.     *)
SaveOK ==
  /\ cloudPc \in {"save", "meta"} => count > 0
  /\ cloudPc = "save" => saving * RP_CHUNK_RECS < count
  /\ cloudPc # "save" => saving = 0
  /\ \A c \in Chunks : Written(c) => chunk[c] = ChunkOf(c)

(* The next chunk of a save is one while there is one.                     *)
LEMMA NextChunk ==
  ASSUME TypeOK, SaveOK, cloudPc = "save"
  PROVE  /\ saving \in Nat /\ saving \in Chunks /\ saving * RP_CHUNK_RECS < count /\ count > 0
         /\ saving < LastChunk => /\ saving + 1 \in Chunks
                                  /\ (saving + 1) * RP_CHUNK_RECS < count
<1>1. saving \in Chunks /\ saving \in Nat /\ RingTypeOK /\ count \in Nat /\ count <= RP_MAX
  BY TypeGroups, Sizes DEF PcTypes, Chunks, RingTypeOK
<1>2. count > 0 /\ saving * RP_CHUNK_RECS < count
  BY DEF SaveOK
<1>3. ASSUME saving < LastChunk
      PROVE  saving + 1 \in Chunks /\ (saving + 1) * RP_CHUNK_RECS < count
  <2>1. LastChunk \in Nat
    BY <1>1, <1>2, LastChunkIs
  <2>2. saving + 1 \in Nat /\ saving + 1 <= LastChunk
    BY <1>1, <1>3, <2>1
  <2>3. (saving + 1) * RP_CHUNK_RECS < count
    BY <1>1, <1>2, <2>2, LastChunkIs
  <2>4. (saving + 1) * RP_CHUNK_RECS \in Nat
    BY <2>2, Sizes, TimesMono
  <2>5. (saving + 1) * RP_CHUNK_RECS < RP_MAX
    BY <1>1, <2>3, <2>4, Sizes
  <2>6. QED
    BY <2>2, <2>3, <2>5, ChunkNumbers
<1>4. QED
  BY <1>1, <1>2, <1>3

(* The cloud thread keeps the types.                                       *)
LEMMA CloudTypes ==
  ASSUME TypeOK, SaveOK, Cloud, ~LadderResets
  PROVE  TypeOK'
<1>1. RingTypeOK /\ ThreadTypes /\ PcTypes /\ StoreTypes /\ GhostTypes
  BY TypeGroups
<1>2. CASE CloudPass
  <2>1. /\ UNCHANGED <<life, th, since, logHeld, kvHeld, hw, pcs, store, reason>>
        /\ UNCHANGED <<decided, before, refused, unread, kept, whole>> /\ armed' = TRUE
        /\ left' \in [Events -> Nat]
    BY <1>2, SpendKeeps, TypeGroups DEF CloudPass, ghosts, Events
  <2>2. RingTypeOK'
    <3>1. \A k \in 1..Smaller(RP_PER_POST, count) : k \in 1..count
      BY <1>1, Sizes DEF RingTypeOK, Smaller
    <3>2. Post => RingTypeOK'
      BY <1>1, <3>1, DropShifts, CopyKeepsTypes DEF Post
    <3>3. QED
      BY <1>1, <1>2, <3>2, CaptureShifts, CopyKeepsTypes DEF CloudPass
  <2>3. ThreadTypes'
    BY <1>1, <2>1 DEF ThreadTypes
  <2>4. QED
    BY <2>1, <2>2, <2>3, TypeGroups, TypesKept
<1>3. ASSUME NEW from, NEW targets, CloudStep(from, targets)
      PROVE  /\ UNCHANGED <<life, th, since, logHeld, armed, hw, reason, before, unread, kept,
                            whole, feed, mainPc, staged, ssid, pass>>
             /\ cloudPc' \in targets /\ cloudPc = from
  BY <1>3 DEF CloudStep
<1>4. ASSUME NEW from, NEW targets \in SUBSET {"marked", "save", "meta", "reset"},
             CloudStep(from, targets), kvHeld' \in BOOLEAN, saving' \in Chunks
      PROVE  /\ life' \in Stages /\ ThreadTypes' /\ PcTypes' /\ ReasonTypes'
             /\ UNCHANGED <<ssid, pass, before, unread, kept, whole>>
  <2>1. life' \in Stages /\ ReasonTypes'
    BY <1>3, <1>4, TypesKept
  <2>2. ThreadTypes'
    BY <1>1, <1>3, <1>4 DEF ThreadTypes
  <2>3. PcTypes'
    BY <1>1, <1>3, <1>4 DEF PcTypes, Chunks
  <2>4. QED
    BY <1>3, <1>4, <2>1, <2>2, <2>3
<1>5. kvHeld \in BOOLEAN /\ saving \in Chunks
  BY <1>1 DEF ThreadTypes, PcTypes
<1>6. CASE LadderMarks
  <2>1. /\ CloudStep("loop", {"marked"}) /\ bootMarkIntentional("ladder", {"ladder"})
        /\ UNCHANGED <<ringVars, kvHeld, saving>>
    BY <1>6 DEF LadderMarks
  <2>2. /\ life' \in Stages /\ ThreadTypes' /\ PcTypes' /\ ReasonTypes'
        /\ UNCHANGED <<ssid, pass, before, unread, kept, whole>>
    BY <1>4, <1>5, <2>1
  <2>3. StoreTypes' /\ GhostTypes' /\ left' \in [Events -> Nat]
    <3>1. "ladder" \in Tags /\ {"ladder"} \in SUBSET Tags
      BY DEF Tags
    <3>2. QED
      BY <2>1, <2>2, <3>1, MarkKeeps
  <2>4. QED
    BY <2>1, <2>2, <2>3, TypeGroups, TypesKept
<1>7. ASSUME UNCHANGED <<marker, ssid, pass, before, unread, kept, whole, decided, refused>>
      PROVE  StoreTypes' /\ GhostTypes'
  BY <1>7, TypesKept DEF store
<1>8. CASE LadderLocks
  <2>1. /\ CloudStep("marked", IF count = 0 THEN {"reset"} ELSE {"save"})
        /\ UNCHANGED <<ringVars, marker, saving, left, decided, refused>>
    BY <1>8 DEF LadderLocks
  <2>2. kvHeld' \in BOOLEAN
    <3>1. (count > 0) \in BOOLEAN
      BY <1>1, SMT DEF RingTypeOK
    <3>2. QED
      BY <1>8, <3>1 DEF LadderLocks
  <2>3. QED
    BY <1>4, <1>5, <1>7, <2>1, <2>2, TypeGroups, TypesKept
<1>9. CASE LadderSavesChunk
  <2>1. /\ cloudPc = "save" /\ SaveChunk(saving)
        /\ CloudStep("save", IF saving < LastChunk THEN {"save"} ELSE {"meta"})
        /\ saving' = (IF saving < LastChunk THEN saving + 1 ELSE 0)
        /\ UNCHANGED <<kvHeld, marker, left, decided, refused>>
    BY <1>9 DEF LadderSavesChunk, CloudStep
  <2>2. RingTypeOK' /\ saving' \in Chunks
    BY <1>1, <2>1, NextChunk, SaveKeepsTypes, FirstChunk
  <2>3. QED
    BY <1>4, <1>5, <1>7, <2>1, <2>2, TypeGroups, TypesKept
<1>10. CASE LadderSavesMeta
  <2>1. /\ CloudStep("meta", {"reset"}) /\ SaveMeta /\ kvHeld' = FALSE
        /\ UNCHANGED <<marker, saving, left, decided, refused>>
    BY <1>10 DEF LadderSavesMeta
  <2>2. RingTypeOK'
    BY <1>1, <2>1, CopyKeepsTypes
  <2>3. QED
    BY <1>4, <1>5, <1>7, <2>1, <2>2, TypeGroups, TypesKept
<1>11. CASE LadderSaveFails
  <2>1. /\ CloudStep(cloudPc, {"reset"}) /\ kvHeld' = FALSE /\ saving' = 0
        /\ Spend("faults") /\ UNCHANGED <<ringVars, marker, decided, refused>>
    BY <1>11 DEF LadderSaveFails
  <2>2. left' \in [Events -> Nat]
    BY <2>1, SpendKeeps DEF Events
  <2>3. QED
    BY <1>4, <1>7, <2>1, <2>2, FirstChunk, TypeGroups, TypesKept
<1>12. QED
  BY <1>2, <1>6, <1>8, <1>9, <1>10, <1>11 DEF Cloud

(* Time passes.                                                            *)
LEMMA TickTypes ==
  ASSUME TypeOK, Tick
  PROVE  TypeOK'
<1>1. ThreadTypes /\ PcTypes
  BY TypeGroups
<1>2. /\ UNCHANGED <<ringVars, life, th, logHeld, kvHeld, armed, mainPc, cloudPc, saving, staged>>
      /\ UNCHANGED <<store, reason, left, decided, before, refused, unread, kept, whole>>
      /\ since' = [t \in Threads |-> IF Beats(t) THEN 0
                                     ELSE Smaller(since[t] + 1, Allowed(t) + 1)]
      /\ feed' \in {feed, "mark"}
      /\ hw' \in {0, Smaller(hw + 1, HwTicks)}
  BY DEF Tick, ghosts
<1>3. since' \in [Threads -> 0..Long + 1]
  <2>1. \A t \in Threads : since[t] \in 0..Long + 1
    BY <1>1 DEF ThreadTypes
  <2>2. \A t \in Threads : Smaller(since[t] + 1, Allowed(t) + 1) \in 0..Long + 1
    BY <2>1, Ticks DEF Smaller
  <2>3. 0 \in 0..Long + 1
    BY Ticks
  <2>4. QED
    BY <1>2, <2>2, <2>3
<1>4. hw' \in 0..HwTicks
  <2>1. hw \in Nat
    BY <1>1 DEF ThreadTypes
  <2>2. QED
    BY <1>2, <2>1, Ticks DEF Smaller
<1>5. ThreadTypes'
  BY <1>1, <1>2, <1>3, <1>4 DEF ThreadTypes
<1>6. PcTypes'
  BY <1>1, <1>2 DEF PcTypes, Chunks
<1>7. QED
  BY <1>2, <1>5, <1>6, TypeGroups, TypesKept

(* The thread that takes the blame is a thread.                            *)
LEMMA BlameTag == Blame \in Threads /\ Threads \subseteq Tags
  BY DEF Blame, Threads, Tags

(* The feeder gives up; a thread wedges, is slow, or returns.              *)
LEMMA TroubleTypes ==
  ASSUME TypeOK, FeederMarks \/ Trouble
  PROVE  TypeOK'
<1>1. ThreadTypes /\ PcTypes
  BY TypeGroups
<1>2. CASE FeederMarks
  <2>1. /\ bootMarkIntentional(Blame, OverBudget) /\ feed' = "log"
        /\ UNCHANGED <<ringVars, life, threads, reason, before, unread, kept, whole>>
        /\ UNCHANGED <<mainPc, cloudPc, saving, staged, ssid, pass>>
    BY <1>2 DEF FeederMarks, Rest
  <2>2. Blame \in Tags /\ OverBudget \in SUBSET Tags
    BY BlameTag DEF OverBudget
  <2>3. StoreTypes' /\ GhostTypes' /\ left' \in [Events -> Nat]
    BY <2>1, <2>2, MarkKeeps
  <2>4. PcTypes'
    BY <1>1, <2>1 DEF PcTypes, Chunks
  <2>5. QED
    BY <2>1, <2>3, <2>4, TypeGroups, TypesKept
<1>3. CASE Trouble
  <2>1. PICK t \in Threads, how \in {"ok", "slow", "stuck"} :
          /\ th' = [th EXCEPT ![t] = how] /\ logHeld' \in {logHeld, TRUE}
          /\ UNCHANGED left \/ Spend("faults")
          /\ UNCHANGED <<ringVars, life, since, kvHeld, armed, hw, pcs, store, reason>>
          /\ UNCHANGED <<decided, before, refused, unread, kept, whole>>
    <3>1. MayWedge \subseteq Threads /\ "cloud" \in Threads
      BY WedgeAssumption DEF Threads
    <3>2. ASSUME NEW t \in MayWedge, Wedge(t)
          PROVE  /\ th' = [th EXCEPT ![t] = "stuck"] /\ logHeld' \in {logHeld, TRUE}
                 /\ Spend("faults")
                 /\ UNCHANGED <<ringVars, life, since, kvHeld, armed, hw, pcs, store, reason>>
                 /\ UNCHANGED <<decided, before, refused, unread, kept, whole>>
      BY <3>2 DEF Wedge, Goes, ghosts
    <3>3. ASSUME Slow
          PROVE  /\ th' = [th EXCEPT !["cloud"] = "slow"] /\ UNCHANGED logHeld
                 /\ Spend("faults")
                 /\ UNCHANGED <<ringVars, life, since, kvHeld, armed, hw, pcs, store, reason>>
                 /\ UNCHANGED <<decided, before, refused, unread, kept, whole>>
      BY <3>3 DEF Slow, Goes, ghosts
    <3>4. ASSUME Returns
          PROVE  /\ th' = [th EXCEPT !["cloud"] = "ok"] /\ UNCHANGED <<logHeld, left>>
                 /\ UNCHANGED <<ringVars, life, since, kvHeld, armed, hw, pcs, store, reason>>
                 /\ UNCHANGED <<decided, before, refused, unread, kept, whole>>
      BY <3>4 DEF Returns, ghosts
    <3>5. QED
      BY <1>3, <3>1, <3>2, <3>3, <3>4 DEF Trouble
  <2>2. left' \in [Events -> Nat]
    BY <2>1, SpendKeeps, TypeGroups DEF Events
  <2>3. ThreadTypes'
    <3>1. th' \in [Threads -> {"ok", "slow", "stuck"}]
      BY <1>1, <2>1 DEF ThreadTypes
    <3>2. logHeld' \in BOOLEAN
      BY <1>1, <2>1 DEF ThreadTypes
    <3>3. QED
      BY <1>1, <2>1, <3>1, <3>2 DEF ThreadTypes
  <2>4. QED
    BY <2>1, <2>2, <2>3, TypeGroups, TypesKept
<1>4. QED
  BY <1>2, <1>3

(* Every step keeps the types; a save needs what SaveOK says of it.        *)
LEMMA TypesStep ==
  ASSUME TypeOK, SaveOK, [Next]_vars
  PROVE  TypeOK'
<1>1. CASE PowerCut \/ MainResets \/ LadderResets \/ FeederResets \/ HardwareResets
  <2>1. left' \in [Events -> Nat] /\ \E c \in Causes : Ends(c)
    BY <1>1, LifeEnds
  <2>2. QED
    BY <2>1, RestartedKeeps, TypeGroups DEF Ends
<1>2. CASE UNCHANGED vars
  BY <1>2, TypeGroups, TypesKept DEF vars, ghosts
<1>3. QED
  BY <1>1, <1>2, BootTypes, MainTypes, CloudTypes, TickTypes, TroubleTypes
     DEF Next, Main, Cloud, Feeder

-----------------------------------------------------------------------------
(* Before setup ends nothing runs, and nothing has been decided.           *)
StageOK ==
  life # "run" => /\ mainPc = "loop" /\ cloudPc = "loop" /\ feed = "watch" /\ hw = 0
                  /\ decided = {} /\ refused = FALSE

\* A step of a running gateway that does not end its life.
Works == \/ Main /\ ~MainResets
         \/ Cloud /\ ~LadderResets
         \/ FeederMarks \/ Tick \/ Trouble

\* Every step ends a life, boots, works or changes nothing.
Shape == \/ \E c \in Causes : Ends(c)
         \/ Boot \/ Works \/ UNCHANGED vars

(* There is no other kind of step.                                         *)
LEMMA StepShape ==
  ASSUME TypeOK, [Next]_vars
  PROVE  Shape
<1>1. CASE PowerCut \/ MainResets \/ LadderResets \/ FeederResets \/ HardwareResets
  BY <1>1, LifeEnds DEF Shape
<1>2. CASE ~(PowerCut \/ MainResets \/ LadderResets \/ FeederResets \/ HardwareResets)
  BY <1>2 DEF Shape, Works, Next, Feeder
<1>3. QED
  BY <1>1, <1>2

(* What no working step changes.                                           *)
LEMMA WorkingStep ==
  ASSUME Works
  PROVE  life = "run" /\ UNCHANGED <<life, inUse, reason, before, unread>>
<1>1. CASE Main /\ ~MainResets
  BY <1>1 DEF Main, MainStarts, MainUnopened, WritesSsid, WritesPass, RemovesSsid, RemovesPass,
       MainPuts,
              MainMarks, Rest, Runs, Running
<1>2. CASE Cloud /\ ~LadderResets
  <2>1. CASE CloudPass
    BY <2>1 DEF CloudPass, Runs, Running, ghosts
  <2>2. CASE ~CloudPass
    BY <1>2, <2>2 DEF Cloud, LadderMarks, LadderLocks, LadderSavesChunk, LadderSavesMeta,
                      LadderSaveFails, CloudStep, Runs, Running, reason
  <2>3. QED
    BY <2>1, <2>2
<1>3. CASE FeederMarks
  BY <1>3 DEF FeederMarks, Rest, Running
<1>4. CASE Tick
  BY <1>4 DEF Tick, Running, ghosts
<1>5. CASE Trouble
  BY <1>5 DEF Trouble, Wedge, Slow, Returns, Goes, Runs, Running, ghosts
<1>6. QED
  BY <1>1, <1>2, <1>3, <1>4, <1>5 DEF Works

(* The boot ends where setup does, and decides nothing.                    *)
LEMMA BootingStep ==
  ASSUME Boot
  PROVE  /\ life # "run"
         /\ UNCHANGED <<threads, pcs, ssid, pass, decided, refused, kept, whole>>
  BY DEF Boot, bootReasonCapture, BootLoad, BootRemoveChunk, BootRemoveMeta, BootOverride,
         BootStage

(* Nothing runs before setup ends.                                         *)
LEMMA StageStep ==
  ASSUME StageOK, Shape
  PROVE  StageOK'
<1>1. ASSUME NEW c \in Causes, Ends(c) PROVE StageOK'
  BY <1>1 DEF Ends, Restarted, StageOK
<1>2. CASE Boot
  BY <1>2, BootingStep DEF StageOK, threads, pcs
<1>3. CASE Works
  BY <1>3, WorkingStep DEF StageOK
<1>4. CASE UNCHANGED vars
  BY <1>4 DEF vars, threads, pcs, ghosts, StageOK
<1>5. QED
  BY <1>1, <1>2, <1>3, <1>4 DEF Shape

-----------------------------------------------------------------------------
(* The pair that the next boot finds is the one that was kept whole, and   *)
(* between the two writes of a save the first is there to be completed.    *)
StoredPair == IF ssid = None THEN Default ELSE <<ssid, pass>>
CredentialsOK ==
  /\ kept # Half => StoredPair = kept
  /\ mainPc = "pass" /\ whole => ssid = staged

(* A working step that is not one of main's leaves the override alone.     *)
LEMMA OthersLeave ==
  ASSUME Works, ~(Main /\ ~MainResets)
  PROVE  UNCHANGED <<mainPc, staged, ssid, pass, kept, whole>>
<1>1. CASE Cloud /\ ~LadderResets
  <2>1. CASE CloudPass
    BY <2>1 DEF CloudPass, pcs, store, ghosts
  <2>2. CASE ~CloudPass
    BY <1>1, <2>2 DEF Cloud, LadderMarks, LadderLocks, LadderSavesChunk, LadderSavesMeta,
                      LadderSaveFails, CloudStep
  <2>3. QED
    BY <2>1, <2>2
<1>2. CASE FeederMarks
  BY <1>2 DEF FeederMarks
<1>3. CASE Tick
  BY <1>3 DEF Tick, store, ghosts
<1>4. CASE Trouble
  BY <1>4 DEF Trouble, Wedge, Slow, Returns, Goes, pcs, store, ghosts
<1>5. QED
  BY <1>1, <1>2, <1>3, <1>4 DEF Works

(* The kept pair, over every step.                                         *)
LEMMA CredentialsStep ==
  ASSUME CredentialsOK, StageOK, Shape
  PROVE  CredentialsOK'
<1> USE DEF CredentialsOK, StoredPair
<1>1. ASSUME NEW c \in Causes, Ends(c) PROVE CredentialsOK'
  BY <1>1 DEF Ends, Restarted, store
<1>2. CASE Boot
  BY <1>2, BootingStep DEF pcs
<1>3. CASE Works
  <2>1. CASE WritesSsid
    <3>1. /\ mainPc' = "pass" /\ UNCHANGED staged
          /\ \/ ssid' = staged /\ kept' = Half /\ UNCHANGED whole
             \/ whole' = FALSE /\ UNCHANGED <<ssid, pass, kept>>
      BY <2>1 DEF WritesSsid, MainPuts
    <3>2. QED
      BY <3>1
  <2>2. CASE WritesPass
    <3>1. /\ mainPc = "pass" /\ mainPc' = "web"
          /\ \/ pass' = staged /\ kept' = Saved /\ UNCHANGED ssid
             \/ UNCHANGED <<ssid, pass, kept>>
      BY <2>2 DEF WritesPass, MainPuts
    <3>2. CASE pass' = staged /\ kept' = Saved /\ UNCHANGED ssid
      <4>1. CASE whole
        BY <3>1, <3>2, <4>1 DEF Saved, Default
      <4>2. CASE ~whole
        BY <3>1, <3>2, <4>2 DEF Saved, Lone, Default, Half
      <4>3. QED
        BY <4>1, <4>2
    <3>3. QED
      BY <3>1, <3>2
  <2>3. CASE RemovesSsid
    <3>1. /\ mainPc' = "unpass"
          /\ \/ ssid' = None /\ kept' = Default
             \/ whole' = FALSE /\ UNCHANGED <<ssid, pass, kept>>
      BY <2>3 DEF RemovesSsid, MainPuts
    <3>2. QED
      BY <3>1
  <2>4. CASE RemovesPass
    <3>1. /\ mainPc' = "clear"
          /\ \/ UNCHANGED ssid /\ kept' = Lone
             \/ UNCHANGED <<ssid, pass, kept>>
      BY <2>4 DEF RemovesPass, MainPuts
    <3>2. QED
      BY <3>1 DEF Lone, Default, Half
  <2>5. CASE MainStarts \/ MainUnopened \/ MainMarks
    BY <2>5 DEF MainStarts, MainUnopened, MainMarks, store
  <2>6. CASE ~(Main /\ ~MainResets)
    BY <1>3, <2>6, OthersLeave
  <2>7. QED
    BY <1>3, <2>1, <2>2, <2>3, <2>4, <2>5, <2>6 DEF Works, Main
<1>4. CASE UNCHANGED vars
  BY <1>4 DEF vars, pcs, store, ghosts
<1>5. QED
  BY <1>1, <1>2, <1>3, <1>4 DEF Shape

-----------------------------------------------------------------------------
(* The feeder gives up only over somebody's budget, and the hardware       *)
(* watchdog starves only behind a feeder that has written its marker.      *)
FeedOK ==
  /\ feed = "mark" => OverBudget # {}
  /\ hw > 0 => feed = "log"

\* Some path of this life has decided on a reset.
Deciding == mainPc = "reset" \/ cloudPc # "loop" \/ feed = "log"

(* Whoever has decided has left a marker, or was refused.                  *)
Announced == Deciding => marker # None \/ refused

(* What a stored marker names, unless an unread one of an earlier life may *)
(* still be there.                                                         *)
MarkerOK == ~unread =>
  /\ life = "capture" => /\ marker # None => marker \in before.decided
                         /\ marker = None /\ cause # "power" => before.refused
  /\ life \notin {"capture", "run"} => marker = None
  /\ life = "run" /\ marker # None => marker \in decided

NamingOK == FeedOK /\ Announced /\ MarkerOK /\ NamedTruly

(* The per-mille ratio of wdFeederLoop tells a thread over its budget from *)
(* one within it.                                                          *)
LEMMA RatioTells ==
  ASSUME TypeOK, NEW t \in Threads
  PROVE  Ratio(t) \in Nat /\ (since[t] > Allowed(t) <=> Ratio(t) > 1000)
<1> DEFINE s == since[t]
           a == Allowed(t)
           r == Ratio(t)
<1>1. s \in Nat /\ a \in Nat \ {0} /\ a <= 1000
  BY Ticks, TypeGroups DEF ThreadTypes
<1>2. s * 1000 \in Nat
  BY <1>1
<1>3. r = (s * 1000) \div a
  BY DEF Ratio
<1> HIDE DEF s, a, r
<1>4. (s * 1000) \div a \in Nat /\ (1001 <= (s * 1000) \div a <=> 1001 * a <= s * 1000)
  BY <1>1, <1>2, Division, Pieces
<1>5. s > a <=> 1001 * a <= s * 1000
  BY <1>1
<1>6. QED
  BY <1>1, <1>3, <1>4, <1>5 DEF s, a, r

(* So the blame falls on a thread over its budget, if there is one.        *)
LEMMA BlameFair ==
  ASSUME TypeOK, OverBudget # {}
  PROVE  Blame \in OverBudget
<1>1. /\ Ratio("main") \in Nat /\ Ratio("plc") \in Nat /\ Ratio("cloud") \in Nat
      /\ {"main", "plc", "cloud"} = Threads
  BY RatioTells DEF Threads
<1>2. \A t \in Threads : Ratio(t) <= Ratio(Blame)
  BY <1>1 DEF Blame
<1>3. PICK t \in Threads : since[t] > Allowed(t)
  BY DEF OverBudget
<1>4. Ratio(t) > 1000 /\ Ratio(t) \in Nat
  BY <1>3, RatioTells
<1>5. Blame \in Threads /\ Ratio(Blame) \in Nat
  BY BlameTag, RatioTells
<1>6. Ratio(Blame) > 1000
  BY <1>2, <1>4, <1>5
<1>7. since[Blame] > Allowed(Blame)
  BY <1>5, <1>6, RatioTells
<1>8. QED
  BY <1>5, <1>7 DEF OverBudget

(* Tags are not the absence of one.                                        *)
LEMMA TagIsNamed == None \notin Tags
  BY DEF Tags, Threads, None

(* What a life leaves behind when it ends.                                 *)
LEMMA EndNames ==
  ASSUME TypeOK, StageOK, NamingOK, NEW c \in Causes, Ends(c)
  PROVE  NamingOK'
<1>1. FeedOK' /\ Announced' /\ NamedTruly'
  BY DEF Ends, Restarted, FeedOK, Announced, Deciding, NamedTruly
<1>2. /\ life' = "capture" /\ UNCHANGED <<marker, unread>> /\ cause' = c
      /\ before' = IF life = "capture" THEN before ELSE [decided |-> decided, refused |-> refused]
  BY DEF Ends, Restarted, store
<1>3. CASE unread
  BY <1>1, <1>2, <1>3 DEF NamingOK, MarkerOK
<1>4. CASE ~unread /\ life = "run"
  <2>1. before'.decided = decided /\ before'.refused = refused
    BY <1>2, <1>4
  <2>2. marker # None => marker \in before'.decided
    BY <1>4, <2>1 DEF NamingOK, MarkerOK
  <2>3. c # "power" => Deciding
    <3>1. HardwareResets => feed = "log"
      <4>1. HwTicks > 0
        BY Ticks
      <4>2. QED
        BY <4>1 DEF HardwareResets, NamingOK, FeedOK
    <3>2. QED
      BY <3>1 DEF Ends, MainResets, LadderResets, FeederResets, Deciding
  <2>4. marker = None /\ c # "power" => before'.refused
    BY <2>1, <2>3 DEF NamingOK, Announced
  <2>5. QED
    BY <1>1, <1>2, <2>2, <2>4 DEF NamingOK, MarkerOK
<1>5. CASE ~unread /\ life # "run"
  <2>1. c = "power"
    BY <1>5 DEF Ends, MainResets, LadderResets, FeederResets, HardwareResets, Runs, Running
  <2>2. life # "capture" => marker = None
    BY <1>5 DEF NamingOK, MarkerOK
  <2>3. QED
    BY <1>1, <1>2, <1>5, <2>1, <2>2 DEF NamingOK, MarkerOK
<1>6. QED
  BY <1>3, <1>4, <1>5

(* The boot reads the marker once and tells what it read.                  *)
LEMMA BootNames ==
  ASSUME TypeOK, StageOK, NamingOK, Boot
  PROVE  NamingOK'
<1>1. life # "run" /\ UNCHANGED <<threads, pcs, decided, refused>>
  BY BootingStep
<1>2. FeedOK' /\ Announced'
  <2>1. mainPc' = "loop" /\ cloudPc' = "loop" /\ feed' = "watch" /\ hw' = 0
    BY <1>1 DEF StageOK, threads, pcs
  <2>2. QED
    BY <2>1 DEF FeedOK, Announced, Deciding
<1>3. CASE bootReasonCapture
  <2>1. /\ life = "capture" /\ life' = "load" /\ UNCHANGED <<cause, before>>
        /\ \/ why' = marker /\ marker' = None /\ UNCHANGED <<left, unread>>
           \/ Spend("faults") /\ unread' = TRUE /\ UNCHANGED <<why, marker>>
    BY <1>3 DEF bootReasonCapture, BootStage
  <2>2. QED
    BY <1>2, <2>1 DEF NamingOK, MarkerOK, NamedTruly
<1>4. CASE BootLoad \/ BootRemoveChunk \/ BootRemoveMeta
  <2>1. /\ life \notin {"capture", "run"} /\ life' \notin {"capture", "run"}
        /\ UNCHANGED <<marker, why, cause, before, unread>>
    BY <1>4 DEF BootLoad, BootRemoveChunk, BootRemoveMeta, BootStage, reason
  <2>2. QED
    BY <1>2, <2>1 DEF NamingOK, MarkerOK, NamedTruly
<1>5. CASE BootOverride
  <2>1. /\ life = "override" /\ life' = "run" /\ UNCHANGED marker
        /\ unread' = (unread /\ marker # None)
    BY <1>5 DEF BootOverride, BootStage
  <2>2. ~unread' => marker' = None
    BY <2>1, Zenon DEF NamingOK, MarkerOK
  <2>3. QED
    BY <1>2, <2>1, <2>2 DEF NamingOK, MarkerOK, NamedTruly
<1>6. QED
  BY <1>3, <1>4, <1>5 DEF Boot
(* A marker that names a path that has just decided.                       *)
LEMMA MarkNames ==
  ASSUME TypeOK, MarkerOK, life = "run", NEW truth \in SUBSET Tags, NEW tag \in truth,
         bootMarkIntentional(tag, truth), UNCHANGED <<life, unread>>
  PROVE  MarkerOK' /\ (marker' # None \/ refused')
<1>1. /\ decided' = decided \cup truth /\ tag # None
      /\ \/ marker' = tag /\ refused' = refused
         \/ marker' = marker /\ refused' = TRUE
  BY TagIsNamed DEF bootMarkIntentional
<1>2. QED
  BY <1>1 DEF MarkerOK

(* A step that touches neither the marker nor the feeder, and in which no  *)
(* path decides, names what the state before it named.                     *)
LEMMA QuietStep ==
  ASSUME NamingOK, life = "run",
         UNCHANGED <<life, unread, marker, decided, refused, feed, hw, since>>,
         Deciding' => Deciding
  PROVE  NamingOK'
<1>1. OverBudget' = OverBudget
  BY DEF OverBudget, Allowed
<1>2. FeedOK' /\ Announced' /\ MarkerOK' /\ NamedTruly'
  BY <1>1 DEF NamingOK, FeedOK, Announced, MarkerOK, NamedTruly
<1>3. QED
  BY <1>2 DEF NamingOK

(* Time passes: only the feeder may have decided.                          *)
LEMMA TickNames ==
  ASSUME TypeOK, NamingOK, Tick
  PROVE  NamingOK'
<1>1. /\ life = "run" /\ UNCHANGED <<life, unread, marker, decided, refused, mainPc, cloudPc>>
      /\ feed \in {"watch", "log"} /\ feed' \in {feed, "mark"}
      /\ feed' = "mark" => feed = "watch" /\ OverBudget' # {}
  BY DEF Tick, Running, store, ghosts
<1>2. hw' > 0 => feed # "watch"
  <2>1. hw' = IF ~armed \/ Kicked THEN 0 ELSE Smaller(hw + 1, HwTicks)
    BY DEF Tick
  <2>2. QED
    BY <2>1 DEF Kicked
<1>3. FeedOK'
  BY <1>1, <1>2 DEF FeedOK
<1>4. Announced' /\ MarkerOK' /\ NamedTruly'
  BY <1>1 DEF NamingOK, Announced, Deciding, MarkerOK, NamedTruly
<1>5. QED
  BY <1>3, <1>4 DEF NamingOK

(* Every path that decides on a reset says so before it resets.            *)
LEMMA WorksNames ==
  ASSUME TypeOK, NamingOK, Works
  PROVE  NamingOK'
<1>1. life = "run" /\ UNCHANGED <<life, unread>>
  BY WorkingStep
<1>2. ASSUME UNCHANGED <<feed, hw, since>>, MarkerOK', marker' # None \/ refused' PROVE NamingOK'
  <2>1. OverBudget' = OverBudget
    BY <1>2 DEF OverBudget, Allowed
  <2>2. FeedOK' /\ Announced' /\ NamedTruly'
    BY <1>1, <1>2, <2>1 DEF NamingOK, FeedOK, Announced, NamedTruly
  <2>3. QED
    BY <1>2, <2>2 DEF NamingOK
<1>3. CASE MainMarks
  <2>1. /\ mainPc \in {mainPc} /\ {mainPc} \in SUBSET Tags /\ bootMarkIntentional(mainPc, {mainPc})
        /\ UNCHANGED <<feed, hw, since>>
    BY <1>3 DEF MainMarks, Tags, Rest, threads
  <2>2. QED
    BY <1>1, <1>2, <2>1, MarkNames DEF NamingOK
<1>4. CASE LadderMarks
  <2>1. /\ "ladder" \in {"ladder"} /\ {"ladder"} \in SUBSET Tags
        /\ bootMarkIntentional("ladder", {"ladder"}) /\ UNCHANGED <<feed, hw, since>>
    BY <1>4 DEF LadderMarks, CloudStep, Tags
  <2>2. QED
    BY <1>1, <1>2, <2>1, MarkNames DEF NamingOK
<1>5. CASE FeederMarks
  <2>1. /\ bootMarkIntentional(Blame, OverBudget) /\ feed = "mark" /\ feed' = "log"
        /\ UNCHANGED <<hw, since>>
    BY <1>5 DEF FeederMarks, Rest, threads
  <2>2. OverBudget \in SUBSET Tags /\ Blame \in OverBudget
    BY <2>1, BlameFair, BlameTag DEF NamingOK, FeedOK, OverBudget
  <2>3. MarkerOK' /\ (marker' # None \/ refused')
    BY <1>1, <2>1, <2>2, MarkNames DEF NamingOK
  <2>4. FeedOK' /\ Announced' /\ NamedTruly'
    BY <1>1, <2>1, <2>3 DEF FeedOK, Announced, NamedTruly
  <2>5. QED
    BY <2>3, <2>4 DEF NamingOK
<1>6. CASE MainStarts \/ MainUnopened \/ WritesSsid \/ WritesPass \/ RemovesSsid \/ RemovesPass
  <2>1. /\ UNCHANGED <<marker, decided, refused, feed, hw, since, cloudPc>>
        /\ mainPc' # "reset"
    BY <1>6 DEF MainStarts, MainUnopened, WritesSsid, WritesPass, RemovesSsid, RemovesPass,
         MainPuts, Rest,
                threads, store
  <2>2. QED
    BY <1>1, <2>1, QuietStep DEF Deciding
<1>7. CASE LadderLocks \/ LadderSavesChunk \/ LadderSavesMeta \/ LadderSaveFails
  <2>1. /\ UNCHANGED <<marker, decided, refused, feed, hw, since, mainPc>> /\ cloudPc # "loop"
    BY <1>7 DEF LadderLocks, LadderSavesChunk, LadderSavesMeta, LadderSaveFails, CloudStep
  <2>2. QED
    BY <1>1, <2>1, QuietStep DEF Deciding
<1>8. CASE CloudPass \/ Trouble
  <2>1. UNCHANGED <<marker, decided, refused, feed, hw, since, mainPc, cloudPc>>
    BY <1>8 DEF CloudPass, Trouble, Wedge, Slow, Returns, Goes, pcs, store, ghosts
  <2>2. QED
    BY <1>1, <2>1, QuietStep DEF Deciding
<1>9. QED
  BY <1>3, <1>4, <1>5, <1>6, <1>7, <1>8, TickNames DEF Works, Main, Cloud

(* The marker over every step.                                             *)
LEMMA NamingStep ==
  ASSUME TypeOK, StageOK, NamingOK, Shape
  PROVE  NamingOK'
<1>1. CASE UNCHANGED vars
  <2>1. UNCHANGED <<life, unread, marker, why, cause, before, decided, refused, feed, hw, since,
                    mainPc, cloudPc>>
    BY <1>1 DEF vars, threads, pcs, store, reason, ghosts
  <2>2. OverBudget' = OverBudget
    BY <2>1 DEF OverBudget, Allowed
  <2>3. QED
    BY <2>1, <2>2 DEF NamingOK, FeedOK, Announced, Deciding, MarkerOK, NamedTruly
<1>2. QED
  BY <1>1, EndNames, BootNames, WorksNames DEF Shape
-----------------------------------------------------------------------------
(* The saved chunks that a running save has not written over have nothing  *)
(* in common with the ring.                                                *)
ApartOK ==
  life = "run" /\ cloudPc # "reset" => \A c \in Loadable : ~Written(c) => Apart(c)

(* The boot comes to the saved copy with an empty ring, and leaves it with *)
(* the copy gone or the ring empty.                                        *)
CopyStage ==
  /\ life \in {"capture", "load"} => count = 0
  /\ life = "override" => meta = 0 \/ count = 0

(* What a clean ladder reset owes to the next life is in the copy.         *)
HeldOK ==
  /\ held \in Seq(0..MaxRecords)
  /\ life = "run" /\ held # <<>> => cloudPc = "reset"
  /\ life \in {"run", "capture", "load"} /\ held # <<>> => CopyIs(held)

RecordsOK ==
  RingOK /\ CopyOK /\ SaveOK /\ CopyStage /\ ApartOK /\ HeldOK /\ CleanResetKeeps

(* Nothing is owed: no promise to keep.                                    *)
LEMMA NothingHeld == held' = <<>> => HeldOK' /\ CleanResetKeeps'
  BY DEF HeldOK, CleanResetKeeps

(* The records over a step that is not about them.                         *)
LEMMA RecordsSame ==
  ASSUME RecordsOK, UNCHANGED <<ringVars, life, held, cloudPc, saving>>
  PROVE  RecordsOK'
<1>1. UNCHANGED <<slot, head, count, chunk, meta, top, gone>>
  BY DEF ringVars, ring, copy, ringGhosts
<1>2. /\ RingOK' /\ CopyOK' /\ Loadable' = Loadable /\ Content' = Content
      /\ \A n \in Int : At(n)' = At(n)
      /\ \A c \in Int : ChunkOf(c)' = ChunkOf(c)
  BY <1>1, RingSame DEF RecordsOK
<1>3. \A c : Written(c)' = Written(c)
  BY <1>1 DEF Written
<1>4. SaveOK'
  <2>1. Chunks \subseteq Int
    BY DEF Chunks
  <2>2. QED
    BY <1>1, <1>2, <1>3, <2>1 DEF RecordsOK, SaveOK, Chunks
<1>5. ApartOK'
  BY <1>1, <1>2, <1>3 DEF RecordsOK, ApartOK, Apart
<1>6. HeldOK'
  BY <1>1, <1>2 DEF RecordsOK, HeldOK, CopyIs, Smaller
<1>7. CleanResetKeeps' /\ CopyStage'
  BY <1>1, <1>2 DEF RecordsOK, CleanResetKeeps, CopyStage
<1>8. QED
  BY <1>2, <1>4, <1>5, <1>6, <1>7 DEF RecordsOK

(* A reset forgets the ring; the copy stays as far as it got.              *)
LEMMA EndRecords ==
  ASSUME TypeOK, RecordsOK, NEW c \in Causes, Ends(c)
  PROVE  RecordsOK'
<1>1. /\ RingOK' /\ CopyOK' /\ UNCHANGED <<chunk, meta, top, gone>> /\ count' = 0
      /\ life' = "capture" /\ cloudPc' = "loop" /\ saving' = 0
  BY RemovalKeeps, TypeGroups DEF RecordsOK, Ends, Restarted
<1>2. SaveOK' /\ CopyStage' /\ ApartOK'
  BY <1>1 DEF SaveOK, Written, CopyStage, ApartOK
<1>3. held' = <<>> \/ (life = "run" /\ held' = held)
  BY DEF Ends, PowerCut, MainResets, LadderResets, FeederResets, HardwareResets, Runs, Running
<1>4. CASE held' = <<>>
  BY <1>1, <1>2, <1>4, NothingHeld DEF RecordsOK
<1>5. CASE life = "run" /\ held' = held /\ held # <<>>
  <2>1. CopyIs(held)
    BY <1>5 DEF RecordsOK, HeldOK
  <2>2. Loadable' = Loadable
    BY <1>1, RingSame
  <2>3. HeldOK' /\ CleanResetKeeps'
    BY <1>1, <1>5, <2>1, <2>2 DEF RecordsOK, HeldOK, CopyIs, Smaller, CleanResetKeeps
  <2>4. QED
    BY <1>1, <1>2, <2>3 DEF RecordsOK
<1>6. QED
  BY <1>3, <1>4, <1>5

(* The boot loads the copy and takes it away.                              *)
LEMMA BootRecords ==
  ASSUME TypeOK, StageOK, RecordsOK, Boot
  PROVE  RecordsOK'
<1>1. /\ life # "run" /\ cloudPc' = "loop" /\ UNCHANGED saving /\ cloudPc = "loop"
      /\ saving = 0 /\ RingTypeOK
  BY BootingStep, TypeGroups DEF StageOK, RecordsOK, SaveOK, pcs
<1>2. SaveOK'
  BY <1>1 DEF SaveOK, Written
<1>3. CASE bootReasonCapture
  <2>1. /\ life = "capture" /\ life' = "load" /\ UNCHANGED held
        /\ UNCHANGED <<slot, head, count, chunk, meta, top, gone>>
    BY <1>3 DEF bootReasonCapture, BootStage, ringVars, ring, copy, ringGhosts
  <2>2. RingOK' /\ CopyOK' /\ Loadable' = Loadable
    BY <2>1, RingSame DEF RecordsOK
  <2>3. CopyStage' /\ ApartOK' /\ CleanResetKeeps'
    BY <2>1 DEF RecordsOK, CopyStage, ApartOK, CleanResetKeeps
  <2>4. HeldOK'
    BY <2>1, <2>2 DEF RecordsOK, HeldOK, CopyIs, Smaller
  <2>5. QED
    BY <1>2, <2>2, <2>3, <2>4 DEF RecordsOK
<1>4. CASE /\ BootStage("load", IF meta > 0 THEN "removeChunks" ELSE "override")
           /\ replayLoad /\ UNCHANGED held
  <2>1. /\ life = "load" /\ life' = IF meta > 0 THEN "removeChunks" ELSE "override"
    BY <1>4 DEF BootStage
  <2>2. RingOK' /\ CopyOK' /\ UNCHANGED meta /\ meta \in Nat
    <3>1. meta \in Nat
      BY <1>1, Sizes DEF RingTypeOK
    <3>2. QED
      BY <1>1, <1>4, <3>1, LoadKeeps, LoadFills DEF RecordsOK
  <2>3. CopyStage' /\ ApartOK'
    BY <2>1, <2>2 DEF CopyStage, ApartOK
  <2>4. held # <<>> => Content' = held
    BY <1>1, <1>4, <2>1, LoadWhole DEF RecordsOK, HeldOK
  <2>5. HeldOK' /\ CleanResetKeeps'
    BY <1>4, <2>1, <2>4 DEF RecordsOK, HeldOK, CleanResetKeeps
  <2>6. QED
    BY <1>2, <2>2, <2>3, <2>5 DEF RecordsOK
<1>5. CASE BootStage("load", "override") /\ UNCHANGED ringVars /\ held' = <<>>
  <2>1. life = "load" /\ life' = "override"
    BY <1>5 DEF BootStage
  <2>2. UNCHANGED <<slot, head, count, chunk, meta, top, gone>> /\ count = 0
    BY <1>5, <2>1 DEF RecordsOK, CopyStage, ringVars, ring, copy, ringGhosts
  <2>3. RingOK' /\ CopyOK'
    BY <2>2, RingSame DEF RecordsOK
  <2>4. CopyStage' /\ ApartOK'
    BY <2>1, <2>2 DEF CopyStage, ApartOK
  <2>5. QED
    BY <1>2, <1>5, <2>3, <2>4, NothingHeld DEF RecordsOK
<1>6. CASE BootRemoveChunk \/ BootRemoveMeta
  <2>1. /\ life = "removeChunks" /\ UNCHANGED held
        /\ \/ life' = "removeChunks" /\ \E c \in Chunks : RemoveChunk(c)
           \/ life' = "override" /\ RemoveMeta
    BY <1>6 DEF BootRemoveChunk, BootRemoveMeta, BootStage
  <2>2. /\ RingOK' /\ CopyOK' /\ UNCHANGED <<slot, head, count, top, gone>>
        /\ life' = "override" => meta' = 0
    BY <1>1, <2>1, RemovalKeeps DEF RecordsOK
  <2>3. CopyStage' /\ ApartOK'
    BY <2>1, <2>2 DEF CopyStage, ApartOK
  <2>4. Content' = Content
    BY <2>2, RingSame
  <2>5. HeldOK' /\ CleanResetKeeps'
    BY <2>1, <2>4 DEF RecordsOK, HeldOK, CleanResetKeeps
  <2>6. QED
    BY <1>2, <2>2, <2>3, <2>5 DEF RecordsOK
<1>7. CASE BootOverride
  <2>1. life = "override" /\ life' = "run" /\ UNCHANGED ringVars /\ held' = <<>>
    BY <1>7 DEF BootOverride, BootStage
  <2>2. UNCHANGED <<slot, head, count, chunk, meta, top, gone>>
    BY <2>1 DEF ringVars, ring, copy, ringGhosts
  <2>3. RingOK' /\ CopyOK' /\ Loadable' = Loadable
    BY <2>2, RingSame DEF RecordsOK
  <2>4. meta = 0 => Loadable = {}
    <3>1. \A c \in Chunks : ~(c * RP_CHUNK_RECS < 0)
      BY Sizes, TimesMono DEF Chunks
    <3>2. QED
      BY <3>1 DEF Loadable
  <2>5. count = 0 => 0..count - 1 = {}
    OBVIOUS
  <2>6. CopyStage' /\ ApartOK'
    BY <2>1, <2>2, <2>3, <2>4, <2>5 DEF RecordsOK, CopyStage, ApartOK, Apart
  <2>7. QED
    BY <1>2, <2>1, <2>3, <2>6, NothingHeld DEF RecordsOK
<1>8. QED
  <2>1. BootLoad =>
          \/ /\ BootStage("load", IF meta > 0 THEN "removeChunks" ELSE "override")
             /\ replayLoad /\ UNCHANGED held
          \/ BootStage("load", "override") /\ UNCHANGED ringVars /\ held' = <<>>
    BY DEF BootLoad
  <2>2. QED
    BY <1>3, <1>4, <1>5, <1>6, <1>7, <2>1 DEF Boot

(* The ladder decides, and saves the ring chunk by chunk.                  *)
LEMMA CloudRecords ==
  ASSUME TypeOK, RecordsOK, Cloud, ~LadderResets
  PROVE  RecordsOK'
<1>1. RingTypeOK /\ life = "run" /\ life' = "run" /\ saving \in Nat /\ Chunks \subseteq Nat
  BY WorkingStep, TypeGroups DEF Works, PcTypes, Chunks
<1>2. CASE CloudPass
  <2>1. cloudPc = "loop" /\ UNCHANGED <<cloudPc, saving, held, life>>
    BY <1>2 DEF CloudPass, pcs, ghosts
  <2>2. CASE UNCHANGED ringVars
    BY <2>1, <2>2, RecordsSame
  <2>3. CASE (Capture \/ Post) /\ ~UNCHANGED ringVars
    <3>1. \A c \in Loadable : Apart(c)
      BY <1>1, <2>1 DEF RecordsOK, ApartOK, Written
    <3>2. RingOK' /\ CopyOK' /\ \A c \in Loadable' : Apart(c)'
      <4>1. CASE Capture
        BY <1>1, <3>1, <4>1, CaptureKeeps DEF RecordsOK
      <4>2. CASE Post /\ ~UNCHANGED ringVars
        <5>1. \A k \in 1..Smaller(RP_PER_POST, count) : k \in 1..count
          BY <1>1, Sizes DEF RingTypeOK, Smaller
        <5>2. \E k \in 1..count : DropOldest(k)
          BY <4>2, <5>1 DEF Post
        <5>3. QED
          BY <1>1, <3>1, <5>2, DropKeeps DEF RecordsOK
      <4>3. QED
        BY <2>3, <4>1, <4>2
    <3>3. SaveOK' /\ CopyStage' /\ ApartOK'
      BY <1>1, <2>1, <3>2 DEF RecordsOK, SaveOK, Written, CopyStage, ApartOK
    <3>4. held' = <<>>
      BY <1>1, <2>1 DEF RecordsOK, HeldOK
    <3>5. QED
      BY <3>2, <3>3, <3>4, NothingHeld DEF RecordsOK
  <2>4. QED
    BY <1>2, <2>2, <2>3 DEF CloudPass
<1>3. CASE LadderMarks \/ LadderLocks \/ LadderSaveFails
  <2>1. /\ UNCHANGED <<slot, head, count, chunk, meta, top, gone, held>>
        /\ \/ /\ cloudPc \in {"loop", "marked"} /\ UNCHANGED saving
              /\ cloudPc' \in {"marked", "reset", "save"} /\ (cloudPc' = "save" => count # 0)
           \/ cloudPc' = "reset" /\ saving' = 0
    <3>1. UNCHANGED <<ringVars, held>>
      BY <1>3 DEF LadderMarks, LadderLocks, LadderSaveFails
    <3>2. UNCHANGED <<slot, head, count, chunk, meta, top, gone, held>>
      BY <3>1 DEF ringVars, ring, copy, ringGhosts
    <3>3. LadderMarks => cloudPc = "loop" /\ cloudPc' = "marked" /\ UNCHANGED saving
      BY DEF LadderMarks, CloudStep
    <3>4. LadderLocks => /\ cloudPc = "marked" /\ UNCHANGED saving
                         /\ cloudPc' = IF count = 0 THEN "reset" ELSE "save"
      BY DEF LadderLocks, CloudStep
    <3>5. LadderSaveFails => cloudPc' = "reset" /\ saving' = 0
      BY DEF LadderSaveFails, CloudStep
    <3>6. QED
      BY <1>3, <3>2, <3>3, <3>4, <3>5
  <2>2. cloudPc # "reset" /\ held = <<>>
    BY <1>1, <1>3 DEF LadderMarks, LadderLocks, LadderSaveFails, CloudStep, RecordsOK, HeldOK
  <2>3. saving' = 0 /\ (cloudPc' = "save" => cloudPc # "save" /\ saving = 0 /\ count > 0)
        /\ cloudPc' # "meta" /\ (cloudPc' # "reset" => cloudPc \in {"loop", "marked"})
    <3>1. count \in Nat
      BY <1>1, Sizes DEF RingTypeOK
    <3>2. QED
      BY <2>1, <3>1 DEF RecordsOK, SaveOK
  <2>4. RingOK' /\ CopyOK' /\ Loadable' = Loadable /\ \A n \in Int : At(n)' = At(n)
    BY <2>1, RingSame DEF RecordsOK
  <2>5. \A c \in Chunks : ~Written(c)' /\ Loadable \subseteq Chunks
    <3>1. \A c \in Chunks : ~(c < 0)
      BY <1>1
    <3>2. QED
      BY <2>3, <3>1 DEF Written, Loadable
  <2>6. SaveOK'
    <3>1. 0 * RP_CHUNK_RECS = 0
      BY Sizes
    <3>2. QED
      BY <2>1, <2>3, <2>5, <3>1 DEF SaveOK, Chunks
  <2>7. ApartOK'
    <3>1. cloudPc' # "reset" => \A c \in Loadable : ~Written(c)
      BY <2>3 DEF Written
    <3>2. cloudPc' # "reset" => \A c \in Loadable : Apart(c)
      BY <1>1, <2>2, <3>1 DEF RecordsOK, ApartOK
    <3>3. QED
      BY <2>1, <2>4, <3>2 DEF ApartOK, Apart
  <2>8. CopyStage' /\ held' = <<>>
    BY <1>1, <2>1, <2>2 DEF CopyStage
  <2>9. QED
    BY <2>4, <2>6, <2>7, <2>8, NothingHeld DEF RecordsOK
<1>4. CASE LadderSavesChunk
  <2> DEFINE W == {d \in Chunks : d < saving}
  <2>1. /\ cloudPc = "save" /\ SaveChunk(saving) /\ UNCHANGED held
        /\ cloudPc' = (IF saving < LastChunk THEN "save" ELSE "meta")
        /\ saving' = (IF saving < LastChunk THEN saving + 1 ELSE 0)
    BY <1>4 DEF LadderSavesChunk, CloudStep
  <2>2. /\ saving \in Chunks /\ saving * RP_CHUNK_RECS < count /\ count > 0
        /\ saving < LastChunk => (saving + 1) * RP_CHUNK_RECS < count
    BY <2>1, NextChunk DEF RecordsOK
  <2>3. \A d \in W : d * RP_CHUNK_RECS < count /\ chunk[d] = ChunkOf(d)
    <3>1. \A d \in W : chunk[d] = ChunkOf(d)
      BY <2>1 DEF RecordsOK, SaveOK, Written
    <3>2. ASSUME NEW d \in W PROVE d * RP_CHUNK_RECS < count
      <4>1. /\ d \in Nat /\ d <= saving /\ RP_CHUNK_RECS \in Nat /\ count \in Nat
        BY <1>1, Sizes DEF RingTypeOK
      <4>2. /\ d * RP_CHUNK_RECS <= saving * RP_CHUNK_RECS
            /\ d * RP_CHUNK_RECS \in Nat /\ saving * RP_CHUNK_RECS \in Nat
        BY <1>1, <4>1, TimesMono
      <4>3. QED
        BY <2>2, <4>1, <4>2
    <3>3. QED
      BY <3>1, <3>2
  <2>4. \A d \in Loadable \ W : Apart(d)
    <3>1. \A d \in Loadable \ W : d \in Loadable /\ ~Written(d)
      BY <2>1 DEF Written, Loadable
    <3>2. QED
      BY <1>1, <2>1, <3>1 DEF RecordsOK, ApartOK
  <2>5. /\ RingOK' /\ CopyOK' /\ UNCHANGED <<slot, head, count, meta, top, gone>>
        /\ \A d \in W \cup {saving} : chunk'[d] = ChunkOf(d)'
        /\ \A d \in Loadable' \ (W \cup {saving}) : Apart(d)'
    <3>1. W \in SUBSET Chunks
      OBVIOUS
    <3> HIDE DEF W
    <3>2. QED
      BY <1>1, <2>1, <2>2, <2>3, <2>4, <3>1, SaveKeeps DEF RecordsOK
  <2>6. \A d \in Chunks : Written(d)' <=> d \in W \cup {saving}
    <3>1. TAKE d \in Chunks
    <3>2. d \in Nat /\ LastChunk \in Nat /\ saving <= LastChunk
          /\ (d <= LastChunk <=> d * RP_CHUNK_RECS < count)
      BY <1>1, <2>2, LastChunkIs
    <3>3. d \in W \cup {saving} <=> d <= saving
      BY <1>1, <2>2, <3>2
    <3>4. CASE saving < LastChunk
      BY <1>1, <2>1, <3>2, <3>3, <3>4 DEF Written
    <3>5. CASE ~(saving < LastChunk)
      BY <1>1, <2>1, <2>5, <3>2, <3>3, <3>5 DEF Written
    <3>6. QED
      BY <3>4, <3>5
  <2> HIDE DEF W
  <2>7. SaveOK'
    <3>1. \A d \in Chunks : Written(d)' => chunk'[d] = ChunkOf(d)'
      BY <2>5, <2>6
    <3>2. Chunks' = Chunks
      BY DEF Chunks
    <3>3. QED
      BY <2>1, <2>2, <2>5, <3>1, <3>2 DEF SaveOK
  <2>8. ApartOK'
    <3>1. Loadable' \subseteq Chunks
      BY DEF Loadable, Chunks
    <3>2. QED
      BY <2>5, <2>6, <3>1 DEF ApartOK
  <2>9. CopyStage' /\ held' = <<>>
    BY <1>1, <2>1 DEF CopyStage, RecordsOK, HeldOK
  <2>10. QED
    BY <2>5, <2>7, <2>8, <2>9, NothingHeld DEF RecordsOK
<1>5. CASE LadderSavesMeta
  <2>1. /\ cloudPc = "meta" /\ cloudPc' = "reset" /\ SaveMeta /\ held' = Content
        /\ UNCHANGED saving
    BY <1>5 DEF LadderSavesMeta, CloudStep
  <2>2. \A c \in Chunks : c * RP_CHUNK_RECS < count => chunk[c] = ChunkOf(c)
    BY <2>1 DEF RecordsOK, SaveOK, Written
  <2>3. /\ RingOK' /\ CopyOK' /\ Len(held') = meta'
        /\ \A c \in Loadable' :
             /\ Len(chunk'[c]) = Smaller(RP_CHUNK_RECS, meta' - c * RP_CHUNK_RECS)
             /\ \A i \in 1..Len(chunk'[c]) : chunk'[c][i] = held'[c * RP_CHUNK_RECS + i]
    <3>1. RingOK' /\ CopyOK' /\ \A s : s = Content => CopyIs(s)'
      BY <1>1, <2>1, <2>2, MetaKeeps DEF RecordsOK
    <3>2. QED
      BY <2>1, <3>1 DEF CopyIs, Smaller
  <2>4. SaveOK' /\ ApartOK' /\ CopyStage' /\ CleanResetKeeps'
    BY <1>1, <2>1 DEF RecordsOK, SaveOK, Written, ApartOK, CopyStage, CleanResetKeeps
  <2>5. HeldOK'
    <3>1. held' \in Seq(0..MaxRecords)
      BY <1>1, <2>1, ContentSeq
    <3>2. QED
      BY <2>1, <2>3, <3>1 DEF HeldOK, CopyIs, Smaller
  <2>6. QED
    BY <2>3, <2>4, <2>5 DEF RecordsOK
<1>6. QED
  BY <1>2, <1>3, <1>4, <1>5 DEF Cloud

(* The records over every step.                                            *)
LEMMA RecordsStep ==
  ASSUME TypeOK, StageOK, RecordsOK, Shape
  PROVE  RecordsOK'
<1>1. CASE Works /\ ~(Cloud /\ ~LadderResets)
  <2>1. UNCHANGED <<ringVars, life, held, cloudPc, saving>>
    BY <1>1, WorkingStep DEF Works, Main, MainStarts, MainUnopened, WritesSsid, WritesPass,
         RemovesSsid,
      RemovesPass, MainPuts, MainMarks, FeederMarks, Tick, Trouble, Wedge, Slow, Returns, Goes,
      pcs, ghosts
  <2>2. QED
    BY <2>1, RecordsSame
<1>2. CASE UNCHANGED vars
  BY <1>2, RecordsSame DEF vars, pcs, ghosts
<1>3. QED
  BY <1>1, <1>2, EndRecords, BootRecords, CloudRecords DEF Shape, Works
-----------------------------------------------------------------------------
(* The inductive invariant: the types, the stages of the boot, the stored  *)
(* credentials, the marker, and the records of the ring and of its copy.   *)
IInv == TypeOK /\ StageOK /\ CredentialsOK /\ NamingOK /\ RecordsOK

(* The first life starts with an empty store and nothing to tell.          *)
LEMMA InitHolds == Init => IInv
<1> SUFFICES ASSUME Init PROVE IInv
  OBVIOUS
<1>1. ThreadTypes
  <2>1. 0 \in 0..Long + 1 /\ 0 \in 0..HwTicks
    BY Ticks
  <2>2. since \in [Threads -> 0..Long + 1]
    BY <2>1 DEF Init
  <2>3. QED
    BY <2>1, <2>2 DEF Init, ThreadTypes
<1>2. PcTypes /\ StoreTypes /\ ReasonTypes /\ GhostTypes /\ life \in Stages
  BY FirstChunk DEF Init, PcTypes, StoreTypes, ReasonTypes, GhostTypes, Stages, Told
<1>3. RingTypeOK /\ left \in [Events -> Nat]
  BY RingStarts, BudgetAssumption DEF Init
<1>4. TypeOK
  BY <1>1, <1>2, <1>3, TypeGroups
<1>5. StageOK /\ CredentialsOK
  BY DEF Init, StageOK, CredentialsOK, StoredPair, Default
<1>6. NamingOK
  BY DEF Init, NamingOK, FeedOK, Announced, Deciding, MarkerOK, NamedTruly
<1>7. RecordsOK
  <2>1. RingOK /\ CopyOK /\ count = 0 /\ life = "run" /\ cloudPc = "loop" /\ saving = 0
        /\ held = <<>>
    BY RecordsStart DEF Init, RingInit
  <2>2. 0..count - 1 = {}
    BY <2>1
  <2>3. SaveOK /\ CopyStage /\ ApartOK /\ CleanResetKeeps
    BY <2>1, <2>2 DEF SaveOK, Written, CopyStage, ApartOK, Apart, CleanResetKeeps
  <2>4. HeldOK
    BY <2>1 DEF HeldOK
  <2>5. QED
    BY <2>1, <2>3, <2>4 DEF RecordsOK
<1>8. QED
  BY <1>4, <1>5, <1>6, <1>7 DEF IInv

(* Every step keeps it.                                                    *)
LEMMA StepHolds ==
  ASSUME IInv, [Next]_vars
  PROVE  IInv'
<1>1. Shape
  BY StepShape DEF IInv
<1>2. TypeOK'
  BY TypesStep DEF IInv, RecordsOK
<1>3. QED
  BY <1>1, <1>2, StageStep, CredentialsStep, NamingStep, RecordsStep DEF IInv

(* So it holds in every state of every behaviour.                          *)
THEOREM Inductive == Spec => []IInv
<1>1. Init => IInv
  BY InitHolds
<1>2. IInv /\ [Next]_vars => IInv'
  BY StepHolds
<1>3. QED
  BY <1>1, <1>2, PTL DEF Spec

(* Type correctness of the restart, the ring and the saved copy.           *)
THEOREM TypeCorrect == Spec => []TypeOK
<1>1. IInv => TypeOK
  BY DEF IInv
<1>2. QED
  BY <1>1, Inductive, PTL

(* The boot names the path that reset the gateway: whoever wedges, slows,  *)
(* or fails, a marker is from a path that decided in the life that ended,  *)
(* and an intended reset goes unnamed only if its marker was refused.      *)
THEOREM NamesTruly == Spec => []NamedTruly
<1>1. IInv => NamedTruly
  BY DEF IInv, NamingOK
<1>2. QED
  BY <1>1, Inductive, PTL

(* A boot runs on the pair last saved whole, or on the built-in one after  *)
(* a clear: no refused write, no life cut short and no failing read gives  *)
(* a network another's password, but where one half of a pair was written. *)
THEOREM KeepsPair == Spec => PairKept
<1> DEFINE A == life = "override" /\ life' = "run" /\ kept # Half
                => IF left' = left THEN inUse' = kept
                   ELSE inUse' \in {kept, Default, <<kept[1], None>>}
<1>1. IInv /\ [Next]_vars => [A]_vars
  <2> SUFFICES ASSUME IInv, [Next]_vars, life = "override", life' = "run", kept # Half
               PROVE  IF left' = left THEN inUse' = kept
                      ELSE inUse' \in {kept, Default, <<kept[1], None>>}
    OBVIOUS
  <2>1. BootOverride
    <3>1. Shape
      BY StepShape DEF IInv
    <3>2. ~\E c \in Causes : Ends(c)
      BY DEF Ends, Restarted
    <3>3. ~Works /\ ~UNCHANGED vars
      BY WorkingStep DEF vars
    <3>4. QED
      BY <3>1, <3>2, <3>3 DEF Shape, Boot, bootReasonCapture, BootLoad, BootRemoveChunk,
                              BootRemoveMeta, BootStage
  <2>2. StoredPair = kept
    BY DEF IInv, CredentialsOK
  <2>3. CASE inUse' = StoredPair
    BY <2>2, <2>3
  <2>4. CASE /\ Spend("faults")
             /\ inUse' \in {Default, IF ssid = None THEN Default ELSE <<ssid, None>>}
    <3>1. left' # left
      <4>1. left \in [Events -> Nat] /\ "faults" \in Events
        BY TypeGroups DEF IInv, Events
      <4>2. left'["faults"] = left["faults"] - 1 /\ left["faults"] \in Nat
        BY <2>4, <4>1 DEF Spend
      <4>3. QED
        BY <4>2
    <3>2. ssid # None => kept[1] = ssid
      BY <2>2 DEF StoredPair
    <3>3. QED
      BY <2>4, <3>1, <3>2
  <2>5. QED
    BY <2>1, <2>3, <2>4 DEF BootOverride, StoredPair
<1>2. QED
  BY <1>1, Inductive, PTL DEF Spec, PairKept

(* A ladder reset whose save succeeded hands every record to the next      *)
(* life, in order.                                                         *)
THEOREM HandsOver == Spec => []CleanResetKeeps
<1>1. IInv => CleanResetKeeps
  BY DEF IInv, RecordsOK
<1>2. QED
  BY <1>1, Inductive, PTL

-----------------------------------------------------------------------------
(* The ring through resets implements ReplayLog.                           *)
LogStep == Log!LogNext \/ UNCHANGED Log!logVars

(* The ring is never longer than it is large.                              *)
LEMMA RingFits == RingTypeOK => count \in 0..RP_MAX /\ RP_MAX \in Nat \ {0} /\ count \in Nat
  BY Sizes DEF RingTypeOK

(* A capture is an append, that drops the oldest when the ring is full.    *)
LEMMA CaptureAppends ==
  ASSUME RingTypeOK, Capture, Running, Running'
  PROVE  Log!Append1
<1> DEFINE S == 0..MaxRecords
<1>1. /\ Content \in Seq(S) /\ Len(Content) = count /\ \A i \in 1..count : Content[i] = At(i - 1)
      /\ count \in 0..RP_MAX /\ RP_MAX \in Nat \ {0}
  BY ContentSeq, RingFits
<1>2. /\ RingTypeOK' /\ top' = top + 1
      /\ count < RP_MAX => /\ count' = count + 1 /\ gone' = gone
                           /\ \A n \in 0..count - 1 : At(n)' = At(n)
      /\ count = RP_MAX => /\ count' = count /\ gone' = gone \cup {At(0)}
                           /\ \A n \in 0..count - 2 : At(n)' = At(n + 1)
      /\ \A n \in 0..RP_MAX - 1 : count' = n + 1 => At(n)' = top'
  BY CaptureShifts
<1>3. /\ Content' \in Seq(S) /\ Len(Content') = count'
      /\ \A i \in 1..count' : Content'[i] = At(i - 1)'
  BY <1>2, ContentNext
<1>4. top' \in S
  BY <1>2 DEF RingTypeOK
<1> HIDE DEF S
<1>5. CASE count < RP_MAX
  <2>1. /\ Append(Content, top') \in Seq(S) /\ Len(Append(Content, top')) = count + 1
        /\ \A i \in 1..count : Append(Content, top')[i] = Content[i]
        /\ Append(Content, top')[count + 1] = top'
    BY <1>1, <1>4, AppendProperties
  <2>2. ASSUME NEW i \in 1..count + 1 PROVE Content'[i] = Append(Content, top')[i]
    <3>1. i \in 1..count' /\ i - 1 \in 0..RP_MAX - 1 /\ Content'[i] = At(i - 1)'
      BY <1>1, <1>2, <1>3, <1>5
    <3>2. CASE i = count + 1
      <4>1. At(i - 1)' = top'
        BY <1>1, <1>2, <1>5, <3>1, <3>2
      <4>2. QED
        BY <2>1, <3>1, <3>2, <4>1
    <3>3. CASE i \in 1..count
      <4>1. At(i - 1)' = At(i - 1)
        BY <1>1, <1>2, <1>5, <3>3
      <4>2. QED
        BY <1>1, <2>1, <3>1, <3>3, <4>1
    <3>4. QED
      BY <1>1, <3>2, <3>3
  <2>3. Content' = Append(Content, top')
    BY <1>2, <1>3, <1>5, <2>1, <2>2, SeqEqual
  <2>4. QED
    BY <1>1, <1>2, <1>5, <2>3 DEF Log!Append1, Log!Working
<1>6. CASE count = RP_MAX
  <2>1. Content # <<>>
    BY <1>1, <1>6
  <2>2. /\ Tail(Content) \in Seq(S) /\ Len(Tail(Content)) = count - 1
        /\ \A i \in 1..count - 1 : Tail(Content)[i] = Content[i + 1]
        /\ Head(Content) = At(0)
    <3>1. Head(Content) = Content[1] /\ Content[1] = At(0)
      BY <1>1, <1>6, <2>1
    <3>2. QED
      BY <1>1, <2>1, <3>1, HeadTailProperties
  <2>3. /\ Append(Tail(Content), top') \in Seq(S) /\ Len(Append(Tail(Content), top')) = count
        /\ \A i \in 1..count - 1 : Append(Tail(Content), top')[i] = Tail(Content)[i]
        /\ Append(Tail(Content), top')[count] = top'
    <3>1. /\ Append(Tail(Content), top') \in Seq(S)
          /\ Len(Append(Tail(Content), top')) = Len(Tail(Content)) + 1
          /\ \A i \in 1..Len(Tail(Content)) : Append(Tail(Content), top')[i] = Tail(Content)[i]
          /\ Append(Tail(Content), top')[Len(Tail(Content)) + 1] = top'
      BY <1>4, <2>2, AppendProperties
    <3>2. Len(Tail(Content)) + 1 = count
      BY <1>1, <2>2
    <3>3. QED
      BY <2>2, <3>1, <3>2
  <2>4. ASSUME NEW i \in 1..count PROVE Content'[i] = Append(Tail(Content), top')[i]
    <3>1. i \in 1..count' /\ i - 1 \in 0..RP_MAX - 1 /\ Content'[i] = At(i - 1)'
      BY <1>1, <1>2, <1>3, <1>6
    <3>2. CASE i = count
      <4>1. At(i - 1)' = top'
        BY <1>1, <1>2, <1>6, <3>1, <3>2
      <4>2. QED
        BY <2>3, <3>1, <3>2, <4>1
    <3>3. CASE i \in 1..count - 1
      <4>1. At(i - 1)' = At((i - 1) + 1)
        BY <1>1, <1>2, <1>6, <3>3
      <4>2. (i - 1) + 1 = (i + 1) - 1 /\ i + 1 \in 1..count
        BY <1>1, <3>3
      <4>3. Content[i + 1] = At((i + 1) - 1)
        BY <1>1, <4>2
      <4>4. QED
        BY <2>2, <2>3, <3>1, <3>3, <4>1, <4>2, <4>3
    <3>4. QED
      BY <1>1, <3>2, <3>3
  <2>5. Content' = Append(Tail(Content), top')
    BY <1>2, <1>3, <1>6, <2>3, <2>4, SeqEqual
  <2>6. QED
    BY <1>1, <1>2, <1>6, <2>2, <2>5 DEF Log!Append1, Log!Working
<1>7. QED
  BY <1>1, <1>5, <1>6

(* A batch that the server took, or refused, takes its records off.        *)
LEMMA PostTakes ==
  ASSUME RingTypeOK, Running, Running', NEW k \in 1..Smaller(RP_PER_POST, count), DropOldest(k)
  PROVE  Log!Take
<1> DEFINE S == 0..MaxRecords
           rest == SubSeq(Content, k + 1, count)
           batch == SubSeq(Content, 1, k)
<1>1. /\ Content \in Seq(S) /\ Len(Content) = count /\ \A i \in 1..count : Content[i] = At(i - 1)
      /\ count \in 0..RP_MAX /\ RP_MAX \in Nat \ {0} /\ count \in Nat
  BY ContentSeq, RingFits
<1>2. k \in 1..count /\ k \in 1..RP_PER_POST
  BY <1>1, Sizes DEF Smaller
<1>3. /\ RingTypeOK' /\ count' = count - k /\ top' = top
      /\ gone' = gone \cup {At(i) : i \in 0..k - 1}
      /\ \A n \in 0..count - k - 1 : At(n)' = At(n + k)
  BY <1>2, DropShifts
<1>4. /\ Content' \in Seq(S) /\ Len(Content') = count'
      /\ \A i \in 1..count' : Content'[i] = At(i - 1)'
  BY <1>3, ContentNext
<1>5. \A i \in 1..count : Content[i] \in S
  BY <1>1, ElementOfSeq
<1> HIDE DEF S
<1>6. /\ rest \in Seq(S) /\ Len(rest) = count - k
      /\ \A i \in 1..count - k : rest[i] = Content[k + i]
  <2>1. \A i \in k + 1..count : Content[i] \in S
    BY <1>1, <1>2, <1>5
  <2>2. /\ rest \in Seq(S) /\ Len(rest) = IF k + 1 <= count THEN count - (k + 1) + 1 ELSE 0
        /\ \A i \in 1..count - (k + 1) + 1 : rest[i] = Content[(k + 1) + i - 1]
    BY <1>1, <1>2, <2>1, SubSeqProperties
  <2>3. /\ count - (k + 1) + 1 = count - k
        /\ \A i \in 1..count - k : (k + 1) + i - 1 = k + i
    BY <1>1, <1>2
  <2>4. Len(rest) = count - k
    BY <1>1, <1>2, <2>2
  <2>5. QED
    BY <2>2, <2>3, <2>4
<1>7. Len(batch) = k /\ batch \in Seq(S) /\ \A i \in 1..k : batch[i] = At(i - 1)
  <2>1. \A i \in 1..k : Content[i] \in S
    BY <1>1, <1>2, <1>5
  <2>2. /\ batch \in Seq(S) /\ Len(batch) = IF 1 <= k THEN k - 1 + 1 ELSE 0
        /\ \A i \in 1..k - 1 + 1 : batch[i] = Content[1 + i - 1]
    BY <1>1, <1>2, <2>1, SubSeqProperties
  <2>3. k - 1 + 1 = k /\ 1 <= k /\ \A i \in 1..k : 1 + i - 1 = i /\ i \in 1..count
    BY <1>1, <1>2
  <2>4. QED
    BY <1>1, <2>2, <2>3
<1> HIDE DEF rest, batch
<1>8. Content' = rest
  <2>1. ASSUME NEW i \in 1..count - k PROVE Content'[i] = rest[i]
    <3>1. Content'[i] = At(i - 1)'
      BY <1>3, <1>4
    <3>2. At(i - 1)' = At((i - 1) + k)
      BY <1>1, <1>2, <1>3
    <3>3. (i - 1) + k = (k + i) - 1 /\ k + i \in 1..count
      BY <1>1, <1>2
    <3>4. Content[k + i] = At((k + i) - 1)
      BY <1>1, <3>3
    <3>5. QED
      BY <1>6, <3>1, <3>2, <3>3, <3>4
  <2>2. QED
    BY <1>3, <1>4, <1>6, <2>1, SeqEqual
<1>9. Log!Entries(batch) = {At(i) : i \in 0..k - 1}
  <2>1. DOMAIN batch = 1..k
    BY <1>7, LenProperties
  <2>2. Log!Entries(batch) = {At(i - 1) : i \in 1..k}
    BY <1>7, <2>1 DEF Log!Entries
  <2>3. \A i \in 0..k - 1 : i + 1 \in 1..k /\ (i + 1) - 1 = i
    BY <1>2
  <2>4. \A i \in 1..k : i - 1 \in 0..k - 1
    BY <1>2
  <2>5. QED
    BY <2>2, <2>3, <2>4
<1>10. QED
  <2>1. Content' = SubSeq(Content, k + 1, Len(Content))
    BY <1>1, <1>8 DEF rest
  <2>2. gone' = gone \cup Log!Entries(SubSeq(Content, 1, k))
    BY <1>3, <1>9 DEF batch
  <2>3. k \in 1..RP_PER_POST /\ k <= Len(Content) /\ top' = top
    BY <1>1, <1>2, <1>3
  <2>4. QED
    BY <2>1, <2>2, <2>3 DEF Log!Take, Log!Working

(* Whatever a reset or the boot does to the ring, what is in it has been   *)
(* captured, has not left, and is there once.                              *)
LEMMA BootRestores ==
  ASSUME RingTypeOK', RingOK', UNCHANGED <<top, gone>>, ~(Running /\ Running')
  PROVE  Log!Restore
<1>1. /\ Content' \in Seq(0..MaxRecords) /\ Len(Content') = count'
      /\ \A i \in 1..count' : Content'[i] = At(i - 1)'
  BY ContentNext
<1>2. DOMAIN Content' = 1..count' /\ count' <= RP_MAX /\ count' \in Nat
  BY <1>1, LenProperties, Sizes DEF RingTypeOK
<1>3. \A i \in 1..count' : i - 1 \in 0..count' - 1
  <2>1. \A k \in Nat : \A j \in 1..k : j - 1 \in 0..k - 1
    OBVIOUS
  <2>2. QED
    BY <1>2, <2>1
<1>4. \A i \in 1..count' : Content'[i] \in (1..top) \ gone
  <2>1. TAKE i \in 1..count'
  <2>2. At(i - 1)' \in Alive'
    BY <1>3 DEF RingOK
  <2>3. QED
    BY <1>1, <2>2 DEF Alive
<1>5. ASSUME NEW i \in 1..count', NEW j \in 1..count', Content'[i] = Content'[j] PROVE i = j
  <2>1. At(i - 1)' = At(j - 1)'
    BY <1>1, <1>5
  <2>2. i - 1 = j - 1
    BY <1>3, <2>1 DEF RingOK
  <2>3. QED
    BY <2>2
<1>6. Log!Entries(Content)' \subseteq (1..top) \ gone
  BY <1>2, <1>4 DEF Log!Entries
<1>7. QED
  BY <1>1, <1>2, <1>5, <1>6 DEF Log!Restore, Log!Working

(* A step that leaves the ring alone.                                      *)
LEMMA RingStutters ==
  ASSUME UNCHANGED <<slot, head, count, top, gone, life>>
  PROVE  LogStep
<1>1. Content' = Content
  BY RingSame
<1>2. QED
  BY <1>1 DEF LogStep, Log!logVars, Running

(* Every step of the program is one of the log, or changes nothing of it.  *)
LEMMA LogSteps ==
  ASSUME IInv, [Next]_vars
  PROVE  LogStep
<1>1. Shape /\ IInv' /\ RingTypeOK /\ RingTypeOK' /\ RingOK /\ RingOK'
  BY StepShape, StepHolds, TypeGroups DEF IInv, RecordsOK
<1>2. ASSUME NEW c \in Causes, Ends(c) PROVE LogStep
  <2>1. life' = "capture" /\ UNCHANGED <<top, gone>>
    BY <1>2 DEF Ends, Restarted, ForgetRing, ringGhosts
  <2>2. QED
    BY <1>1, <2>1, BootRestores DEF LogStep, Log!LogNext, Running
<1>3. CASE Boot
  <2>1. life # "run"
    BY <1>3, BootingStep
  <2>2. UNCHANGED <<top, gone>>
    BY <1>3 DEF Boot, bootReasonCapture, BootLoad, BootRemoveChunk, BootRemoveMeta, BootOverride,
                ringVars, ringGhosts, replayLoad, RemoveChunk, RemoveMeta
  <2>3. QED
    BY <1>1, <2>1, <2>2, BootRestores DEF LogStep, Log!LogNext, Running
<1>4. CASE CloudPass
  <2>1. Running /\ Running'
    BY <1>4 DEF CloudPass, Runs, Running
  <2>2. CASE Capture
    BY <1>1, <2>1, <2>2, CaptureAppends DEF LogStep, Log!LogNext
  <2>3. CASE UNCHANGED ringVars
    BY <1>4, <2>3, RingStutters DEF CloudPass, ringVars, ring, ringGhosts
  <2>4. CASE Post /\ ~UNCHANGED ringVars
    <3>1. PICK k \in 1..Smaller(RP_PER_POST, count) : DropOldest(k)
      BY <2>4 DEF Post
    <3>2. QED
      BY <1>1, <2>1, <3>1, PostTakes DEF LogStep, Log!LogNext
  <2>5. QED
    BY <1>4, <2>2, <2>3, <2>4 DEF CloudPass
<1>5. CASE Works /\ ~CloudPass
  <2>1. UNCHANGED <<ring, ringGhosts>>
    <3>1. CASE Cloud /\ ~LadderResets
      BY <1>5, <3>1 DEF Cloud, LadderMarks, LadderLocks, LadderSavesChunk, LadderSavesMeta,
        LadderSaveFails, SaveChunk, SaveMeta, ringVars
    <3>2. CASE ~(Cloud /\ ~LadderResets)
      BY <1>5, <3>2 DEF Works, Main, MainStarts, MainUnopened, WritesSsid, WritesPass, RemovesSsid,
        RemovesPass, MainPuts, MainMarks, FeederMarks, Tick, Trouble, Wedge, Slow, Returns,
        Goes, ringVars
    <3>3. QED
      BY <3>1, <3>2
  <2>2. QED
    BY <1>5, <2>1, WorkingStep, RingStutters DEF ring, ringGhosts
<1>6. CASE UNCHANGED vars
  BY <1>6, RingStutters DEF vars, ringVars, ring, ringGhosts
<1>7. QED
  BY <1>1, <1>2, <1>3, <1>4, <1>5, <1>6 DEF Shape

(***************************************************************************)
(* The ring through captures, posts, saves, resets at any step and loads   *)
(* is the bounded queue of ReplayLog: no wrap of the head, torn save or    *)
(* half-removed copy reorders it, doubles a record or brings one back.     *)
(***************************************************************************)
THEOREM ImplementsLog == Spec => LogRefined
<1>1. Init => Log!LogInit
  <2> SUFFICES ASSUME Init PROVE Log!LogInit
    OBVIOUS
  <2>1. RingTypeOK /\ count = 0
    BY RingStarts DEF Init, RingInit
  <2>2. Content = <<>>
    <3>1. Content \in Seq(0..MaxRecords) /\ Len(Content) = 0
      BY <2>1, ContentSeq
    <3>2. QED
      BY <3>1, EmptySeq
  <2>3. QED
    BY <2>2 DEF Init, RingInit, Log!LogInit, Running
<1>2. IInv /\ [Next]_vars => [Log!LogNext]_Log!logVars
  <2> SUFFICES ASSUME IInv, [Next]_vars PROVE LogStep
    BY DEF LogStep
  <2>1. QED
    BY LogSteps
<1>3. QED
  BY <1>1, <1>2, Inductive, PTL DEF Spec, LogRefined, Log!LogSpec
=============================================================================
