------------------------------- MODULE Restart -------------------------------
(***************************************************************************)
(* How the gateway restarts, and what survives: the watchdog feeder over   *)
(* the three threads (wd_feeder.h), the one-shot marker that says why      *)
(* (boot_reason.h), the WiFi override written from the web page and the    *)
(* serial console, the saved replay ring, and the boot that reads it all.  *)
(*                                                                         *)
(* A tick is far longer than any step of a thread that is not wedged.  A   *)
(* thread may be slow (a legal long reconnect), or wedged for good at any  *)
(* step and with g_logMutex in its hands; power may go between any two.    *)
(***************************************************************************)
EXTENDS ReplayRing

CONSTANTS
  Short, Long,   \* WD_STALL_GIVEUP_MS and WD_CLOUD_GIVEUP_MS, in ticks
  HwTicks,       \* the hardware watchdog's time-out, in ticks
  MayWedge,      \* bound: the threads that may wedge
  Nets,          \* the networks an override may name
  Budgets        \* bound: how many faults (a wedge, a slow reconnect, a power cut, a
                 \* failing store), saves or clears of the override, and captured records
                 \* may happen together

Events == {"faults", "saves", "records"}

ASSUME WatchAssumption ==
  {Short, Long, HwTicks} \subseteq Nat \ {0} /\ Short < Long
\* A tick is at least a thousandth of a budget, as the feeder's pass of 2 s is: wdFeederLoop
\* compares stalls per mille, and cannot tell one past its budget from one that is on it
\* by less.
ASSUME ResolutionAssumption == Long <= 1000
ASSUME WedgeAssumption == MayWedge \subseteq {"main", "plc", "cloud"}
ASSUME BudgetAssumption == Budgets \subseteq [Events -> Nat]

VARIABLES
  life,          \* the stage of setup(), or "run"
  th, since,     \* how each thread does; ticks since its beat
  logHeld,       \* a wedged thread holds g_logMutex
  kvHeld,        \* the cloud thread holds g_kvMutex, saving
  armed, hw,     \* the hardware watchdog runs; ticks since its last kick
  feed, mainPc, cloudPc, \* where the feeder, main and the cloud thread are
  saving,        \* the chunk the cloud thread saves next
  staged,        \* the network of the pair main is saving
  marker,        \* BOOT_WHY_KEY in the store, None if absent
  ssid, pass,    \* WIFI_KEY_SSID, WIFI_KEY_PASS in the store
  inUse,         \* wifiSsid, wifiPass
  why, cause,    \* s_bootReason: the marker found, and what the register says
  left,          \* what is left of Budget
  decided,       \* ghost: the reset paths decided on in this life
  refused,       \* ghost: a marker of this life could not be written
  before,        \* ghost: decided and refused of the life whose marker is next to be read
  unread,        \* ghost: a boot could not open the store, and its marker is still there
  kept,          \* ghost: the pair last stored whole, Half once one half is another's
  whole,         \* ghost: no write of the running save or clear was refused
  held           \* ghost: the records a clean ladder reset owes to the next life

threads == <<th, since, logHeld, kvHeld, armed, hw>>
pcs     == <<feed, mainPc, cloudPc, saving, staged>>
store   == <<marker, ssid, pass>>
reason  == <<why, cause>>
ghosts  == <<decided, refused, before, unread, kept, whole, held>>
vars == <<ringVars, life, threads, pcs, store, inUse, reason, left, ghosts>>

Threads == {"main", "plc", "cloud"}
Stages  == {"capture", "load", "removeChunks", "removeMeta", "override", "run"}
Causes  == {"power", "software", "watchdog"}
None == "none"
Default == <<None, None>>
Half == <<None>>
Tags == Threads \cup {"ladder", "web", "clear"}

Allowed(t) == IF t = "cloud" THEN Long ELSE Short
Spend(e) == left[e] > 0 /\ left' = [left EXCEPT ![e] = @ - 1]
Running == life = "run"
Runs(t) == Running /\ th[t] = "ok"

\* Everything but a thread's own program counter and what it has just written.
Rest == <<life, threads, inUse, reason, before, unread>>

-----------------------------------------------------------------------------
(* Resets.                                                                 *)

\* Memory goes, the store stays.
Restarted(c) ==
  /\ life' = "capture" /\ cause' = c
  /\ ForgetRing
  /\ th' = [t \in Threads |-> "ok"] /\ since' = [t \in Threads |-> 0]
  /\ logHeld' = FALSE /\ kvHeld' = FALSE /\ armed' = FALSE /\ hw' = 0
  /\ feed' = "watch" /\ mainPc' = "loop" /\ cloudPc' = "loop" /\ saving' = 0
  /\ staged' = None /\ whole' = TRUE
  /\ inUse' = Default /\ why' = None
  /\ before' = IF life = "capture" THEN before ELSE [decided |-> decided, refused |-> refused]
  /\ decided' = {} /\ refused' = FALSE
  /\ UNCHANGED <<store, unread, kept>>

PowerCut ==
  /\ Spend("faults")
  /\ Restarted("power")
  /\ held' = <<>>

-----------------------------------------------------------------------------
(* The boot, stage by stage.  Nothing watches it.                          *)

BootStage(from, to) ==
  /\ life = from /\ life' = to
  /\ UNCHANGED <<threads, pcs, ssid, pass, decided, refused, kept, whole>>

\* The boot of a life whose reason has been told.
Told == [decided |-> {}, refused |-> FALSE]

\* bootReasonCapture: the marker is consumed, once.
bootReasonCapture ==
  /\ BootStage("capture", "load")
  /\ \/ why' = marker /\ marker' = None /\ UNCHANGED <<left, unread>>
     \/ Spend("faults") /\ unread' = TRUE /\ UNCHANGED <<why, marker>>
  /\ UNCHANGED <<ringVars, inUse, cause, before, held>>

BootLoad ==
  /\ \/ BootStage("load", IF meta > 0 THEN "removeChunks" ELSE "override")
        /\ replayLoad /\ UNCHANGED <<left, unread, held>>
     \/ BootStage("load", "override") /\ Spend("faults")
        /\ held' = <<>> /\ UNCHANGED <<ringVars, unread>>
  /\ UNCHANGED <<marker, reason, before, inUse>>

BootRemoveChunk ==
  /\ BootStage("removeChunks", "removeChunks")
  /\ \E c \in Chunks :
       /\ c * RP_CHUNK_RECS < count /\ chunk[c] # <<>>
       /\ \A d \in Chunks : d < c => chunk[d] = <<>>
       /\ RemoveChunk(c)
  /\ UNCHANGED <<marker, reason, before, inUse, left, unread, held>>

BootRemoveMeta ==
  /\ BootStage("removeChunks", "override")
  /\ \A c \in Chunks : c * RP_CHUNK_RECS < count => chunk[c] = <<>>
  /\ RemoveMeta
  /\ UNCHANGED <<marker, reason, before, inUse, left, unread, held>>

\* loadWifiConfig: the stored pair, or the built-in one where no SSID is stored.  A
\* store that fails gives the built-in pair, or the SSID without its password.
\* bootReasonLog has told the reason by then; nothing changes it in this life, so
\* it leaves the state.
BootOverride ==
  /\ BootStage("override", "run")
  /\ \/ inUse' = (IF ssid = None THEN Default ELSE <<ssid, pass>>) /\ UNCHANGED left
     \/ Spend("faults") /\ inUse' \in {Default, IF ssid = None THEN Default ELSE <<ssid, None>>}
  /\ unread' = (unread /\ marker # None)
  /\ why' = None /\ cause' = None /\ before' = Told
  /\ held' = <<>>
  /\ UNCHANGED <<ringVars, marker>>

-----------------------------------------------------------------------------
(* Markers, resets and what the threads write before them.                 *)

\* bootMarkIntentional: a bounded wait for g_kvMutex, then the marker.
bootMarkIntentional(tag, truth) ==
  /\ decided' = decided \cup truth
  /\ \/ ~kvHeld /\ marker' = tag /\ UNCHANGED <<refused, left>>
     \/ kvHeld /\ refused' = TRUE /\ UNCHANGED <<marker, left>>
     \/ Spend("faults") /\ refused' = TRUE /\ UNCHANGED marker

\* It logs what it did before it returns, and so does the feeder.
LogFree == ~logHeld

\* The web page and the serial console: save, or clear, then reset.
MainStarts ==
  /\ Runs("main") /\ mainPc = "loop" /\ Spend("saves")
  /\ \/ mainPc' = "ssid" /\ staged' \in Nets
     \/ mainPc' = "unssid" /\ UNCHANGED staged
  /\ whole' = TRUE
  /\ UNCHANGED <<ringVars, Rest, feed, cloudPc, saving, store, decided, refused, kept, held>>

\* The store does not open: the page says so, the console resets all the same.
MainUnopened ==
  /\ Runs("main") /\ mainPc = "loop"
  /\ left["saves"] > 0 /\ left["faults"] > 0
  /\ left' = [left EXCEPT !["saves"] = @ - 1, !["faults"] = @ - 1]
  /\ \/ mainPc' = "web" /\ staged' \in Nets
     \/ mainPc' \in {"loop", "clear"} /\ UNCHANGED staged
  /\ UNCHANGED <<ringVars, Rest, feed, cloudPc, saving, store, decided, refused, kept, whole,
                 held>>

\* A write to the store, or its refusal, which nobody looks at.
MainPuts(from, to, newSsid, newPass, newKept) ==
  /\ Runs("main") /\ mainPc = from /\ mainPc' = to
  /\ \/ ssid' = newSsid /\ pass' = newPass /\ kept' = newKept /\ UNCHANGED <<whole, left>>
     \/ Spend("faults") /\ whole' = FALSE /\ UNCHANGED <<ssid, pass, kept>>
  /\ UNCHANGED <<ringVars, Rest, feed, cloudPc, saving, staged, marker, decided, refused, held>>

\* Of a password written or removed alone: without an SSID in the store it counts for
\* nothing, beside another's it makes half a pair.
Lone == IF kept = Default THEN Default ELSE Half
Saved == IF whole THEN <<staged, staged>> ELSE Lone

\* Mutant: the password is left as it was.
WritesPassNot == MainPuts("pass", "web", ssid, pass, Saved)

WritesSsid == MainPuts("ssid", "pass", staged, pass, Half)
WritesPass == MainPuts("pass", "web", ssid, staged, Saved)
RemovesSsid == MainPuts("unssid", "unpass", None, pass, Default)
RemovesPass == MainPuts("unpass", "clear", ssid, None, Lone)

\* Both tell in the log that it is done, before the marker.
MainMarks ==
  /\ Runs("main") /\ mainPc \in {"web", "clear"} /\ LogFree
  /\ bootMarkIntentional(mainPc, {mainPc})
  /\ mainPc' = "reset"
  /\ UNCHANGED <<ringVars, Rest, feed, cloudPc, saving, staged, ssid, pass, kept, whole, held>>

MainResets ==
  /\ Runs("main") /\ mainPc = "reset" /\ LogFree
  /\ Restarted("software")
  /\ held' = <<>>
  /\ UNCHANGED left

\* A pass of the cloud thread: update() arms the hardware watchdog; the ring
\* takes a record or posts a batch.
CloudPass ==
  /\ Runs("cloud") /\ cloudPc = "loop" /\ LogFree
  /\ armed' = TRUE
  /\ \/ Capture /\ Spend("records")
     \/ (Post \/ UNCHANGED ringVars) /\ UNCHANGED left
  /\ UNCHANGED <<life, th, since, logHeld, kvHeld, hw, pcs, store, inUse, reason, ghosts>>

CloudStep(from, targets) ==
  /\ Runs("cloud") /\ cloudPc = from /\ cloudPc' \in targets
  /\ UNCHANGED <<life, th, since, logHeld, armed, hw, inUse, reason, before, unread, kept, whole,
                 feed, mainPc, staged, ssid, pass>>

\* The ladder decides on a reset: the marker, then, with no word in the log, the
\* ring, then the reset.
LadderMarks ==
  /\ CloudStep("loop", {"marked"})
  /\ armed
  /\ bootMarkIntentional("ladder", {"ladder"})
  /\ UNCHANGED <<ringVars, kvHeld, saving, held>>

LadderLocks ==
  /\ CloudStep("marked", IF count = 0 THEN {"reset"} ELSE {"save"}) /\ LogFree
  /\ kvHeld' = (count > 0)
  /\ UNCHANGED <<ringVars, marker, saving, left, decided, refused, held>>

\* replayPersist: chunk by chunk, then the count; a write that fails ends it.
LadderSavesChunk ==
  /\ CloudStep("save", IF saving < LastChunk THEN {"save"} ELSE {"meta"})
  /\ SaveChunk(saving)
  /\ saving' = (IF saving < LastChunk THEN saving + 1 ELSE 0)
  /\ UNCHANGED <<kvHeld, marker, left, decided, refused, held>>

LadderSavesMeta ==
  /\ CloudStep("meta", {"reset"})
  /\ SaveMeta
  /\ kvHeld' = FALSE
  /\ held' = Content
  /\ UNCHANGED <<marker, saving, left, decided, refused>>

LadderSaveFails ==
  /\ CloudStep(cloudPc, {"reset"}) /\ cloudPc \in {"save", "meta"}
  /\ Spend("faults")
  /\ kvHeld' = FALSE /\ saving' = 0
  /\ UNCHANGED <<ringVars, marker, decided, refused, held>>

LadderResets ==
  /\ Runs("cloud") /\ cloudPc = "reset"
  /\ Restarted("software")
  /\ UNCHANGED <<left, held>>

-----------------------------------------------------------------------------
(* Wedges, time, and the feeder.                                           *)

Goes(t, how) ==
  /\ Runs(t) /\ th' = [th EXCEPT ![t] = how]
  /\ UNCHANGED <<ringVars, life, since, kvHeld, armed, hw, pcs, store, inUse, reason, ghosts>>

Wedge(t) ==
  /\ Spend("faults")
  /\ Goes(t, "stuck")
  /\ logHeld' \in {logHeld, TRUE}

\* A reconnect of the cloud thread that takes longer than a tick.
Slow ==
  /\ cloudPc = "loop"
  /\ Spend("faults")
  /\ Goes("cloud", "slow")
  /\ UNCHANGED logHeld

Returns ==
  /\ Running /\ th["cloud"] = "slow" /\ th' = [th EXCEPT !["cloud"] = "ok"]
  /\ UNCHANGED <<ringVars, life, since, logHeld, kvHeld, armed, hw, pcs, store, inUse, reason,
                 left, ghosts>>

\* Mutant: the cloud thread is not watched.
OverBudgetButCloud == {t \in {"main", "plc"} : since[t] > Allowed(t)}

OverBudget == {t \in Threads : since[t] > Allowed(t)}

\* Mutant: the largest stall is blamed, whatever its budget.
BlameLongest ==
  CHOOSE t \in Threads : \A u \in Threads : since[u] <= since[t]

\* The thread furthest past its own budget, in per mille; of equals the first.
Ratio(t) == (since[t] * 1000) \div Allowed(t)
Blame ==
  IF Ratio("plc") > Ratio("main")
  THEN IF Ratio("cloud") > Ratio("plc") THEN "cloud" ELSE "plc"
  ELSE IF Ratio("cloud") > Ratio("main") THEN "cloud" ELSE "main"

\* A thread beats unless it is wedged, slow or waiting; the heartbeat line of the
\* cloud thread waits for g_logMutex in every tick.
Waiting(t) == LogFree = FALSE /\ \/ t = "cloud" /\ cloudPc \in {"loop", "marked"}
                                 \/ t = "main" /\ mainPc \in {"web", "clear", "reset"}
Beats(t) == th[t] = "ok" /\ ~Waiting(t)
Idle(t) == \/ t = "plc"
           \/ t = "main" /\ mainPc = "loop"
           \/ t = "cloud" /\ cloudPc = "loop"

\* The feeder kicks until it gives up, the library inside every update().
Kicked == feed = "watch" \/ Beats("cloud")

\* One tick: the steps of every thread that can move are over.
Tick ==
  /\ Running /\ hw < HwTicks
  /\ \A t \in Threads : Beats(t) => Idle(t)
  /\ feed = "watch" \/ (feed = "log" /\ ~LogFree)
  /\ since' = [t \in Threads |-> IF Beats(t) THEN 0 ELSE Smaller(since[t] + 1, Allowed(t) + 1)]
  /\ IF armed /\ feed = "watch" /\ OverBudget' # {} THEN feed' = "mark" ELSE UNCHANGED feed
  /\ hw' = IF ~armed \/ Kicked THEN 0 ELSE Smaller(hw + 1, HwTicks)
  /\ UNCHANGED <<ringVars, life, th, logHeld, kvHeld, armed, mainPc, cloudPc, saving, staged, store,
                 inUse, reason, left, ghosts>>

FeederMarks ==
  /\ Running /\ feed = "mark"
  /\ bootMarkIntentional(Blame, OverBudget)
  /\ feed' = "log"
  /\ UNCHANGED <<ringVars, Rest, mainPc, cloudPc, saving, staged, ssid, pass, kept, whole, held>>

FeederResets ==
  /\ Running /\ feed = "log" /\ LogFree
  /\ Restarted("software")
  /\ held' = <<>>
  /\ UNCHANGED left

HardwareResets ==
  /\ Running /\ hw = HwTicks
  /\ Restarted("watchdog")
  /\ held' = <<>>
  /\ UNCHANGED left

-----------------------------------------------------------------------------
Init ==
  /\ RingInit
  /\ life = "run"
  /\ th = [t \in Threads |-> "ok"] /\ since = [t \in Threads |-> 0]
  /\ logHeld = FALSE /\ kvHeld = FALSE /\ armed = FALSE /\ hw = 0
  /\ feed = "watch" /\ mainPc = "loop" /\ cloudPc = "loop" /\ saving = 0
  /\ staged = None
  /\ marker = None /\ ssid = None /\ pass = None /\ inUse = Default
  /\ why = None /\ cause = None
  /\ left \in Budgets
  /\ decided = {} /\ refused = FALSE
  /\ before = Told
  /\ unread = FALSE /\ kept = Default /\ whole = TRUE /\ held = <<>>

Boot == bootReasonCapture \/ BootLoad \/ BootRemoveChunk \/ BootRemoveMeta \/ BootOverride
Main == \/ MainStarts \/ MainUnopened \/ WritesSsid \/ WritesPass \/ RemovesSsid \/ RemovesPass
        \/ MainMarks \/ MainResets
Cloud == \/ CloudPass \/ LadderMarks \/ LadderLocks \/ LadderSavesChunk
         \/ LadderSavesMeta \/ LadderSaveFails \/ LadderResets
Feeder == FeederMarks \/ FeederResets
Trouble == (\E t \in MayWedge : Wedge(t)) \/ Slow \/ Returns

Next == Boot \/ Main \/ Cloud \/ Feeder \/ Tick \/ HardwareResets \/ Trouble \/ PowerCut
Spec == Init /\ [][Next]_vars

\* Something that can move moves, or time passes.  Nobody owes a save, a capture, a
\* post or the ladder's decision.
Moves == \/ Boot \/ Feeder \/ HardwareResets \/ Tick
         \/ (Main /\ mainPc # "loop") \/ (Cloud /\ cloudPc # "loop")
FairSpec == Spec /\ WF_vars(Moves)

-----------------------------------------------------------------------------
TypeOK ==
  /\ RingTypeOK
  /\ life \in Stages
  /\ th \in [Threads -> {"ok", "slow", "stuck"}] /\ since \in [Threads -> 0..Long + 1]
  /\ logHeld \in BOOLEAN /\ kvHeld \in BOOLEAN /\ armed \in BOOLEAN /\ hw \in 0..HwTicks
  /\ feed \in {"watch", "mark", "log"}
  /\ mainPc \in {"loop", "ssid", "pass", "unssid", "unpass", "web", "clear", "reset"}
  /\ cloudPc \in {"loop", "marked", "save", "meta", "reset"} /\ saving \in Chunks
  /\ marker \in Tags \cup {None} /\ why \in Tags \cup {None} /\ cause \in Causes \cup {None}
  /\ ssid \in Nets \cup {None} /\ pass \in Nets \cup {None}
  /\ left \in [Events -> Nat]
  /\ decided \subseteq Tags /\ before \in [decided : SUBSET Tags, refused : BOOLEAN]
  /\ refused \in BOOLEAN /\ unread \in BOOLEAN
  /\ staged \in Nets \cup {None} /\ whole \in BOOLEAN
  /\ kept \in {Default, Half} \cup {<<n, n>> : n \in Nets}

\* The marker found at a boot names a path that did decide on a reset in the life
\* that ended, a thread only if it was over its own budget; and a reset that was not
\* the power's goes unnamed only if its marker was refused.
NamedTruly ==
  life \notin {"capture", "run"} /\ ~unread =>
    /\ why # None => why \in before.decided
    /\ why = None /\ cause # "power" => before.refused

\* A boot runs on the pair last stored whole, or on the built-in one after a clear,
\* whatever saves and clears were cut short or half refused since, as long as they left
\* no half of theirs beside a half of it; a boot the store fails runs without that
\* password, or on the built-in pair, never on another's.
PairKept ==
  [][life = "override" /\ life' = "run" /\ kept # Half
     => IF left' = left THEN inUse' = kept
        ELSE inUse' \in {kept, Default, <<kept[1], None>>}]_vars

\* A ladder reset whose save succeeded hands the ring over whole and in order.
CleanResetKeeps ==
  life \in {"removeChunks", "override"} /\ held # <<>> => Content = held

\* The ring, its saved copy and every restart behave like a bounded queue that
\* loses the oldest when full and never gives back a record that has left it.
Log == INSTANCE ReplayLog WITH Cap <- RP_MAX, PerPost <- RP_PER_POST, queue <- Content,
                               on <- Running
LogRefined == Log!LogSpec

\* A wedged thread ends in a reset once the watchdog is armed, even one that holds
\* the log's mutex, for which the feeder itself waits.
WedgeEndsInReset == (armed /\ \E t \in Threads : th[t] = "stuck") ~> (life = "capture")
=============================================================================
