------------------------------ MODULE CloudLink ------------------------------
(***************************************************************************)
(* How the cloud thread keeps the uplink: the knock that gates the cloud   *)
(* library (cloud_probe.h), the offline ladder and the no-SYNC guard       *)
(* (cloud_ladder.h) and the scan-free rescue of the association.           *)
(*                                                                         *)
(* One pass of the thread is gate, update, ladder, rescue, and takes one   *)
(* tick; the access point, the uplink, the broker's node and the library's *)
(* own health change between any two of those steps.  A duration counts    *)
(* ticks, None stands for the code's 0 ("not running"), and every duration *)
(* stops counting at the largest value the code compares it with.          *)
(***************************************************************************)
EXTENDS Integers

CONSTANTS
  NegCache,       \* CLOUD_DNS_NEG_CACHE_MS
  AddrTtl,        \* CLOUD_DNS_TTL_MS
  Reresolve,      \* CLOUD_PROBE_FAIL_RERESOLVE, a number of knocks
  OpenAfter,      \* CLOUD_FAILOPEN_AFTER_MS
  OpenEvery,      \* CLOUD_FAILOPEN_PERIOD_MS
  Settle,         \* CLOUD_LADDER_WIFI_SETTLE_MS
  Reassoc1, Reassoc2, Evidence, Ceiling, \* the rungs of the ladder
  Window,         \* CLOUD_LADDER_PROBE_WINDOW_MS
  Grace,          \* CLOUD_LADDER_LEDGER_GRACE_MS
  NoSync,         \* CLOUD_LADDER_NOSYNC_MS
  RescueEvery,    \* WIFI_FORCE_MS
  Budget          \* how often each environment event may happen

Events == {"outside", "faults"}

ASSUME PeriodsAssumption ==
  /\ {NegCache, AddrTtl, Reresolve, OpenAfter, OpenEvery, RescueEvery, Settle,
      Window, Grace, NoSync} \subseteq Nat \ {0}
  /\ {Reassoc1, Reassoc2, Evidence, Ceiling} \subseteq Nat
  /\ OpenAfter < Settle /\ OpenEvery < Settle
  /\ Settle <= Reassoc1 /\ Reassoc1 < Reassoc2
  /\ Reassoc2 < Evidence /\ Evidence < Ceiling
ASSUME BudgetAssumption == Budget \in [Events -> Nat]

None == -1
Long == Ceiling + Grace + 2

VARIABLES
  ap, path,       \* the access point is on; the uplink behind it
  fault,          \* what ails the library or the radio, see Faults
  wifi,           \* WiFi.status() == WL_CONNECTED
  lib, cloud,     \* the library's state machine; ArduinoCloud.connected()
  sync,           \* s_syncSeen
  addr, addrAge,  \* s_brokerAddr as the broker's node stands; its age
  dnsFail,        \* since s_dnsFailMs
  streak,         \* s_probeFailStreak
  okAge,          \* since s_lastProbeOkMs; Window if never
  failFor,        \* since s_probeFailSince
  openAge,        \* since s_lastFailOpen
  off, wifiFor,   \* since s_ldOfflineSince, s_ldWifiUpSince
  armed,          \* since s_ldResetArmedAt
  reassocs,       \* s_ldReassocDone
  upFor,          \* since s_ldCloudUpSince
  kicked, syncWas, \* s_ldNoSyncKicked, s_ldSyncWasSeen
  tried,          \* since wifiRescue's lastTry
  pc,             \* the step of the pass
  left,           \* what is left of Budget
  shut,           \* ghost: passes in a row that refused update()
  settled,        \* ghost: the radio has settled since the cloud was last up
  ownAge,         \* ghost: since the first re-association of the outage
  unsynced        \* ghost: ticks this connection has gone without SYNC

world  == <<ap, path, fault>>
link   == <<wifi, lib, cloud, sync>>
knock  == <<addr, addrAge, dnsFail, streak, okAge, failFor, openAge>>
ladder == <<off, wifiFor, armed, reassocs, upFor, kicked, syncWas>>
ghosts == <<shut, settled, ownAge, unsynced>>
vars == <<world, link, knock, ladder, tried, pc, left, ghosts>>

\* "filtered": the library gets through, the knock's port does not.
Paths  == {"up", "filtered", "down"}
\* "session" is cured by a new association, "stuck" by a reset only, and with
\* "radio" the radio does not associate again before a reset.
Faults == {"none", "session", "stuck", "radio"}

Spend(e) == left[e] > 0 /\ left' = [left EXCEPT ![e] = @ - 1]
Longer(age, bound) == IF age \in {None, bound} THEN age ELSE age + 1

-----------------------------------------------------------------------------
(* The world outside the board.                                            *)

AccessPoint ==
  /\ Spend("outside")
  /\ ap' = ~ap
  /\ wifi' = (wifi /\ ap') /\ cloud' = (cloud /\ ap')
  /\ UNCHANGED <<path, fault, lib, sync, knock, ladder, tried, pc, ghosts>>

Uplink ==
  /\ Spend("outside")
  /\ path' \in Paths \ {path}
  /\ UNCHANGED <<ap, fault, link, knock, ladder, tried, pc, ghosts>>

\* The broker's name is a load balancer: the node behind the cached address goes.
NodeGone ==
  /\ addr = "live" /\ Spend("outside")
  /\ addr' = "gone"
  /\ UNCHANGED <<world, link, addrAge, dnsFail, streak, okAge, failFor, openAge,
                 ladder, tried, pc, ghosts>>

LibraryFails ==
  /\ fault = "none" /\ Spend("faults")
  /\ fault' \in {"session", "stuck"}
  /\ cloud' = FALSE
  /\ UNCHANGED <<ap, path, wifi, lib, sync, knock, ladder, tried, pc, ghosts>>

-----------------------------------------------------------------------------
(* The gate.                                                               *)

Stale == addr # "none" /\ (addrAge = AddrTtl \/ streak = Reresolve)
Asks  == (addr = "none" \/ Stale) /\ dnsFail \in {None, NegCache}
Found == Asks /\ path # "down"

\* One bounded knock: a lookup where the address is missing or stale, and a
\* connection to whatever address there is.  A failed lookup keeps the address.
cloudProbeOnce(ok) ==
  /\ addr' = IF Found THEN "live" ELSE addr
  /\ addrAge' = IF Found THEN 0 ELSE addrAge
  /\ dnsFail' = IF ~Asks THEN dnsFail ELSE IF Found THEN None ELSE 0
  /\ ok = (addr' = "live" /\ path = "up")
  /\ LET runs == IF Found /\ Stale THEN 0 ELSE streak IN
     streak' = IF addr' = "none" THEN streak
               ELSE IF ok THEN 0 ELSE IF runs < Reresolve THEN runs + 1 ELSE runs

\* Mutant: each refusal restarts the minute.
RefusedAgain == /\ failFor' = 0
                /\ okAge' = okAge

Refused == /\ failFor' = IF failFor = None THEN 0 ELSE failFor
           /\ okAge' = okAge

GateConnected ==
  /\ pc = "gate" /\ cloud
  /\ failFor' = None /\ streak' = 0 /\ shut' = 0
  /\ pc' = "update"
  /\ UNCHANGED <<world, link, addr, addrAge, dnsFail, okAge, openAge, ladder, tried, left,
                 settled, ownAge, unsynced>>

\* The radio is down: update() is what associates it again.
GateRadioDown ==
  /\ pc = "gate" /\ ~cloud /\ ~wifi
  /\ pc' = "update" /\ shut' = 0
  /\ UNCHANGED <<world, link, knock, ladder, tried, left, settled, ownAge, unsynced>>

GateLanded ==
  /\ pc = "gate" /\ ~cloud /\ wifi
  /\ cloudProbeOnce(TRUE)
  /\ failFor' = None /\ okAge' = 0
  /\ pc' = "update" /\ shut' = 0
  /\ UNCHANGED <<world, link, openAge, ladder, tried, left, settled, ownAge, unsynced>>

\* Refused for a while, so the knock itself may be what is wrong: fail open.
GateRefused ==
  /\ pc = "gate" /\ ~cloud /\ wifi
  /\ cloudProbeOnce(FALSE)
  /\ Refused
  /\ LET opens == failFor' = OpenAfter /\ openAge = OpenEvery IN
     /\ openAge' = IF opens THEN 0 ELSE openAge
     /\ pc' = IF opens THEN "update" ELSE "ladder"
     /\ shut' = IF opens THEN 0 ELSE shut + 1
  /\ UNCHANGED <<world, link, ladder, tried, left, settled, ownAge, unsynced>>

-----------------------------------------------------------------------------
(* ArduinoCloud.update(): one step of the library's state machine.         *)

Associable == ap /\ fault # "radio"

UpdateRadio ==
  /\ pc = "update" /\ ~wifi
  /\ wifi' \in {FALSE, Associable}
  /\ lib' = "seeking" /\ sync' = FALSE
  /\ pc' = "ladder"
  /\ UNCHANGED <<world, cloud, knock, ladder, tried, left, ghosts>>

\* A lost connection is noticed by one call and made anew by a later one.
UpdateLost ==
  /\ pc = "update" /\ wifi /\ lib = "attached" /\ ~cloud
  /\ lib' = "seeking" /\ sync' = FALSE
  /\ pc' = "ladder"
  /\ UNCHANGED <<world, wifi, cloud, knock, ladder, tried, left, ghosts>>

UpdateConnect ==
  /\ pc = "update" /\ wifi /\ lib = "seeking"
  /\ cloud' \in {FALSE, path # "down" /\ fault \notin {"session", "stuck"}}
  /\ lib' = IF cloud' THEN "attached" ELSE lib
  /\ pc' = "ladder"
  /\ UNCHANGED <<world, wifi, sync, knock, ladder, tried, left, ghosts>>

\* Attached: SYNC may arrive, the keepalive may fail on a dead uplink, and the
\* thing may be detached with the connection up.
UpdateAttached ==
  /\ pc = "update" /\ wifi /\ lib = "attached" /\ cloud
  /\ \/ sync' = TRUE /\ UNCHANGED <<cloud, left>>
     \/ UNCHANGED <<cloud, sync, left>>
     \/ path = "down" /\ cloud' = FALSE /\ UNCHANGED <<sync, left>>
     \/ sync /\ Spend("faults") /\ sync' = FALSE /\ UNCHANGED cloud
  /\ pc' = "ladder"
  /\ UNCHANGED <<world, wifi, lib, knock, ladder, tried, ghosts>>

-----------------------------------------------------------------------------
(* The ladder.                                                             *)

\* WiFi.disconnect(): cures a stale session; the radio may stay down after it.
Disconnect ==
  /\ wifi' = FALSE /\ cloud' = FALSE
  /\ \/ fault' = (IF fault = "session" THEN "none" ELSE fault) /\ UNCHANGED left
     \/ fault' = "radio" /\ Spend("faults")

wifiSince == IF ~wifi THEN None ELSE IF wifiFor = None THEN 0 ELSE wifiFor
wifiSettled == wifiSince = Settle

\* Mutant: the episode ends, its re-associations are kept.
EpisodeEndsKeep ==
  /\ off' = None /\ armed' = None
  /\ UNCHANGED reassocs
  /\ settled' = FALSE /\ ownAge' = None

EpisodeEnds ==
  /\ off' = None /\ armed' = None
  /\ reassocs' = 0
  /\ settled' = FALSE /\ ownAge' = None

\* Mutant: a SYNC lost with the connection up does not restart the wait.
UpSinceFirst == IF upFor = None THEN 0 ELSE upFor

UpSince == IF upFor = None \/ (syncWas /\ ~sync) THEN 0 ELSE upFor

\* The cloud is up: the episode is over; attached for long without SYNC, the
\* association is dropped, once per connection.
LadderUp ==
  /\ pc = "ladder" /\ cloud
  /\ EpisodeEnds
  /\ wifiFor' = wifiSince
  /\ upFor' = UpSince /\ syncWas' = sync
  /\ LET before == upFor # None /\ kicked
         kick   == ~sync /\ ~before /\ UpSince = NoSync IN
     /\ kicked' = (before \/ kick)
     /\ IF kick THEN Disconnect ELSE UNCHANGED <<wifi, cloud, fault, left>>
  /\ pc' = "rescue"
  /\ UNCHANGED <<ap, path, lib, sync, knock, tried, shut, unsynced>>

LadderDown ==
  /\ pc = "ladder" /\ ~cloud
  /\ wifiFor' = wifiSince /\ upFor' = None /\ syncWas' = FALSE
  /\ settled' = (settled \/ wifiSettled)
  /\ UNCHANGED kicked

EpisodeBegins ==
  /\ LadderDown /\ off = None
  /\ off' = 0
  /\ pc' = "rescue"
  /\ UNCHANGED <<world, link, knock, armed, reassocs, tried, left, shut, ownAge, unsynced>>

\* Mutant: the ceiling, too, needs a settled radio.
ceilingSettled == off >= Ceiling /\ wifiSettled

ceiling == off >= Ceiling /\ (wifiSettled \/ reassocs > 0)

\* Mutant: the second rung is taken again and again.
reassocDueAgain == wifiSettled /\ \/ reassocs = 0 /\ off >= Reassoc1
                                  \/ reassocs >= 1 /\ off >= Reassoc2

reassocDue == wifiSettled /\ \/ reassocs = 0 /\ off >= Reassoc1
                             \/ reassocs = 1 /\ off >= Reassoc2

\* Mutant: no reset without the evidence of a knock.
resetDueProven == wifiSettled /\ off >= Evidence /\ okAge < Window

resetDue == ceiling \/ (wifiSettled /\ off >= Evidence /\ okAge < Window)
resting == ~wifiSettled /\ ~ceiling

\* Nothing acts on a radio that is down or has only just come up.
LadderRests ==
  /\ LadderDown /\ off # None /\ resting
  /\ pc' = "rescue"
  /\ UNCHANGED <<world, link, knock, off, armed, reassocs, tried, left, shut, ownAge, unsynced>>

LadderReassoc ==
  /\ LadderDown /\ off # None /\ reassocDue
  /\ Disconnect
  /\ reassocs' = reassocs + 1
  /\ ownAge' = IF ownAge = None THEN 0 ELSE ownAge
  /\ pc' = "rescue"
  /\ UNCHANGED <<ap, path, lib, sync, knock, off, armed, tried, shut, unsynced>>

LadderNotDue ==
  /\ LadderDown /\ off # None /\ ~resting /\ ~reassocDue /\ ~resetDue
  /\ armed' = None
  /\ pc' = "rescue"
  /\ UNCHANGED <<world, link, knock, off, reassocs, tried, left, shut, ownAge, unsynced>>

Due == LadderDown /\ off # None /\ ~resting /\ ~reassocDue /\ resetDue

\* Water is still owed to the PLC: the reset waits for it, but not for ever.
LadderWaits ==
  /\ Due /\ armed # Grace
  /\ armed' = IF armed = None THEN 0 ELSE armed
  /\ pc' = "rescue"
  /\ UNCHANGED <<world, link, knock, off, reassocs, tried, left, shut, ownAge, unsynced>>

RadioOff == wifi' = FALSE /\ cloud' = FALSE /\ lib' = "seeking" /\ sync' = FALSE
Blank ==
  /\ addr' = "none" /\ addrAge' = 0 /\ dnsFail' = None /\ streak' = 0
  /\ okAge' = Window /\ failFor' = None /\ openAge' = OpenEvery
  /\ off' = None /\ wifiFor' = None /\ armed' = None /\ reassocs' = 0
  /\ upFor' = None /\ kicked' = FALSE /\ syncWas' = FALSE
  /\ tried' = None /\ pc' = "gate"
  /\ shut' = 0 /\ settled' = FALSE /\ ownAge' = None /\ unsynced' = 0

\* NVIC_SystemReset after the markers: every static starts over.
LadderReset ==
  /\ pc = "ladder" /\ ~cloud /\ off # None /\ ~resting /\ ~reassocDue /\ resetDue
  /\ RadioOff /\ Blank
  /\ fault' = "none"
  /\ UNCHANGED <<ap, path, left>>

-----------------------------------------------------------------------------
(* The rescue, and the end of the pass.                                    *)

Time ==
  /\ addrAge' = IF addr = "none" THEN addrAge ELSE Longer(addrAge, AddrTtl)
  /\ dnsFail' = Longer(dnsFail, NegCache)
  /\ okAge' = Longer(okAge, Window)
  /\ failFor' = Longer(failFor, OpenAfter)
  /\ openAge' = Longer(openAge, OpenEvery)
  /\ off' = Longer(off, Long)
  /\ wifiFor' = Longer(wifiFor, Settle)
  /\ armed' = Longer(armed, Grace)
  /\ upFor' = Longer(upFor, NoSync)
  /\ ownAge' = Longer(ownAge, Grace + 3)
  /\ unsynced' = IF cloud /\ ~sync THEN Longer(unsynced, NoSync) ELSE 0

\* wifiRescue: a scan-free WiFi.begin, rate-limited while the radio is down.
wifiRescue ==
  /\ pc = "rescue"
  /\ LET tries == ~wifi /\ tried \in {None, RescueEvery} IN
     /\ wifi' \in IF tries THEN {FALSE, Associable} ELSE {wifi}
     /\ tried' = IF wifi THEN None ELSE IF tries THEN 1 ELSE Longer(tried, RescueEvery)
  /\ Time
  /\ pc' = "gate"
  /\ UNCHANGED <<world, lib, cloud, sync, addr, streak, reassocs, kicked, syncWas, left,
                 shut, settled>>

-----------------------------------------------------------------------------
Init ==
  /\ ap = TRUE /\ path = "up" /\ fault = "none"
  /\ wifi = FALSE /\ lib = "seeking" /\ cloud = FALSE /\ sync = FALSE
  /\ addr = "none" /\ addrAge = 0 /\ dnsFail = None /\ streak = 0
  /\ okAge = Window /\ failFor = None /\ openAge = OpenEvery
  /\ off = None /\ wifiFor = None /\ armed = None /\ reassocs = 0
  /\ upFor = None /\ kicked = FALSE /\ syncWas = FALSE
  /\ tried = None /\ pc = "gate"
  /\ left = Budget
  /\ shut = 0 /\ settled = FALSE /\ ownAge = None /\ unsynced = 0

Outside == AccessPoint \/ Uplink \/ NodeGone \/ LibraryFails
Update == UpdateRadio \/ UpdateLost \/ UpdateConnect \/ UpdateAttached
Ladder ==
  \/ LadderUp \/ EpisodeBegins \/ LadderRests \/ LadderReassoc
  \/ LadderNotDue \/ LadderWaits \/ LadderReset
Pass == GateConnected \/ GateRadioDown \/ GateLanded \/ GateRefused
        \/ Update \/ Ladder \/ wifiRescue

Next == Pass \/ Outside
Spec == Init /\ [][Next]_vars

\* The thread's loop never ends.  An access point that is on is joined some time
\* if it is tried for ever, and a broker that is reachable is reached.
Fairness ==
  /\ WF_vars(Pass)
  /\ SF_vars(wifiRescue /\ wifi' /\ ~wifi)
  /\ SF_vars(UpdateConnect /\ cloud')
FairSpec == Spec /\ Fairness

-----------------------------------------------------------------------------
TypeOK ==
  /\ ap \in BOOLEAN /\ path \in Paths /\ fault \in Faults
  /\ wifi \in BOOLEAN /\ cloud \in BOOLEAN /\ sync \in BOOLEAN
  /\ lib \in {"seeking", "attached"}
  /\ addr \in {"none", "live", "gone"} /\ addrAge \in 0..AddrTtl
  /\ dnsFail \in None..NegCache /\ streak \in 0..Reresolve
  /\ okAge \in 0..Window /\ failFor \in None..OpenAfter /\ openAge \in 0..OpenEvery
  /\ off \in None..Long /\ wifiFor \in None..Settle /\ armed \in None..Grace
  /\ reassocs \in 0..2
  /\ upFor \in None..NoSync /\ kicked \in BOOLEAN /\ syncWas \in BOOLEAN
  /\ tried \in None..RescueEvery
  /\ pc \in {"gate", "update", "ladder", "rescue"}
  /\ left \in [Events -> Nat]
  /\ shut \in Nat /\ settled \in BOOLEAN
  /\ ownAge \in None..Grace + 3 /\ unsynced \in 0..NoSync

\* Once the ladder has dropped the association itself, the outage ends within the
\* ceiling and the grace, or within the grace of that first drop if it came later:
\* a radio its own WiFi.disconnect() left down cannot hide the reset.
CeilingHolds == reassocs > 0 => off <= Ceiling + Grace + 1 \/ ownAge <= Grace + 2

\* An access point that is simply off never resets the board: a reset needs a
\* radio that had settled since the cloud was last up.
DeadApNoReset == [][LadderReset => settled \/ wifiSettled]_vars

\* A connection is dropped for want of SYNC only after it has gone that long
\* without one, whatever came and went before.
KickNotEarly == [][pc = "ladder" /\ cloud /\ pc' # pc /\ ~cloud' => unsynced = NoSync]_vars

\* With WiFi up and the cloud down the gate never shuts the library out for
\* longer than the fail-open times.
GateOpens == shut <= OpenAfter \/ shut <= OpenEvery

\* A no-SYNC disconnect left the radio down: it is no re-association of the
\* ladder's, so neither the settle gate nor the ceiling lets a rung act.
Orphaned == fault = "radio" /\ reassocs = 0

\* If the access point and the uplink come back for good, so does the cloud, even
\* where it takes a new association, the library's own lookup or a reset.
LinkRecovers == <>[](ap /\ path # "down") => []<>(cloud \/ Orphaned)
=============================================================================
