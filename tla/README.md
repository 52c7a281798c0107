# opta-gateway-mt: a TLA+ verification project

The program is the firmware of an Arduino Opta that stands between a PLC
(EtherNet/IP), a water flow meter, and two clouds (Arduino IoT Cloud for the
dashboard, InfluxDB for history). This directory holds TLA+ models of its
control, the TLC configurations that check them, and proofs checked by TLAPS.

    tlasany M.tla                     parse
    tlc -config X.cfg M               model-check (runs are listed below)
    tlapm WaterLedgerProofs.tla       check the proofs
    tlapm CommandPathProofs.tla
    tlapm PlcPollsProofs.tla
    tlapm CloudLinkProofs.tla
    tlapm ManualDrainProofs.tla
    tlapm LacoDoorsProofs.tla
    tlapm ReplayRingProofs.tla
    tlapm RestartProofs.tla

## 1. The system

### Threads and what they share

| thread | code | loop | writes |
|---|---|---|---|
| PLC | `plc_thread.h` and the headers it includes | a tick every 2 s: flow meter, then sweeps, manual drain, doors, water pass, command drain, publish | every PLC tag, `g_published` |
| cloud | `cloud_thread.h`, `cloud_side.h`, `cloud_ctrl.h`, `cloud_ladder.h`, `cloud_probe.h`, `influx_*.h` | a pass every ~100 ms: take the snapshot, `ArduinoCloud.update()` (callbacks run in it), ladder, replay | Cloud properties, `g_ctrl`, `g_cmdQueue` |
| feeder | `wd_feeder.h` | reads three heartbeats, kicks the watchdog or resets the board | boot marker |
| main | `opta-gateway-mt.ino` | panel LEDs, web page, serial console | WiFi credentials |

The PLC thread and the cloud thread meet in three places only, all in
`shared.h`: the snapshot (copied whole under a mutex), the control state (copied
whole under the same mutex) and a mailbox of 16 commands that never blocks.
The PLC is a fourth party: its sequencer, its HMI and an engineer's program
download change the tags the gateway writes, between any two round trips.

### Components

| component | state | operations | what makes it correct |
|---|---|---|---|
| water accounting: `flow_meter.h`, `water_plc.h` | journal of uncommitted litres, last good total, trip and HMI flags; PLC: total, display, mark, trip, history, two request flags | flow tick, commit, restore after a download, lifetime reset (HMI or cloud), trip reset, hourly HMI figures | no litre lost, none counted twice, resets whole or not acknowledged, the displayed total continuous |
| command path: `cloud_ctrl.h`, `shared.h`, `plc_thread.h` | SYNC and quiet window, master switch, mailbox, PLC session | SYNC, disconnect, callbacks, post, drain, second gate, publish | only what an operator asked, armed and on this session is written |
| manual drain: `plc_thread.h` | ownership and read-back verdict of S4, S5 and the pump, pump timer | commands, automatic stop, verdicts, dead-head check, disarm | a started pump can always be stopped and is never sealed in |
| LACO doors: `laco_doors.h` | two jobs, polled air and link | gates, start, reverse, step, write with put-back, abort | one side at a time, clamps with door, nothing opened into a cycle |
| EtherNet/IP client: `EtherNetIP.cpp` | TCP session, CIP status | register, read, write, multiple service packet | a late reply is never taken for the next one's; a broken session ends |
| polls: `plc_thread.h`, `plc_probe.h`, `flow_watch.h` | reconnect clock and back-off, the sweeps' ok flags, armed read-backs, the watched discharge and its latch | probe, connect, sweep, clear, judge, latch, release | no verdict on values of two sessions or read too early; the PLC is found again |
| snapshot and display: `cloud_side.h` | the cloud thread's copy, text de-duplication, mirror hold | take, assign | a stale or half read value is not shown as fresh |
| cloud probe and ladder: `cloud_probe.h`, `cloud_ladder.h` | offline clock, rungs done, settle and reset timers | knock, fail-open, re-associate, reset | offline always ends, resets only with a reason and with the ledger flat or after a grace |
| replay: `influx_replay.h`, `influx_push.h` | ring of outage records | capture, drain, persist, load | oldest lost first and counted, nothing replayed twice after a reset |
| supervision: `wd_feeder.h`, `boot_reason.h`, `episode_log.h` | heartbeats, markers in KVStore | beat, kick, give up, mark, consume | a stuck thread resets the board, with the right name on it |
| WiFi override: `opta-gateway-mt.ino`, `serial_config.h` | two keys in the KVStore, the pair in use | save, clear, load at boot | a boot runs on a pair that was stored together |
| the rest: panel, pages, WiFi portal, stack watch, tables | | | I/O and constants |

### What is hard here

* **Round trips fail in three ways.** A CIP write may be refused (session kept),
  lost on the way, or *taken with the reply lost*; in the last two the session
  ends and every later call of the same pass fails at once.
* **The other side moves.** A download drops or raises the total, the sequencer
  switches the same valves, the HMI raises flags, in the middle of a pass.
* **Two threads.** The master switch moves on the cloud thread while commands
  wait for the PLC thread's drain; the library replays stored switch values
  through the callbacks operators use.
* **Long waits.** Stagger (10 s), settle (30 s), verdict (4 s) and pump (180 s)
  timers live across ticks, outages and reversals.
* **Resets.** Everything but PLC tags and KVStore is RAM, five paths reset the
  board, and power may go between any two writes of the store.
* **Who watches the watchers.** The feeder waits for a mutex a wedged thread may
  hold; the knock that protects the cloud thread may be what keeps it offline; the
  ladder's own disconnect may be what keeps the radio down.

`PROJECT.json` lists each hazard at its line with the properties that cover it.

## 2. Modules

| module | models | state and actions against the code |
|---|---|---|
| `WaterMeter` | *abstract*: what the lifetime total promises | a reading that moves only by a measured flow, a whole reset, a reboot, or upwards after a stated doubt |
| `WaterLedger` | `flow_meter.h`, `water_plc.h` | `pc` is the place inside `waterToPlc`/`waterOnReset`; each action is the code between two round trips. `plc`, `flag` are the tags; the other variables carry the source's names |
| `CommandPath` | `cloud_ctrl.h`, `shared.h`, the drain of `plc_thread.h` | the cloud thread's callbacks are actions (each is atomic for the PLC thread: one shared access); the PLC thread steps through sweep, reading the switch, taking, applying, publishing |
| `ManualDrain` | `manS4`, `manS5`, `manPump`, `manualTick`, `manDisarm` | `drive` is the PLC's outputs with who switched them on, `seen` the read-back, `own`, `chk`, `age`, `pumpAge` the statics; one action per write |
| `LacoDoors` | `laco_doors.h` | `clamps`, `door` are the tags, `job` the two `LacoJob`s, `actionWord`, `lacoSeen`, `laco` the copies the gates read; one action per write |
| `PlcPolls` | `EtherNetIP.cpp`, `plc_probe.h`, the sweeps and fault clears of `plc_thread.h`, `flow_watch.h` | `pc` is the place in the tick, one request per step; `wire` is what is still on its way to the session, `read` the snapshot's slots with their ok flags; the others are the statics of the clears, the watch and the reconnect |
| `CloudLink` | `cloud_probe.h`, `cloud_ladder.h`, `wifiRescue` | `pc` is gate, update, ladder or rescue of a pass; one action per return of `cloudUpdateAllowed` and `cloudLadderTick`; each static that holds a time is an age |
| `ReplayLog` | *abstract*: what the replay ring promises | a bounded queue of records that loses the oldest when full, gives up oldest ones when posted, and comes out of a restart as a queue of records that never left it |
| `ReplayRing` | `influx_replay.h` | slots, head and count, and the saved chunks and count; one operator per function or write |
| `Restart` | `wd_feeder.h`, `boot_reason.h`, save, clear and load of the WiFi override, with `ReplayRing` | `life` is the stage of `setup()`, `feed`, `mainPc`, `cloudPc` the places of three threads, `kvHeld` and `logHeld` the two mutexes, `marker`, `ssid`, `pass` the store |
| `MC*` | | the numbers and budgets TLC uses |
| `WaterLedgerProofs`, `CommandPathProofs`, `PlcPollsProofs`, `CloudLinkProofs`, `ManualDrainProofs`, `LacoDoorsProofs`, `RestartProofs` | | theorems |
| `ReplayRingProofs` | | lemmas about each operator of the ring, which `RestartProofs` uses |

`WaterLedger`, `CommandPath`, `ManualDrain`, `LacoDoors` and `PlcPolls` each model
the PLC thread's tick for the state they own; they touch disjoint tags and statics.
They meet in the session (`conn`, `session`), the drain and the action bits, which
each of them has as far as it needs. `CloudLink` and `Restart` share the ladder's
reset: the first has the decision in full and takes the board through the reset in
one step, the second leaves the decision free and has every step from the marker
to the end of the next boot. History variables (*ghosts*) are marked as such where they
are declared and never guard an action.

Abstractions worth knowing:

* Litres are integers larger than `WATERVOL_DROP_EPS`; the float slop of
  `flowCommitDone` disappears. The rate limits of `waterToPlc` and the hour gate
  are free choices. `hist` stands for the newest of five history slots.
* In `WaterLedger` the flow tick happens between passes, as in the loop. An
  operation that reads a tag it then does not use is left out.
* "run" stands for the machine switches behind `ctrlBool`; set-points, manual
  outputs and fault clears go through the same gate and the same post.
* Ticks are the clock of `ManualDrain` and `LacoDoors`. In `ManualDrain` the
  level may read low in any tick, so the level stop is a choice.
* A sweep whose tags do not answer is modelled where it decides something:
  action bits that are not read count as clear (`pollPlcStateInto`), valve
  read-backs become "?". In `LacoDoors` single unread air, link or pressure tags
  are not separate events: the gates treat them as a bad value, which `Weather`
  already gives.
* A reboot is possible in any state of `WaterLedger`, `CommandPath` and
  `ManualDrain`. In `LacoDoors` an outage does what a reboot does to the jobs.
* `PlcPolls` keeps one tag per kind: the tank's level, the condensate pump and one
  fault bit. The level is high or low, and the fall from one to the other is the drop
  of `FLOW_WATCH_LEVEL_DROP_CM`; a request may drag over several sample periods.
* In `CloudLink` one pass is one tick and one knock: the code's passes between two
  knocks, which reuse the last verdict, are not told apart. What only reports (the
  episode's rows, the DNS test, the gateway ping) is left out. Whether the water
  ledger is flat is a free choice in each pass, so the wait for it is a choice.
* In `ReplayRing` a record may be captured and a batch posted in any pass: the
  capture period, the settle time and the push back-off only make it rarer. A
  record that is refused for its time stamp is never captured.
* In `Restart` a tick is longer than any step of a thread that is not wedged;
  only the cloud thread may be legally slow. A failing store is a choice at every
  opening of it and at every write of a save or a clear, whose results the code
  ignores. The code cannot tell a refused write from one that took, so the ghosts
  `kept` (the pair stored whole last) and `whole` (this save has had no refusal) do.
  A password is named by the network it belongs to.
* The models take from the library that DISCONNECT is raised before every
  replay, and that the replay comes before SYNC (`cloud_ctrl.h:11-31`).

## 3. Runs

| run | question | bounds | result |
|---|---|---|---|
| `water_ledger` | do the books balance, is anything counted twice, is a reset acknowledged too early, does the display obey `WaterMeter` | rollover 3, discharges of 2 litres (two of them), 2 faults, one download (to 0 or 1), one press, one reboot | holds |
| `water_live` | is a dropped total restored, is a discharge committed | as above with one fault and no reboot | holds |
| `water_restore` | is a restore always due to a download, as `config.h` says | no download, one fault, one press | **violated** |
| `command_path` | can anything replayed, held or disarmed reach the PLC; does the mailbox drain | mailbox of 3, everything else unbounded | holds |
| `manual_drain` | can a pump be forgotten, sealed in, starved, or run for ever | verdict after 1 tick, pump limit of 4, 3 presses, one each of sequencer move, fault, unread tag, reboot | holds |
| `manual_lost` | does every pump start have its stop armed | 3 presses, one fault | **violated** |
| `laco_doors` | stagger, pairs, cycle, freshness, end of jobs | stagger of 2 ticks, settle and sweep period of 3, 2 presses, 2 faults, one cycle change, one change of the gauges | holds |
| `laco_gated` | is every opening gated, as `laco_doors.h` says | 2 presses, one change of the gauges | **violated** |
| `cloud_link` | can the knock, or the ladder's own disconnect, keep the gateway offline; can a dead access point reset it; does the cloud come back | one or two ticks per timer, rungs at 3, 4, 5 and 7, settle of 3; 2 moves of access point, uplink or node, 2 faults | holds |
| `restart` | is every reset named truly, does a boot run on a pair that was stored together, does the ring survive as a queue, does a wedge end in a reset | ring of 3 slots in chunks of 2, budgets of 1 and 3 ticks, PLC or cloud thread may wedge, two networks; 2 faults with 4 records and no save or with 1 record and 2 saves or clears, and 1 fault with 4 records and 1 save | holds |
| `plc_polls` | can a late reply be mistaken, a clear or a discharge be judged on the wrong values; is the PLC found again | one or two ticks per timer, pump limit of 3; 4 changes of the plant, 2 faults or drags, 1 command | holds |
| `plc_stale` | does only a tick that read the pump judge a discharge, as `flow_watch.h` says | as above | **violated** |

Why the bounds are enough. In the water runs a rollover is crossed by one or two
discharges, two faults are one more than a reset and a commit need to fail in the
same run, and a download may fall between any two round trips; the counts are
exhausted in every order. `command_path` has no budget at all: two commands
suffice for an order to matter and the third shows a full mailbox with a
command behind the one that is written. The timers only have to be told apart
from zero and from each other's neighbours: a limit of 2 to 4 ticks leaves room for
an event before, at and after the tick in question, and the sweep period of 3 is the
code's. In `ManualDrain` three presses open a valve, start the pump and close a
valve, and the sequencer may have opened the other valve. `LacoDoors` needs
`SettleTicks >= StaggerTicks`, as the code has it (30 s against 10 s): with
shorter settling a second chamber may start inside the stagger of the first.

`CloudLink` needs the code's order of the rungs
(`PeriodsAssumption`: settle, 5, 15, 20, 60 minutes), which the instance keeps with one
tick between two of them and two before the ceiling; two moves outside take the access
point, the uplink or the node away and back, and two faults are a library that is
stuck and a radio that stays down after a disconnect. In `Restart` a ring of three
slots in chunks of two has a full and a part chunk, the fourth record overwrites,
and two faults are a failed save or load and a power cut, or a wedge and a slow
reconnect; letting the PLC and the cloud thread wedge, but not main, halves the
states and loses little, as main has the PLC thread's budget and the feeder asks
them in the same way. Records and saves share no state but
the mutex and the marker, so each has its own full budget, and a third has some of both;
two saves are one that stores a pair and one, of the other network, or a clear, that is
torn or refused after it; two faults are a refused write and a power cut, or both writes
of one save. `PlcPolls` has four changes of the plant: a tank that falls,
a pump that starts and stops, and one to spare; two faults are a request that is lost
and one that drags.

Each property is also checked against a mutant of the code (defined beside the
operator it replaces, commented `Mutant:`), which TLC must find violating it.

### Properties

* `BooksBalance`, `CountedOnce`, `AckAfterWholeReset`, `MeterRefined`: safety of
  the water totals; the last one is the refinement of `WaterMeter`.
* `DownloadRepaired`, `CommitsEventually`: liveness of the same.
* `OnlyOperatorsReachPlc`, `NotHeldForReconnect`, `DisarmStops`, `MakesRoom`.
* `PumpGuarded`, `NeverSealed`, `DeadHeadBounded`, `PumpStops`. The first and the
  last excuse a pump start whose reply was lost and a reboot; `manual_lost`
  shows that the excuse is needed.
  `DeadHeadBounded` counts the ticks in which the gateway's pump runs against a
  valve that is shut and was read shut, with a session.
* `StaggerKept`, `SidesPaired`, `OpeningSeesCycle`, `JobsOnFreshPoll`, `JobsEnd`.
* `GateOpens`, `CeilingHolds`, `DeadApNoReset`, `KickNotEarly`, `LinkRecovers`. The
  last one excuses one state, see section 4.
* `NamedTruly`, `PairKept`, `CleanResetKeeps`, `LogRefined`, `WedgeEndsInReset`.
  `NamedTruly` excuses a boot that could not open the store and found the marker
  of the life before still there at the next. `PairKept` says which pair a boot runs
  on after any sequence of saves and clears, whole, cut short or refused: the one last
  stored whole, or the built-in one after a clear. Its excuse is a store that holds half
  of one pair beside half of another (section 4); two refused writes, a clear torn after
  its first half, or a password with no SSID beside it are not excused.
  `LogRefined` is the refinement of `ReplayLog`.
* `AnswersMatch`, `ClearVerdictEarned`, `FlowFaultEarned`, `Reconnects`. Whether a tick
  read the pump is judged in `FlowFaultEarned` by what became of this tick's request
  (`asked`), not by the flag the code tests: a session lost in the sensor sweep leaves
  the last tick's flag up. Start and stop are then never taken, and no tick before the
  last of a judged discharge went unread; the judging tick itself may have skipped the
  sweep, which is what `plc_stale` shows.

### Fairness

* `WF_vars(Pass)`, `WF_vars(Tick)`: the PLC thread's loop has no exit, sleeps a
  bounded time, and every CIP call ends by a time-out.
* `WF_vars(Reconnect)` (water) and `WF_vars(TickAway /\ conn')` (manual drain): a
  reconnect is tried with a capped back-off, and the network comes back some time.
  Liveness about the PLC's tags cannot hold without it. `MakesRoom` and `JobsEnd` do
  not assume it.
* `WF_vars(Thread)` (polls): the loop, as above; `Reconnects` needs no fairness of the
  network, since a controller that goes away again is an answer too.
* `WF_vars(Pass)` (cloud link) with strong fairness of two outcomes: an access point
  that is on is joined by one of infinitely many attempts, and a reachable broker
  that takes sessions is reached by one of infinitely many. Without them `LinkRecovers`
  would be refuted by a radio that fails every time.
* `WF_vars(Moves)` (restart): something that can move moves, or time passes. It says
  nothing of which: no thread that may wedge is assumed to run, and nobody owes a
  capture, a post, a save or the ladder's decision.
* No fairness on operators, the cloud, the sequencer, flow, or downloads. Faults
  are bounded by the budget, so liveness says "once the faults stop".

## 4. Findings

Four statements of the comments are not what the code does, each with a run whose
counterexample shows it; `PROJECT.json` quotes the lines.

1. A lifetime reset that fails half way leaves a zeroed total with the old
   reference, so the gateway "restores" a total nobody replaced (`water_restore`).
2. A pump start whose reply is lost has no owner: no level stop, no time stop
   (`manual_lost`).
3. Reversing a closing door job to open skips the gates (`laco_gated`).
4. A session lost in the sensor sweep skips the valve sweep and leaves the last
   `valveOk[]` up, so the flow watch takes the old pump bit for this tick's and may judge
   a settling discharge, and latch a mismatch, by it (`plc_stale`). In the other states the
   stale bit shows no edge, and the next tick, without a session, gives the watch up.

Met while modelling and not stated as runs, each in `PROJECT.json` as a hazard or here:

* The no-SYNC guard drops the association like a rung does, but does not count it
  (`cloud_ladder.h:161-168`). If the radio stays down after it, neither the settle
  gate nor the ceiling lets any rung act, the case the comment at 205-208 describes
  for the rungs' own disconnects. `CloudLink` calls the state `Orphaned`.
* `boot_reason.h:175-179` asks every writer of the key-value store for `g_kvMutex`; the
  web page, the serial console and the boot write without it.
* The drain looks at the level of the master switch once per tick (`plc_thread.h:636`);
  off and on again between post and tick is not seen, where 539-540 says that such a
  command is dropped. `DisarmStops` speaks of a switch that stays off.
* The results of the writes of a save are ignored (`opta-gateway-mt.ino:89-90`, `271-272`):
  with the SSID taken and the password refused it is told as saved, and the reboot runs on the
  new SSID with the old password, or with none. This, and a save cut short between the
  two writes, is what `PairKept` excuses.
* A save or a clear on the console whose store does not open logs that, then "saved" or
  "cleared", and resets with the marker all the same (`opta-gateway-mt.ino:88`, `95`); the
  web page answers "Save FAILED" and stays up, but its clear resets too.
* If the store cannot be opened at a boot and the next save is cut short, the ring
  loaded after that may hold new records before old ones (it takes a fifth record,
  one more than the run has). Each carries its own time, so
  only the order is lost; `ReplayLog` promises no order across a restart.
* `begin()` that fails after a knock that landed leaves the last error text standing.

## 5. Proofs

`WaterLedgerProofs` proves, for every rollover span, sanity band, set of litres,
set of download totals and budget (the four named assumptions of `WaterLedger`):

* `TypeCorrect`: `Spec => []TypeOK`
* `NoWaterLost`: `Spec => []BooksBalance`
* `NeverCountedTwice`: `Spec => []CountedOnce`

`BooksBalance` alone is not inductive: the step that settles a pass adds
`base - lastGoodCum` to the surplus, which must not be negative. `BaseCovers`
says that a base that survived the download check is not below the reference, and,
without an excuse, equals it; `NeverAbove` says that without an excuse the tag itself
is never above what the gateway knows, which is what makes the next base equal.
`IInv` is these with `TypeOK`, `BooksBalance` and `CountedOnce`; the lemmas go
action by action, with `PlcRead`, `PlcWrite` and `FlagClear` handled once. The only
arithmetic fact is `WrapFacts`: a commit splits into a remainder and whole laps.

The same module proves `AcknowledgedWhole`: `Spec => []AckAfterWholeReset`. What
has to be carried through the reset is `ResetSoFar`: while no write has failed, every
tag behind the cursor is zero, or is the total and a download has replaced it. The
last write turns that into "all tags, and the books", which is what stands when
the flag is cleared.

It also proves the refinement, `ImplementsMeter`: `Spec => MeterRefined`. Each
action of the meter has a lemma in the ledger's terms; the reads, the trip reset, the
restore and the HMI's figures leave the mapped state alone. The end of a pass is where it could go wrong:
`SettleMeter` shows that what the display gains there is `base - lastGoodCum`, which
`BaseCovers` makes zero without an excuse and never negative, and that a commit whose
reply is lost raises the doubt before the display can move.

`CommandPathProofs` proves, for every mailbox capacity:

* `TypeCorrect`, `OnlyOperators`, `NeverHeld`, `DisarmedIsStopped`:
  `Spec => []P` for `TypeOK`, `OnlyOperatorsReachPlc`, `NotHeldForReconnect`,
  `DisarmStops`.

The three safety properties speak only of the command being written; the
strengthening speaks of all that wait. `Guarded`: the gates are shut until a SYNC
and only an operator opens the switch behind them. `AllEntitled`: everything in the
mailbox was posted by its right. `AllPresent`: as long as this tick, or the next,
may write on the session, nothing in the mailbox has been without one; that is what
the tick without a session, which drains and may not write, buys. `AllGripped`: the
copy of the switch that decides (`enabled` before the read, `ctrl` during the
drain) is never on over a command that lost its switch.

`PlcPollsProofs` proves, for every period and every budget:

* `TypeCorrect`, `AnswersBelong`, `ClearEarned`, `FlowEarned`: `Spec => []P` for `TypeOK`
  and `AnswersMatch`, and the action properties `ClearVerdictEarned` and
  `FlowFaultEarned`.

`AnswersMatch` rests on `Quiet`: between two requests nothing is on the wire, because
a request that ends without its reply ends the session. `SameSession` carries the
ghosts of a reply to the verdict: the fault bit that is read in this sweep was read
with the clear at least as old as the sweep's start, and with no session ended since
unless the clear is disarmed. `FaultFresh` is its arithmetic: the age in the slot
and the age of the sweep add up to no less than the age of the clear. `SlotOK` says what
the pump's slot holds by what became of this tick's request: nothing where it was not
answered, and the answer of the tick before where the session went before its turn,
which agrees with what the watch remembers (`Remembered`), so such a tick sees no
edge. `Watched` says that a discharge that a tick left unread is given up by the next
one, which has no session and so an empty slot; that is why at most the judging tick can be
unread. `TextLatched` says that the mismatch text in `lastError` is there only while it is
latched. The invariant is cut into groups of variables, with one lemma per action and
group.

`CloudLinkProofs` proves, for every budget and all periods in the code's order
(`PeriodsAssumption`):

* `TypeCorrect`, `FailOpen`, `CeilingReached`: `Spec => []P` for `TypeOK`, `GateOpens`
  and `CeilingHolds`;
* `DeadApSpared`, `KickEarned`: the action properties `DeadApNoReset` and `KickNotEarly`.

`Refusing` says that after some refused passes each of the gate's two clocks has run
as many ticks or is at its bound; a refusal that does not open the gate leaves one
short of it. `Earned` says that the ladder drops an association only after the radio has
settled, so a ceiling that no longer asks for that is still owed to a settled radio.
`Unsynced` says that the guard's clock runs no faster than the time without SYNC, which
needs `Attached`: only the library's step makes a connection, after the ladder has seen
the old one go. `Bounded` is the ceiling's argument: past the ceiling, and past the
first disconnect, a pass rests no more, so each one is armed, waits a tick of the
grace, or takes the second disconnect; `Allowance` counts what of these is used up.

`ManualDrainProofs` proves, for every verdict time, pump limit and budget:

* `TypeCorrect`, `NeverForgotten`, `DeadHeadStopped`: `Spec => []P` for `TypeOK`,
  `PumpGuarded` and `DeadHeadBounded`;
* `NoSeal`: the action property `NeverSealed`.

The gateway forgets a pump when a verdict due on it finds it off. `Reads` is why that
is safe: a pump that runs by the gateway and was read off in this tick was started
after the sweep, so the verdicts of this tick are over; `CheckedOff` says that a
verdict that waits for "off" belongs to a pump nobody owns. `Closing` carries
"the pump is stopped" from the first half of a valve command to the second. For the
dead head, `Aging` bounds the starved ticks by the age of the closed valve's pending
verdict and the faults used; `Running` keeps a verdict that is due from outliving its
tick; `Strained` says that once a valve's check has been passed in this tick without
a stop, a fault has been paid for it.

`LacoDoorsProofs` proves, for every budget, all waits with
`SettleTicks >= StaggerTicks`, and every sweep period of three ticks or more:

* `TypeCorrect`, `FreshJobs`, `PairsKept`, `AirSpared`: `Spec => []P` for `TypeOK`,
  `JobsOnFreshPoll`, `SidesPaired` and `StaggerKept`;
* `CycleSeen`: `Spec => [](StateEveryTicks = 3 => OpeningSeesCycle)`.

`Paired` adds the writes under way: between clamps and door the clamps are as
requested and `undo` is where the door still stands, so writing the opposite of the
request restores a side that was not already there. `Staggered` says who may be on
the move at all: the side its one job waits for, with the wait no older than the
command. For the cycle, `Paced` bounds the age of a cycle the last sweep missed by
the phase: none at phase 0, none yet at phase 1, one tick at phase 2. It holds across
a reconnect in the middle of a round because of an order nothing in the source
states: a job needs the LACO poll of its own session, and that poll's tick is the
last before a state sweep. With `StateEveryTicks = 4` and the poll still at phase 2,
TLC finds a session lost at phase 0 and back before phase 2, a job started there on
action bits of before the outage, and a door opened at phase 3 under a cycle that
began a whole round ago.

`RestartProofs` proves, for every size of ring, batch and chunk, every number of
records, networks, faults and saves, any threads that may wedge, and all budgets of the
feeder with `Short < Long <= 1000` ticks:

* `TypeCorrect`, `NamesTruly`, `HandsOver`: `Spec => []P` for `TypeOK`, `NamedTruly` and
  `CleanResetKeeps`;
* `KeepsPair`: the action property `PairKept`;
* `ImplementsLog`: the refinement, `Spec => LogRefined`.

Four kinds of step make every proof (`StepShape`): a life ends, the boot goes on, a
running gateway works, or nothing changes. The invariant has five parts.

`TypeOK` needs `SaveOK`, that the chunk a save writes next is one the ring reaches.
`StageOK` says that before `setup()` ends nothing runs and nothing has been decided.
`CredentialsOK` says that what a boot would make of the two keys (`StoredPair`: an SSID that
is gone hides a password that is still there) is the pair last stored whole, unless the
keys hold halves of two; and that a save on its second write, with no refusal so far,
has its own SSID before it. A refused write leaves the keys and `kept` as they were,
so only a write that took after one that did not, or the other way round, can part them.

`NamingOK` is what makes `NamedTruly` inductive. `Announced`: whoever has decided on a
reset has left a marker or was refused, since all paths mark before they reset.
`FeedOK`: the feeder gives up only while some thread is over its budget, which is still
so when it writes the marker, and the hardware watchdog starves only behind a feeder that
has written it. `BlameFair`: the thread with the largest ratio of stall to budget is then
over its own. `MarkerOK` follows the marker from the life that wrote it, through the
boot that reads it once, to the life that starts without it.

`RecordsOK` is about the ring and its copy in the store. `RingOK` and `CopyOK`: what
either holds was captured, has not left and is there once. That the two may hold the
same records is the difficulty, because a record posted from the ring must not come
back from the copy. `ApartOK` is the answer: in a running gateway the chunks a save has
not written over have nothing in common with the ring (the boot loads the copy and
removes it, or starts with an empty ring: `CopyStage`), and the chunks a save has
written hold the part of the ring they are for (`SaveOK`), which no longer changes,
because the cloud thread captures and posts nothing between the marker and the reset.
So a save torn at any chunk leaves a copy of live records without a double. `HeldOK`
takes a save that ended well over the reset: the copy is then the content, cut into
chunks, and `LoadWhole` puts it together again.

`ReplayRingProofs` has the arithmetic under it, from multiplication and division up:
`Places` (the n-th oldest record is in the slot `head - count + n`, wrapped once),
`CaptureShifts` and `DropShifts` (what a capture and a batch do to that order),
`ChunkOfFacts` and `LoadedFrom` (which record is where in the copy), `ReadFacts` (where
the loop of `replayLoad` stops), and one lemma per operation on `RingOK` and `CopyOK`.
With them a capture is the append of `ReplayLog` (`CaptureAppends`), a batch its
`Take` (`PostTakes`), and every reset and step of the boot its `Restore`
(`BootRestores`).

`ResolutionAssumption` (`Long <= 1000`) is a fact about the model's clock: a tick is at
least a thousandth of a budget. It cannot be dropped. `wdFeederLoop` compares stalls in
whole thousandths of their budgets, and the first of equals takes the blame
(`wd_feeder.h:128-133`): in milliseconds, a main thread whose last beat is 60000 ms old,
which is not yet over its budget, ties with a PLC thread at 60001 to 60059 ms and takes
its name. A pass of the feeder would have to fall on that millisecond.

Only model-checked: all liveness (`DownloadRepaired`, `CommitsEventually`, `MakesRoom`,
`PumpStops`, `JobsEnd`, `LinkRecovers`, `Reconnects`, `WedgeEndsInReset`), which needs
fairness and ENABLED and is out of this prover's reach. Every safety property of a
passing run, and both refinements, are proved.

## 6. What is left

In this order, the first item of each line being the most valuable.

1. *Snapshot exchange*: the mirror hold of the manual switches and the error text
   between the two threads.
2. *Episode log* with the markers in one store; the OTA gate against the mailbox.

## 7. Not modelled

Page rendering, the parser of the serial console, the WiFi portal (compiled out),
LEDs, stack painting, tag tables, formatting and logging. Request framing and the
encoding of tags and types in `EtherNetIP.cpp`. The heat pump's stale detection, the
stall windows of the feeder, the rows of the episode log, the DNS test and the
gateway ping: they only report. The HTTPS client of `influx_push.h`: one POST has
three outcomes, and its back-off is pacing. The sanity check of the RTC
(`influx_replay.h:96-106`), which compares with the last accepted time only.
