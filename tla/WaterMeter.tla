----------------------------- MODULE WaterMeter -----------------------------
(***************************************************************************)
(* What the gateway promises of the lifetime water meter, with the PLC     *)
(* tags, the journal and the network left out (the contract is spelled out *)
(* beside WATERVOL_WRAP_L in config.h).  The reading is the lifetime total *)
(* the cloud is shown: the storage tag plus the litres not yet committed.  *)
(* It is unwrapped here; the display shows it modulo the rollover.         *)
(***************************************************************************)
EXTENDS Naturals

CONSTANT Litres      \* what one flow tick may measure

VARIABLES reading,   \* litres since the last lifetime reset
          known,     \* a base has been read since the gateway booted
          doubt,     \* the storage tag may hold more than the reading knows
          asked      \* a lifetime reset is being written

meterVars == <<reading, known, doubt, asked>>

MeterInit == reading = 0 /\ ~known /\ ~doubt /\ ~asked

\* The first base read after a boot is taken on trust.
Learn ==
  /\ ~known /\ known'
  /\ reading' \in Nat
  /\ doubt' \in {doubt, TRUE}
  /\ UNCHANGED asked

\* A tick of flow moves a known reading by exactly what was measured.
Measure ==
  /\ known /\ reading' \in {reading + l : l \in Litres}
  /\ UNCHANGED <<known, doubt, asked>>

\* Only a storage tag that was raised behind the gateway, or a commit whose
\* reply was lost, lets the reading jump, and then only upwards.
Jump ==
  /\ known /\ doubt
  /\ reading' \in Nat /\ reading' >= reading
  /\ UNCHANGED <<known, doubt, asked>>

Doubt == ~doubt /\ doubt' /\ UNCHANGED <<reading, known, asked>>

\* A reset is requested, and may be given up with nothing changed.
Ask == asked' = ~asked /\ UNCHANGED <<reading, known, doubt>>

\* A lifetime reset that the PLC took as a whole.
Zero == asked /\ ~asked' /\ reading' = 0 /\ known' /\ doubt' \in BOOLEAN

\* A gateway reboot loses the reading; nothing else does.
Forget == reading' = 0 /\ ~known' /\ ~doubt' /\ ~asked'

MeterNext == Learn \/ Measure \/ Jump \/ Doubt \/ Ask \/ Zero \/ Forget

MeterSpec == MeterInit /\ [][MeterNext]_meterVars
=============================================================================
