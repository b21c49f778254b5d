---------------------------- MODULE BootSlotProofs -----------------------------
(***************************************************************************)
(* Proofs that no cut of power makes a torn trial slot selectable and that *)
(* only a commit can cost the device its committed kernel, for any set of  *)
(* kernels and any number of installations and faults.                     *)
(***************************************************************************)
EXTENDS BootSlot, TLAPS

Files == Kernels \cup {Torn}

(* What the variables that decide a boot may hold.                         *)
Typed ==
    /\ good \in Files /\ alt \in Files /\ target \in Kernels /\ bootcnt \in Nat
    /\ Up => kernel \in Kernels

(* An armed slot is whole: it is disarmed before it is written, and armed  *)
(* after that.                                                             *)
ArmedIsWhole ==
    /\ abState = "trial" => alt \in Kernels
    /\ install \in {"write", "writing"} => abState # "trial"
    /\ install \in {"count", "arm"} => alt \in Kernels

(* Nothing but a trial is confirmed, and nothing runs while the power is   *)
(* off.                                                                    *)
ConfirmsTrials ==
    /\ confirm # "done" => slot = "trial"
    /\ install # "idle" => Up

(* A running kernel that does not fit is never committed, so its slot      *)
(* stays as it was when it started.                                        *)
BigStays ==
    slot = "trial" /\ kernel \in Big =>
        /\ abState = "trial" /\ alt = kernel /\ install = "idle"
        /\ confirm \in {"waiting", "checking", "done"}

(* boot.sd is torn in a commit, or for a reason that history knows.        *)
TornIsKnown ==
    /\ good = Torn => hurt \/ confirm = "copying"
    /\ slot = "dead" => hurt

Inv == Typed /\ ArmedIsWhole /\ ConfirmsTrials /\ BigStays /\ TornIsKnown

LEMMA InitInv == Init => Inv
  BY BootSlotAssumption
  DEF Init, Inv, Typed, ArmedIsWhole, ConfirmsTrials, BigStays, TornIsKnown, Files, Up

(* An installation keeps the invariant, whatever the server does else.     *)
LEMMA InstallInv == Inv /\ ((\E k \in Kernels : Start(k)) \/ Disarm \/ WriteAlt \/ AltWritten
                             \/ ResetBootCount \/ Arm \/ MarkPending \/ StepFails \/ DismissRollback) => Inv'
<1> SUFFICES ASSUME Inv,
                    (\E k \in Kernels : Start(k)) \/ Disarm \/ WriteAlt \/ AltWritten
                        \/ ResetBootCount \/ Arm \/ MarkPending \/ StepFails \/ DismissRollback
             PROVE  Inv'
  OBVIOUS
<1> USE BootSlotAssumption
    DEF Inv, Typed, ArmedIsWhole, ConfirmsTrials, BigStays, TornIsKnown, Files, Up,
        slots, records, machine, history, AtStep
<1>1. CASE \E k \in Kernels : Start(k)
  BY <1>1 DEF Start, Confirmed
<1>2. CASE Disarm
  BY <1>2 DEF Disarm
<1>3. CASE WriteAlt
  BY <1>3 DEF WriteAlt
<1>4. CASE AltWritten
  BY <1>4 DEF AltWritten
<1>5. CASE ResetBootCount
  BY <1>5 DEF ResetBootCount
<1>6. CASE Arm
  BY <1>6 DEF Arm
<1>7. CASE MarkPending
  BY <1>7 DEF MarkPending
<1>8. CASE StepFails
  BY <1>8 DEF StepFails
<1>9. CASE DismissRollback
  BY <1>9 DEF DismissRollback, server
<1> QED
  BY <1>1, <1>2, <1>3, <1>4, <1>5, <1>6, <1>7, <1>8, <1>9

(* A trial that is confirmed, refused or cut short keeps the invariant.    *)
LEMMA ConfirmInv == Inv /\ (ConfirmWhenReady \/ ConfirmFails) => Inv'
<1> SUFFICES ASSUME Inv, ConfirmWhenReady \/ ConfirmFails
             PROVE  Inv'
  OBVIOUS
<1> USE BootSlotAssumption
    DEF Inv, Typed, ArmedIsWhole, ConfirmsTrials, BigStays, TornIsKnown, Files, Up,
        slots, records, history, Confirms
<1>1. CASE Ready
  BY <1>1 DEF Ready
<1>2. CASE NotReady
  BY <1>2 DEF NotReady
<1>3. CASE CheckRoom
  BY <1>3 DEF CheckRoom
<1>4. CASE CopyGood
  BY <1>4 DEF CopyGood
<1>5. CASE GoodCopied
  BY <1>5 DEF GoodCopied
<1>6. CASE Commit
  BY <1>6 DEF Commit
<1>7. CASE ConfirmResets
  BY <1>7 DEF ConfirmResets
<1>8. CASE RecordInstalled
  BY <1>8 DEF RecordInstalled
<1>9. CASE RemovePending
  BY <1>9 DEF RemovePending
<1>10. CASE ConfirmFails
  BY <1>10 DEF ConfirmFails
<1> QED
  BY <1>1, <1>2, <1>3, <1>4, <1>5, <1>6, <1>7, <1>8, <1>9, <1>10 DEF ConfirmWhenReady

(* So do the guard, the boot loader, a cut of power and a restart.         *)
LEMMA MachineInv == Inv /\ (Guard \/ Boot \/ PowerLoss \/ RebootForKernel \/ ServerRestarts) => Inv'
<1> SUFFICES ASSUME Inv, Guard \/ Boot \/ PowerLoss \/ RebootForKernel \/ ServerRestarts
             PROVE  Inv'
  OBVIOUS
<1> USE BootSlotAssumption
    DEF Inv, Typed, ArmedIsWhole, ConfirmsTrials, BigStays, TornIsKnown, Files, Up,
        slots, records, machine, server, history
<1>1. ASSUME GoesOff
      PROVE  Inv'
  BY <1>1 DEF GoesOff
<1>2. CASE GuardConfirmed
  BY <1>2 DEF GuardConfirmed
<1>3. CASE GuardExpires
  BY <1>3 DEF GuardExpires
<1>4. CASE Boot
  <2>1. CASE Selectable
    BY <1>4, <2>1 DEF Boot, Booted, Selectable
  <2>2. CASE ~Selectable
    BY <1>4, <2>2 DEF Boot, Booted
  <2> QED
    BY <2>1, <2>2
<1>5. CASE ServerRestarts
  BY <1>5 DEF ServerRestarts
<1> QED
  BY <1>1, <1>2, <1>3, <1>4, <1>5 DEF Guard, GuardReboots, PowerLoss, RebootForKernel

LEMMA StepInv == Inv /\ [Next]_vars => Inv'
<1> SUFFICES ASSUME Inv, [Next]_vars
             PROVE  Inv'
  OBVIOUS
<1>1. CASE Next
  BY <1>1, InstallInv, ConfirmInv, MachineInv DEF Next, Install
<1>2. CASE UNCHANGED vars
  BY <1>2 DEF vars, slots, records, machine, server, history,
      Inv, Typed, ArmedIsWhole, ConfirmsTrials, BigStays, TornIsKnown, Files, Up
<1> QED
  BY <1>1, <1>2

(* Wherever an installation, a trial or a commit is interrupted, a boot    *)
(* loader that would start the trial slot finds a whole kernel in it       *)
(* (kernel.go kernelInstallSteps).                                         *)
THEOREM SelectableTheorem == Spec => []SelectableIsWhole
<1>1. Inv => SelectableIsWhole
  BY DEF Inv, ArmedIsWhole, SelectableIsWhole, Selectable
<1> QED
  BY <1>1, InitInv, StepInv, PTL DEF Spec

(* The device is dead only after a commit was cut short or copied another  *)
(* kernel than the running one (kernel.go, bootslot.go, S02abtrial).       *)
THEOREM BricksTheorem == Spec => []BricksOnlyInCommit
<1>1. Inv => BricksOnlyInCommit
  BY DEF Inv, TornIsKnown, BricksOnlyInCommit
<1> QED
  BY <1>1, InitInv, StepInv, PTL DEF Spec
=============================================================================
