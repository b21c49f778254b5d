------------------------------- MODULE BootSlot --------------------------------
(***************************************************************************)
(* Kernel updates over two boot slots: the steps of an installation        *)
(* (server/service/application/kernel.go), the trial of the new kernel and *)
(* its commit (server/service/bootslot/bootslot.go, started by             *)
(* server/main.go), the guard that ends a trial nobody confirms            *)
(* (kvmapp/system/init.d/S02abtrial) and the boot loader's choice, which   *)
(* server/service/application/kernel_test.go simulates.                    *)
(*                                                                         *)
(* Power may be lost between any two steps.  boot.sd and boot.alt are      *)
(* written in place, so a copy has a beginning and an end and the file is  *)
(* torn in between; the other files are replaced by a rename.              *)
(***************************************************************************)
EXTENDS Naturals

CONSTANTS
    Kernels,        \* kernels, which stand for their versions
    Factory,        \* the one the device came with
    Works,          \* those that reach a serving and routable state
    Big,            \* those that /boot has no room to commit
    Torn,           \* a partly written file
    None,           \* no such file
    MaxInstalls,    \* bound: installations started
    MaxFaults       \* bound: power cuts, I/O errors and restarts of the server

ASSUME BootSlotAssumption ==
    /\ Factory \in Works \ Big /\ Works \subseteq Kernels
    /\ Torn \notin Kernels /\ None \notin Kernels
    /\ MaxInstalls \in Nat /\ MaxFaults \in Nat

VARIABLES
    good, alt,      \* boot.sd and boot.alt
    abState,        \* the ab_state line of uEnv.txt: "committed" or "trial"
    bootcnt,        \* trial attempts that u-boot has counted
    pending, installed,     \* the versions in kernel_pending and kernel.version
    slot,           \* what runs: "good", "trial", "off" or "dead"
    kernel,         \* the running kernel
    marker,         \* /run/nanokvm-kernel-confirmed exists
    guard,          \* S02abtrial: "off", "watching" or "expired"
    confirm,        \* how far ConfirmWhenReady is
    install,        \* the installation's next step, or "idle"
    target,         \* the kernel it installs
    served,         \* history: kernels that passed their trial
    hurt,           \* history: a commit was cut short or copied another kernel
    used            \* bounds: installations and faults

slots == <<good, alt, abState, bootcnt>>
records == <<pending, installed>>
machine == <<slot, kernel, marker, guard>>
server == <<confirm, install, target>>
history == <<served, hurt>>
vars == <<slots, records, machine, server, history, used>>

Init ==
    /\ good = Factory /\ alt = Factory /\ abState = "committed" /\ bootcnt = 0
    /\ pending = None /\ installed = None
    /\ slot = "good" /\ kernel = Factory /\ marker = FALSE /\ guard = "off"
    /\ confirm = "done" /\ install = "idle" /\ target = Factory
    /\ served = {Factory} /\ hurt = FALSE
    /\ used = [installs |-> 0, faults |-> 0]

Up == slot \in {"good", "trial"}
Fault == used.faults < MaxFaults /\ used' = [used EXCEPT !.faults = @ + 1]

-----------------------------------------------------------------------------
(* installKernelPayload                                                    *)

(* Confirmed *)
Confirmed == slot = "trial" /\ abState = "committed"

Start(k) ==
    /\ Up /\ install = "idle" /\ used.installs < MaxInstalls
    /\ slot = "trial" => Confirmed
    /\ install' = "disarm" /\ target' = k
    /\ used' = [used EXCEPT !.installs = @ + 1]
    /\ UNCHANGED <<slots, records, machine, confirm, history>>

AtStep(s, next) == Up /\ install = s /\ install' = next /\ UNCHANGED <<machine, confirm, target, history, used>>

(* Defect: the slot is written while it may still be armed.                *)
DisarmNot == AtStep("disarm", "write") /\ UNCHANGED <<slots, records>>

(* SetState(committed) *)
Disarm ==
    /\ AtStep("disarm", "write")
    /\ abState' = "committed"
    /\ UNCHANGED <<good, alt, bootcnt, records>>

(* stageKernel *)
WriteAlt ==
    /\ AtStep("write", "writing")
    /\ alt' = Torn
    /\ UNCHANGED <<good, abState, bootcnt, records>>

AltWritten ==
    /\ AtStep("writing", "count")
    /\ alt' = target
    /\ UNCHANGED <<good, abState, bootcnt, records>>

(* ResetBootCount *)
ResetBootCount ==
    /\ AtStep("count", "arm")
    /\ bootcnt' = 0
    /\ UNCHANGED <<good, alt, abState, records>>

(* SetState(trial) *)
Arm ==
    /\ AtStep("arm", "mark")
    /\ abState' = "trial"
    /\ UNCHANGED <<good, alt, bootcnt, records>>

(* MarkPending; the update lock is kept until the reboot.                  *)
MarkPending ==
    /\ AtStep("mark", "reboot")
    /\ pending' = target
    /\ UNCHANGED <<slots, installed>>

(* A step fails, or the file read back differs.                            *)
StepFails ==
    /\ Up /\ install \notin {"idle", "reboot"}
    /\ Fault
    /\ install' = "idle"
    /\ UNCHANGED <<slots, records, machine, confirm, target, history>>

(* DismissRollback *)
DismissRollback ==
    /\ Up /\ pending # None
    /\ pending' = None
    /\ UNCHANGED <<slots, installed, machine, server, history, used>>

-----------------------------------------------------------------------------
(* ConfirmWhenReady and Confirm                                            *)

Confirms(s, next) == Up /\ confirm = s /\ confirm' = next /\ UNCHANGED <<slot, kernel, guard, install, target>>

(* The server answers and a routable address exists.                       *)
Ready ==
    /\ kernel \in Works
    /\ Confirms("waiting", "checking")
    /\ marker' = TRUE
    /\ served' = served \cup {kernel}
    /\ UNCHANGED <<slots, records, hurt, used>>

(* ErrNotReady *)
NotReady ==
    /\ Confirms("waiting", "done")
    /\ UNCHANGED <<slots, records, marker, history, used>>

(* Defect: nothing keeps a kernel without room from being committed.       *)
CheckRoomNot == Confirms("checking", "copy") /\ UNCHANGED <<slots, records, marker, history, used>>

(* ensureRoomToCommit *)
CheckRoom ==
    /\ Confirms("checking", IF alt \in Big THEN "done" ELSE "copy")
    /\ UNCHANGED <<slots, records, marker, history, used>>

(* copyFile(boot.sd, boot.alt) *)
CopyGood ==
    /\ Confirms("copy", "copying")
    /\ good' = Torn
    /\ hurt' = (hurt \/ alt # kernel)
    /\ UNCHANGED <<alt, abState, bootcnt, records, marker, served, used>>

(* The copy takes longer than the last second of the guard's wait.         *)
GoodCopied ==
    /\ guard # "expired"
    /\ Confirms("copying", IF alt \in Big THEN "done" ELSE "commit")
    /\ good' = IF alt \in Big THEN Torn ELSE alt
    /\ hurt' = (hurt \/ alt # kernel)
    /\ UNCHANGED <<alt, abState, bootcnt, records, marker, served, used>>

(* setState(committed) *)
Commit ==
    /\ Confirms("commit", "counted")
    /\ abState' = "committed"
    /\ UNCHANGED <<good, alt, bootcnt, records, marker, history, used>>

(* ResetBootCount *)
ConfirmResets ==
    /\ Confirms("counted", "record")
    /\ bootcnt' = 0
    /\ UNCHANGED <<good, alt, abState, records, marker, history, used>>

(* The pending version becomes the installed one, and is removed.          *)
RecordInstalled ==
    /\ Confirms("record", "remove")
    /\ installed' = IF pending # None THEN pending ELSE installed
    /\ UNCHANGED <<slots, pending, marker, history, used>>

RemovePending ==
    /\ Confirms("remove", "done")
    /\ pending' = None
    /\ UNCHANGED <<slots, installed, marker, history, used>>

(* A write of the commit fails.                                            *)
ConfirmFails ==
    /\ confirm \in {"copying", "commit", "counted"}
    /\ Confirms(confirm, "done") /\ Fault
    /\ hurt' = (hurt \/ confirm = "copying")
    /\ UNCHANGED <<slots, records, marker, served>>

-----------------------------------------------------------------------------
(* The machine                                                             *)

GoesOff ==
    /\ slot' = "off"
    /\ hurt' = (hurt \/ confirm = "copying")
    /\ install' = "idle" /\ confirm' = "done" /\ marker' = FALSE /\ guard' = "off"
    /\ UNCHANGED <<slots, records, kernel, target, served>>

(* The power is lost, or somebody reboots the device.                      *)
PowerLoss == Up /\ Fault /\ GoesOff

(* rebootForKernel *)
RebootForKernel == Up /\ install = "reboot" /\ GoesOff /\ UNCHANGED used

(* S02abtrial: watch looks for the marker once a second, and once the      *)
(* deadline has passed does not look again.                                *)
GuardConfirmed ==
    /\ guard = "watching" /\ marker
    /\ guard' = "off"
    /\ UNCHANGED <<slots, records, slot, kernel, marker, server, history, used>>

GuardExpires ==
    /\ guard = "watching" /\ ~marker
    /\ guard' = "expired"
    /\ UNCHANGED <<slots, records, slot, kernel, marker, server, history, used>>

GuardReboots == guard = "expired" /\ GoesOff /\ UNCHANGED used

Selectable == abState = "trial" /\ bootcnt + 1 <= 1

Booted(s, image) ==
    /\ slot' = s /\ kernel' = image
    /\ guard' = IF s = "trial" THEN "watching" ELSE "off"
    /\ confirm' = IF s = "trial" THEN "waiting" ELSE "done"

(* Defect: an attempt is not counted.                                      *)
BootUncounted ==
    /\ slot = "off"
    /\ IF Selectable
         THEN IF alt = Torn THEN UNCHANGED <<slot, kernel, guard, confirm>> ELSE Booted("trial", alt)
         ELSE IF good = Torn THEN Booted("dead", kernel) ELSE Booted("good", good)
    /\ UNCHANGED <<slots, records, marker, install, target, history, used>>

(* The boot loader: the trial slot gets one attempt.  A trial image that   *)
(* does not load resets the machine; behind boot.sd there is nothing left. *)
Boot ==
    /\ slot = "off"
    /\ IF Selectable
         THEN IF alt = Torn THEN UNCHANGED <<slot, kernel, guard, confirm>> ELSE Booted("trial", alt)
         ELSE IF good = Torn THEN Booted("dead", kernel) ELSE Booted("good", good)
    /\ bootcnt' = IF Selectable THEN bootcnt + 1 ELSE bootcnt
    /\ UNCHANGED <<good, alt, abState, records, marker, install, target, history, used>>

(* The server dies or is restarted, as after an update of the application: *)
(* main starts confirmKernel again, for the command line still says trial. *)
ServerRestarts ==
    /\ Up /\ Fault
    /\ hurt' = (hurt \/ confirm = "copying")
    /\ install' = "idle" /\ confirm' = IF slot = "trial" THEN "waiting" ELSE "done"
    /\ UNCHANGED <<slots, records, machine, target, served>>

Install ==
    \/ Disarm \/ WriteAlt \/ AltWritten \/ ResetBootCount \/ Arm \/ MarkPending \/ RebootForKernel
ConfirmWhenReady ==
    \/ Ready \/ NotReady \/ CheckRoom \/ CopyGood \/ GoodCopied \/ Commit
    \/ ConfirmResets \/ RecordInstalled \/ RemovePending
Guard == GuardConfirmed \/ GuardExpires \/ GuardReboots

Next ==
    \/ \E k \in Kernels : Start(k)
    \/ Install \/ StepFails \/ DismissRollback
    \/ ConfirmWhenReady \/ ConfirmFails
    \/ Guard \/ Boot \/ PowerLoss \/ ServerRestarts

Spec == Init /\ [][Next]_vars /\ WF_vars(Guard) /\ WF_vars(Boot)

-----------------------------------------------------------------------------

(* "a half-written boot.alt is never selectable": wherever the power is    *)
(* lost, a boot loader that would start the trial slot finds a whole       *)
(* kernel in it (kernel.go kernelInstallSteps; bootslot.go Confirm).       *)
SelectableIsWhole == Selectable => alt \in Kernels

(* The device always has a slot it can start, unless a commit was cut      *)
(* short or copied another kernel than the running one: neither an         *)
(* installation nor a trial that fails or does not fit costs the committed *)
(* kernel                                                                  *)
(* (kernel.go installKernelPayload; bootslot.go ensureRoomToCommit).       *)
BricksOnlyInCommit == slot = "dead" => hurt

(* "a commit that fails after that simply rolls back on the next boot":    *)
(* the next boot finds a kernel it can start, wherever the copy over the   *)
(* committed kernel stopped (bootslot.go Confirm, copyFile).  It does not: *)
(* the copy is made in place, and with the trial's attempt spent there is  *)
(* no other slot (BootSlotCutCommit.cfg).                                  *)
FailedCommitRollsBack == slot # "dead"

(* A kernel that starts and never serves is given up for the committed     *)
(* one, without anybody's help (S02abtrial; bootslot.go ConfirmWhenReady). *)
RollsBack == (slot = "trial" /\ kernel \notin Works /\ ~hurt) ~> slot = "good"

(* "the gate a trial kernel has to pass before it is committed": a whole   *)
(* kernel in boot.sd is one that ran and served                            *)
(* (bootslot.go Ready, Confirm; main.go confirmKernel).                    *)
OnlyTriedCommitted == good \in served \cup {Torn}
=============================================================================
