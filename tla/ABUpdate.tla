------------------------------- MODULE ABUpdate -------------------------------
(***************************************************************************)
(* The A/B slot state machine of the Exynos bootloader: the slotinfo       *)
(* partition (ab_update.c), the way cmd_boot() uses it, the fastboot       *)
(* set_active command, and resets and power losses between any two steps.  *)
(* part_write() reaches a write cache of the storage device first: reads   *)
(* see it, a power loss may lose it, and it is made durable by             *)
(* scsi_do_ssu() or by waiting ("Delay for data write HW operation").      *)
(* Whether the image of a slot passes verification and comes up is an      *)
(* input; the operating system is external.                                *)
(***************************************************************************)
EXTENDS Integers

Slot == 0 .. 1          \* AB_SLOT_A, AB_SLOT_B

TRIES == 7              \* the tries_remaining that ab_set_active() gives

VARIABLES
    cache,      \* slotinfo as part_read() returns it
    disk,       \* slotinfo as it is after a power loss
    phase,      \* where the machine is: reset, loading, kernel, os, fastboot
    slot,       \* the slot whose images were loaded
    good,       \* the slots whose images boot
    entered     \* history: times the unconfirmed kernel of a slot was entered

vars == <<cache, disk, phase, slot, good, entered>>

SlotInfo ==
    [bootable : {0, 1}, is_active : {0, 1}, boot_successful : {0, 1},
     tries_remaining : 0 .. TRIES]

\* The slotinfo partition; magic tells whether both entries carry "EXBC".
Info == [magic : {"EXBC", "none"}, a : [Slot -> SlotInfo]]

TypeOK ==
    /\ cache \in Info /\ disk \in Info
    /\ phase \in {"reset", "loading", "kernel", "os", "fastboot"}
    /\ slot \in Slot
    /\ good \in SUBSET Slot
    /\ entered \in [Slot -> Nat]

Entry(bootable, is_active, successful, tries) ==
    [bootable |-> bootable, is_active |-> is_active,
     boot_successful |-> successful, tries_remaining |-> tries]

\* A new board has a blank slotinfo partition and images somebody flashed.
Init ==
    /\ cache = [magic |-> "none", a |-> [s \in Slot |-> Entry(0, 0, 0, 0)]]
    /\ disk = cache
    /\ phase = "reset"
    /\ slot = 0
    /\ good \in SUBSET Slot
    /\ entered = [s \in Slot |-> 0]

-----------------------------------------------------------------------------
Other(s) == 1 - s

\* Mutant: the exhausted slot is deactivated only.
Exhausted_no_switch(info, act) ==
    [ret |-> "AB_ERROR_NO_BOOTABLE_SLOT",
     info |-> [info EXCEPT !.a[act].bootable = 0, !.a[act].is_active = 0]]

\* What ab_update_slot_info() makes of the partition when the active slot act has
\* no tries left, and what it returns ("RESET" where it resets the machine).
Exhausted(info, act) ==
    IF info.a[Other(act)].bootable = 1
    THEN [ret |-> "RESET",
          info |-> [info EXCEPT !.a[act].bootable = 0, !.a[act].is_active = 0,
                                !.a[Other(act)].is_active = 1]]
    ELSE [ret |-> "AB_ERROR_NO_BOOTABLE_SLOT",
          info |-> [info EXCEPT !.a[act].bootable = 0, !.a[act].is_active = 0]]

\* Mutant: a confirmed slot is counted down like any other.
Checked_ignores_success(info, act) ==
    LET si == info.a[act]
    IN  IF si.bootable = 0
        THEN [ret |-> "AB_ERROR_UNBOOTABLE_SLOT", info |-> info]
        ELSE IF si.tries_remaining = 0 THEN Exhausted(info, act)
        ELSE [ret |-> "OK", info |-> [info EXCEPT !.a[act].tries_remaining = @ - 1]]

\* Mutant: tries_remaining is not counted down.
Checked_no_decrement(info, act) ==
    LET si == info.a[act]
    IN  IF si.bootable = 0
        THEN [ret |-> "AB_ERROR_UNBOOTABLE_SLOT", info |-> info]
        ELSE IF si.boot_successful = 0 /\ si.tries_remaining = 0
        THEN Exhausted(info, act)
        ELSE [ret |-> "OK", info |-> info]

\* The part of ab_update_slot_info() for the one active slot.
Checked(info, act) ==
    LET si == info.a[act]
    IN  IF si.bootable = 0
        THEN [ret |-> "AB_ERROR_UNBOOTABLE_SLOT", info |-> info]
        ELSE IF si.boot_successful = 1
        THEN [ret |-> "OK", info |-> info]
        ELSE IF si.tries_remaining = 0
        THEN Exhausted(info, act)
        ELSE [ret |-> "OK",
              info |-> [info EXCEPT !.a[act].tries_remaining = @ - 1]]

Active(info) == {s \in Slot : info.a[s].is_active = 1}

ab_update_slot_info(info) ==
    CASE info.magic # "EXBC"  -> [ret |-> "AB_ERROR_INVALID_MAGIC", info |-> info]
      [] info.magic = "EXBC" /\ Active(info) = {0}  -> Checked(info, 0)
      [] info.magic = "EXBC" /\ Active(info) = {1}  -> Checked(info, 1)
      [] info.magic = "EXBC" /\ Active(info) = Slot ->
           [ret |-> "AB_ERROR_SLOT_ALL_ACTIVE", info |-> info]
      [] info.magic = "EXBC" /\ Active(info) = {}   ->
           [ret |-> "AB_ERROR_SLOT_ALL_INACTIVE", info |-> info]

ab_current_slot(info) == IF info.a[0].is_active = 1 THEN 0 ELSE 1

ab_set_active(s) ==
    [magic |-> "EXBC",
     a |-> [x \in Slot |-> Entry(1, IF x = s THEN 1 ELSE 0, 0, TRIES)]]

-----------------------------------------------------------------------------
\* cmd_boot() up to the decision what to boot.  The error returns end in
\* fastboot; the switch to the other slot waits for its write and resets.
cmd_boot ==
    /\ phase = "reset"
    /\ LET u == ab_update_slot_info(cache)
       IN  /\ cache' = u.info
           /\ phase' = CASE u.ret = "OK" -> "loading"
                         [] u.ret = "RESET" -> "reset"
                         [] u.ret \notin {"OK", "RESET"} -> "fastboot"
           /\ disk' = IF u.ret = "RESET" THEN cache' ELSE disk
           /\ slot' = IF u.ret = "OK" THEN ab_current_slot(u.info) ELSE slot
    /\ UNCHANGED <<good, entered>>

\* Verification of the loaded images failed: wait for the write and reset.
VerifyFails ==
    /\ phase = "loading" /\ slot \notin good
    /\ disk' = cache
    /\ phase' = "reset"
    /\ UNCHANGED <<cache, slot, good, entered>>

\* Mutant: the kernel is entered without scsi_do_ssu().
EnterKernel_no_ssu ==
    /\ phase = "loading"
    /\ phase' = "kernel"
    /\ entered' = IF cache.a[slot].boot_successful = 1 THEN entered
                  ELSE [entered EXCEPT ![slot] = @ + 1]
    /\ UNCHANGED <<cache, disk, slot, good>>

\* The end of cmd_boot(): scsi_do_ssu(), then the jump to kernel_entry.  (A
\* bad image gets here too: a kernel that verifies may still not come up.)
EnterKernel ==
    /\ phase = "loading"
    /\ disk' = cache
    /\ phase' = "kernel"
    /\ entered' = IF cache.a[slot].boot_successful = 1 THEN entered
                  ELSE [entered EXCEPT ![slot] = @ + 1]
    /\ UNCHANGED <<cache, slot, good>>

\* A watchdog or warm reset: exynos_boot_task() goes to fastboot.
WatchdogReset ==
    /\ phase \in {"kernel", "os"}
    /\ phase' = "fastboot"
    /\ UNCHANGED <<cache, disk, slot, good, entered>>

\* Volume-up is held during a reset: exynos_boot_task() goes to fastboot.
KeyPressed ==
    /\ phase = "reset"
    /\ phase' = "fastboot"
    /\ UNCHANGED <<cache, disk, slot, good, entered>>

\* fastboot set_active:<slot>.
fb_do_set_active(s) ==
    /\ phase = "fastboot"
    /\ cache' = ab_set_active(s)
    /\ entered' = [x \in Slot |-> 0]
    /\ UNCHANGED <<disk, phase, slot, good>>

\* fastboot reboot: scsi_do_ssu() and a reset.
fb_do_reboot ==
    /\ phase = "fastboot"
    /\ disk' = cache
    /\ phase' = "reset"
    /\ UNCHANGED <<cache, slot, good, entered>>

\* Power is lost: a write the device had only cached may be lost with it.
PowerLoss ==
    /\ cache' \in {cache, disk}
    /\ disk' = cache'
    /\ phase' = "reset"
    /\ UNCHANGED <<slot, good, entered>>

-----------------------------------------------------------------------------
\* External: a good image comes up.
OsUp ==
    /\ phase = "kernel" /\ slot \in good
    /\ phase' = "os"
    /\ UNCHANGED <<cache, disk, slot, good, entered>>

\* External: the operating system reports that the slot works.
OsMarksSuccessful ==
    /\ phase = "os"
    /\ cache' = [cache EXCEPT !.a[slot].boot_successful = 1]
    /\ disk' = cache'
    /\ entered' = [entered EXCEPT ![slot] = 0]
    /\ UNCHANGED <<phase, slot, good>>

\* External: an update of the other slot, good or bad, is installed; the
\* operating system activates it and reboots.
OsUpdates ==
    /\ phase = "os"
    /\ cache' = [cache EXCEPT !.a[Other(slot)] = Entry(1, 1, 0, TRIES),
                              !.a[slot].is_active = 0]
    /\ disk' = cache'
    /\ good' \in {good \union {Other(slot)}, good \ {Other(slot)}}
    /\ entered' = [entered EXCEPT ![Other(slot)] = 0]
    /\ phase' = "reset"
    /\ UNCHANGED slot

Next ==
    \/ cmd_boot \/ VerifyFails \/ EnterKernel
    \/ WatchdogReset \/ KeyPressed \/ PowerLoss
    \/ \E s \in Slot : fb_do_set_active(s)
    \/ fb_do_reboot
    \/ OsUp \/ OsMarksSuccessful \/ OsUpdates

Spec == Init /\ [][Next]_vars

-----------------------------------------------------------------------------
\* A power loss at any point leaves a partition the bootloader can use: once
\* it was written, exactly one slot is active, unless no slot is bootable.
DiskStaysUsable ==
    disk.magic = "EXBC" =>
        \/ \E s \in Slot : Active(disk) = {s} /\ disk.a[s].bootable = 1
        \/ Active(disk) = {} /\ \A s \in Slot : disk.a[s].bootable = 0

\* A slot that never comes up is tried at most TRIES times after it was made
\* active, whatever power losses and resets happen: the decremented count is
\* durable before the kernel runs.
TriesBounded == \A s \in Slot : entered[s] <= TRIES

\* A slot that was confirmed keeps being bootable: only fastboot and updates
\* installed over it take the confirmation away.
ConfirmedStaysBootable ==
    \A s \in Slot : cache.a[s].boot_successful = 1 => cache.a[s].bootable = 1

\* The bootloader gets on with booting, power is not lost at the same point
\* for ever, and a good kernel comes up.
FairSpec ==
    /\ Spec
    /\ WF_vars(cmd_boot)
    /\ SF_vars(VerifyFails \/ EnterKernel)
    /\ SF_vars(OsUp) /\ WF_vars(WatchdogReset /\ slot \notin good)

\* The machine always gets somewhere useful again: a bad update ends, after
\* its tries, in the other slot's operating system or in fastboot.
AlwaysUpAgain == []<>(phase \in {"os", "fastboot"})
=============================================================================
