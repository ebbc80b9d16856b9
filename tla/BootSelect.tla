----------------------------- MODULE BootSelect -----------------------------
(***************************************************************************)
(* What x-boot starts: boot_main in boot/third/third.c on a NAND board with   *)
(* FAST_BOOT_SUPPORT and the logo file, over many starts.  The system that   *)
(* runs between two starts is external: it may leave a request for recovery  *)
(* in the scratch pad register of the CPM or in the bootloader message of    *)
(* the misc partition, and recovery removes the message when it is done.     *)
(*                                                                         *)
(* boot, recovery and fastboot themselves are in NandImage and Fastboot.     *)
(***************************************************************************)
EXTENDS Integers

CONSTANTS
    Keys,       \* keys the user may hold: subset of {"fast", "recovery"}
    Bounce,     \* TRUE: a key read twice may give two values
    Damaged     \* images that may fail the magic number test, subset of {"boot", "recovery"}

ASSUME BootSelectAssumption ==
    /\ Keys \subseteq {"fast", "recovery"}
    /\ Bounce \in BOOLEAN
    /\ Damaged \subseteq {"boot", "recovery"}

\* Values of bootloader_message.command; "none" is an empty one.
Messages == {"none", "boot-recovery", "update-radio", "update-xboot", "other"}

\* count is not counted beyond this.
MaxCount == 12

VARIABLES
    pc,        \* "off" "keys" "again" "more" "wait" "message" | "fastboot" "running" "stopped"
    held,      \* keys held at this start
    scrpad,    \* the scratch pad holds RECOVERY_SIGNATURE
    misc,      \* the command in the misc partition
    usb,       \* __usb_detected()
    count,     \* count of boot_main, up to MaxCount
    os,        \* the system that was started last
    \* history
    wanted,    \* the recovery requests this start has seen: "key", "signature"
    owed       \* the system has asked for recovery in misc and recovery is not done

vars == <<pc, held, scrpad, misc, usb, count, os, wanted, owed>>

Init ==
    /\ pc = "off" /\ held = {} /\ scrpad = FALSE /\ misc = "none" /\ usb \in BOOLEAN /\ count = 0 /\ os = "none"
    /\ wanted = {} /\ owed = FALSE

\* Power or reset; the user may hold keys.
PowerOn ==
    /\ pc = "off" /\ pc' = "keys"
    /\ held' \in SUBSET Keys
    /\ count' = 0 /\ wanted' = IF "recovery" \in held' THEN {"key"} ELSE {}
    /\ UNCHANGED <<scrpad, misc, usb, os, owed>>

\* get_boot_keys, the first look at the fast key: FASTBOOT_RECOVERY_BOOT.
FirstFastKey ==
    /\ pc = "keys"
    /\ \/ "fast" \in held /\ pc' = "wait"
       \/ ("fast" \notin held \/ Bounce) /\ pc' = "again"
    /\ UNCHANGED <<held, scrpad, misc, usb, count, os, wanted, owed>>

\* The second look: FAST_BOOT, for which boot_main has no case.
SecondFastKey ==
    /\ pc = "again"
    /\ \/ "fast" \in held /\ pc' = "message"
       \/ ("fast" \notin held \/ Bounce) /\ pc' = "more"
    /\ UNCHANGED <<held, scrpad, misc, usb, count, os, wanted, owed>>

\* The recovery key, then the signature, which is cleared: RECOVERY_BOOT, for which
\* boot_main has no case either.
RecoveryRequest ==
    /\ pc = "more" /\ pc' = "message"
    /\ IF "recovery" \notin held /\ scrpad
       THEN scrpad' = FALSE /\ wanted' = wanted \cup {"signature"}
       ELSE UNCHANGED <<scrpad, wanted>>
    /\ UNCHANGED <<held, misc, usb, count, os, owed>>

\* nand_boot: it returns, and boot_main ends, when the image is not good.
NandBoot(image) ==
    \/ pc' = "running" /\ os' = image
    \/ image \in Damaged /\ pc' = "stopped" /\ os' = "none"

\* Mutants of GiveUp: one poll too many; the counter never moves.
GiveUpLate(n) == n = 11
GiveUpNever(n) == FALSE

\* count++ == 10
GiveUp(n) == n = 10

\* The loop that waits for a USB host: fastboot when there is one, recovery after
\* eleven looks, 500 ms apart.
WaitForUsb ==
    /\ pc = "wait"
    /\ IF usb THEN pc' = "fastboot" /\ UNCHANGED <<count, os>>
       ELSE /\ count' = IF count < MaxCount THEN count + 1 ELSE count
            /\ IF GiveUp(count) THEN NandBoot("recovery") ELSE UNCHANGED <<pc, os>>
    /\ UNCHANGED <<held, scrpad, misc, usb, wanted, owed>>

\* Mutant of BootSelected: update-xboot is treated like an unknown command.
BootSelectedForgets == IF misc \in {"boot-recovery", "update-radio"} THEN "recovery" ELSE "boot"

\* Mutant of BootSelected: every command is taken for recovery.
BootSelectedAny == IF misc # "none" THEN "recovery" ELSE "boot"

\* handle_bootloader_command; update_firmware does nothing.
BootSelected ==
    IF misc \in {"boot-recovery", "update-radio", "update-xboot"} THEN "recovery" ELSE "boot"

HandleMessage ==
    /\ pc = "message"
    /\ NandBoot(BootSelected)
    /\ UNCHANGED <<held, scrpad, misc, usb, count, wanted, owed>>

\* The fastboot command continue: nand_boot(NORMAL_BOOT), whatever the message says;
\* when the image is not good, fastboot goes on.
Continue ==
    /\ pc = "fastboot"
    /\ pc' = "running" /\ os' = "boot"
    /\ UNCHANGED <<held, scrpad, misc, usb, count, wanted, owed>>

-----------------------------------------------------------------------------
(* The system that runs until the next start *)

\* It asks for recovery or for an update, in the message or in the scratch pad.
AskInMisc(cmd) ==
    /\ pc = "running" /\ misc' = cmd
    /\ owed' = (cmd \in {"boot-recovery", "update-radio", "update-xboot"})
    /\ UNCHANGED <<pc, held, scrpad, usb, count, os, wanted>>

AskInScratchPad ==
    /\ pc = "running" /\ scrpad' = TRUE
    /\ UNCHANGED <<pc, held, misc, usb, count, os, wanted, owed>>

RecoveryDone ==
    /\ pc = "running" /\ os = "recovery"
    /\ misc' = "none" /\ owed' = FALSE
    /\ UNCHANGED <<pc, held, scrpad, usb, count, os, wanted>>

\* The cable.
PlugOrUnplug ==
    /\ usb' = ~usb
    /\ UNCHANGED <<pc, held, scrpad, misc, count, os, wanted, owed>>

\* A reset at any time; the scratch pad keeps its value, or loses it with the power.
Reset ==
    /\ pc # "off" /\ pc' = "off" /\ scrpad' \in {scrpad, FALSE}
    /\ held' = {} /\ wanted' = {} /\ count' = 0
    /\ UNCHANGED <<misc, usb, os, owed>>

-----------------------------------------------------------------------------
XBoot ==
    FirstFastKey \/ SecondFastKey \/ RecoveryRequest \/ WaitForUsb \/ HandleMessage

System == (\E cmd \in Messages \ {"none"} : AskInMisc(cmd)) \/ AskInScratchPad \/ RecoveryDone

Next == PowerOn \/ XBoot \/ Continue \/ System \/ PlugOrUnplug \/ Reset

Spec == Init /\ [][Next]_vars

-----------------------------------------------------------------------------
(* Properties *)

Starting == {"keys", "again", "more", "wait", "message"}

TypeOK ==
    /\ pc \in Starting \cup {"off", "fastboot", "running", "stopped"}
    /\ held \subseteq Keys /\ scrpad \in BOOLEAN /\ misc \in Messages /\ usb \in BOOLEAN
    /\ count \in 0 .. 11 /\ os \in {"none", "boot", "recovery"}
    /\ wanted \subseteq {"key", "signature"} /\ owed \in BOOLEAN

Started == pc # "running" /\ pc' = "running"

\* A system that has asked for recovery in misc does not run again before recovery
\* has finished, whatever resets happen in between: the only way round recovery is
\* fastboot.
RecoveryComesFirst == [][Started /\ owed /\ pc # "fastboot" => os' = "recovery"]_vars

\* Recovery is started only on a request in misc or by the fast key held without a
\* USB host for all of the eleven looks.
NoUnaskedRecovery ==
    [][Started /\ os' = "recovery" => owed \/ ("fast" \in held /\ count' = 11)]_vars

\* The comments of get_boot_keys and get_recovery_signature, and boot/usb/README: the
\* recovery key, and a recovery signature that a start consumes, start recovery.
RecoveryHonoured == [][Started /\ wanted # {} => os' = "recovery"]_vars

=============================================================================
