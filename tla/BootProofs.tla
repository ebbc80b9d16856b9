----------------------------- MODULE BootProofs -----------------------------
(***************************************************************************)
(* Boot selection starts recovery exactly when it was asked for, and the      *)
(* whole start, with charging and the low battery before it, implements boot   *)
(* selection; a board that charges stays off until its power key was held.    *)
(*                                                                         *)
(* RecoveryComesFirst is not inductive: the decision is taken some steps after *)
(* the request.  RequestInv relates the history to what the code reads at that *)
(* moment: the message in misc, and the key that led into the wait.           *)
(*                                                                         *)
(* What read_battery returns is bounded by induction over its samples; a good  *)
(* battery then starts the board and an empty one does not.                   *)
(***************************************************************************)
EXTENDS BootStart, WellFoundedInduction, TLAPS

(* Boot selection *)

RequestMessages == {"boot-recovery", "update-radio", "update-xboot"}

\* A request is owed as long as the message says so, and x-boot waits for a USB host
\* only while the fast key of this start is on record.
RequestInv ==
    /\ owed \in BOOLEAN
    /\ owed <=> misc \in RequestMessages
    /\ pc = "wait" => "fast" \in held

LEMMA RequestInit == Init => RequestInv
BY DEF Init, RequestInv, RequestMessages

LEMMA RequestStep == RequestInv /\ [Next]_vars => RequestInv'
<1> SUFFICES ASSUME RequestInv, [Next]_vars PROVE RequestInv'
  OBVIOUS
<1> USE DEF RequestInv, RequestMessages
<1>1. CASE PowerOn
  BY <1>1 DEF PowerOn
<1>2. CASE FirstFastKey
  BY <1>2 DEF FirstFastKey
<1>3. CASE SecondFastKey
  BY <1>3 DEF SecondFastKey
<1>4. CASE RecoveryRequest
  BY <1>4 DEF RecoveryRequest
<1>5. CASE WaitForUsb
  BY <1>5 DEF WaitForUsb, NandBoot
<1>6. CASE HandleMessage
  BY <1>6 DEF HandleMessage, NandBoot
<1>7. CASE Continue
  BY <1>7 DEF Continue
<1>8. ASSUME NEW cmd \in Messages \ {"none"}, AskInMisc(cmd)
      PROVE  RequestInv'
  <2>1. owed' = (cmd \in RequestMessages) /\ misc' = cmd
    BY <1>8 DEF AskInMisc
  <2>2. owed' \in BOOLEAN /\ (owed' <=> misc' \in RequestMessages)
    <3>1. CASE cmd \in RequestMessages
      <4>1. owed' = TRUE
        BY <2>1, <3>1
      <4> QED
        BY <2>1, <3>1, <4>1
    <3>2. CASE cmd \notin RequestMessages
      <4>1. (cmd \in RequestMessages) = FALSE
        BY <3>2
      <4>2. owed' = FALSE
        BY <2>1, <4>1
      <4> QED
        BY <2>1, <3>2, <4>2
    <3> QED
      BY <3>1, <3>2
  <2>3. pc' = "wait" => "fast" \in held'
    BY <1>8 DEF AskInMisc
  <2> QED
    BY <2>2, <2>3
<1>9. CASE AskInScratchPad
  BY <1>9 DEF AskInScratchPad
<1>10. CASE RecoveryDone
  BY <1>10 DEF RecoveryDone
<1>11. CASE PlugOrUnplug
  BY <1>11 DEF PlugOrUnplug
<1>12. CASE Reset
  BY <1>12 DEF Reset
<1>13. CASE UNCHANGED vars
  BY <1>13 DEF vars
<1> QED
  BY <1>1, <1>2, <1>3, <1>4, <1>5, <1>6, <1>7, <1>8, <1>9, <1>10, <1>11, <1>12, <1>13
  DEF Next, XBoot, System

\* A step that starts a system is the end of the wait, the message or continue.
LEMMA WaysToStart ==
    ASSUME Next, Started
    PROVE  \/ WaitForUsb /\ pc = "wait" /\ GiveUp(count) /\ NandBoot("recovery")
           \/ HandleMessage /\ pc = "message" /\ NandBoot(BootSelected)
           \/ Continue /\ pc = "fastboot"
<1>1. ~PowerOn /\ ~FirstFastKey /\ ~SecondFastKey /\ ~RecoveryRequest /\ ~PlugOrUnplug /\ ~Reset
  BY DEF Started, PowerOn, FirstFastKey, SecondFastKey, RecoveryRequest, PlugOrUnplug, Reset
<1>2. ~System
  BY DEF Started, System, AskInMisc, AskInScratchPad, RecoveryDone
<1>3. CASE WaitForUsb
  BY <1>3 DEF WaitForUsb, Started
<1>4. CASE HandleMessage
  BY <1>4 DEF HandleMessage
<1>5. CASE Continue
  BY <1>5 DEF Continue
<1> QED
  BY <1>1, <1>2, <1>3, <1>4, <1>5 DEF Next, XBoot

\* After a request in misc no start, however often it is reset, starts the normal
\* system before recovery has removed the request; only fastboot's continue may.
THEOREM RequestHonoured == Spec => RecoveryComesFirst
<1>1. ASSUME RequestInv, [Next]_vars
      PROVE  [Started /\ owed /\ pc # "fastboot" => os' = "recovery"]_vars
  <2> SUFFICES ASSUME Next, Started, owed, pc # "fastboot" PROVE os' = "recovery"
    BY <1>1
  <2>1. misc \in RequestMessages
    BY <1>1 DEF RequestInv
  <2>2. BootSelected = "recovery"
    BY <2>1 DEF BootSelected, RequestMessages
  <2>3. NandBoot("recovery")
    BY <2>2, WaysToStart
  <2> QED
    BY <2>3 DEF NandBoot, Started
<1> QED
  BY <1>1, RequestInit, RequestStep, PTL DEF Spec, RecoveryComesFirst

\* Recovery, which may erase the user's data, is started on a request in misc or after
\* eleven looks for a USB host with the fast key held, and in no other way.
THEOREM RecoveryOnlyOnRequest == Spec => NoUnaskedRecovery
<1>1. ASSUME RequestInv, [Next]_vars
      PROVE  [Started /\ os' = "recovery" => owed \/ ("fast" \in held /\ count' = 11)]_vars
  <2> SUFFICES ASSUME Next, Started, os' = "recovery"
               PROVE  owed \/ ("fast" \in held /\ count' = 11)
    BY <1>1
  <2>1. CASE WaitForUsb /\ pc = "wait" /\ GiveUp(count)
    BY <1>1, <2>1 DEF WaitForUsb, GiveUp, RequestInv, MaxCount, Started
  <2>2. CASE HandleMessage /\ NandBoot(BootSelected)
    <3>1. BootSelected = "recovery"
      BY <2>2 DEF NandBoot, Started
    <3> QED
      BY <1>1, <3>1 DEF BootSelected, RequestInv, RequestMessages
  <2>3. CASE Continue
    BY <2>3 DEF Continue
  <2> QED
    BY WaysToStart, <2>1, <2>2, <2>3
<1> QED
  BY <1>1, RequestInit, RequestStep, PTL DEF Spec, NoUnaskedRecovery

-----------------------------------------------------------------------------
\* The wait for a host ends at the eleventh look.
CountInv == TypeOK /\ (pc = "wait" => count <= 10) /\ (pc \in {"again", "keys"} => count = 0)

LEMMA CountStep == CountInv /\ [Next]_vars => CountInv'
<1> SUFFICES ASSUME CountInv, [Next]_vars PROVE CountInv'
  OBVIOUS
<1>1. CASE PowerOn
  <2>1. held' \subseteq Keys
    BY <1>1 DEF PowerOn
  <2>2. wanted' = {"key"} \/ wanted' = {}
    BY <1>1 DEF PowerOn
  <2>3. wanted' \subseteq {"key", "signature"}
    BY <2>2
  <2>4. pc' = "keys" /\ count' = 0
    BY <1>1 DEF PowerOn
  <2> QED
    <3>1. UNCHANGED <<scrpad, misc, usb, os, owed>>
      BY <1>1 DEF PowerOn
    <3>2. TypeOK'
      BY <2>1, <2>3, <2>4, <3>1 DEF CountInv, TypeOK, Starting
    <3>3. pc' # "wait"
      BY <2>4
    <3> QED
      BY <2>4, <3>2, <3>3 DEF CountInv
<1>2. CASE FirstFastKey \/ SecondFastKey
  <2>1. UNCHANGED <<held, scrpad, misc, usb, count, os, wanted, owed>> /\ count = 0
    BY <1>2 DEF FirstFastKey, SecondFastKey, CountInv
  <2>2. pc' \in Starting
    BY <1>2 DEF FirstFastKey, SecondFastKey, Starting
  <2>3. TypeOK'
    BY <2>1, <2>2 DEF CountInv, TypeOK, Starting
  <2> QED
    BY <2>1, <2>3 DEF CountInv
<1>3. CASE RecoveryRequest
  <2>1. scrpad' \in BOOLEAN /\ wanted' \subseteq {"key", "signature"}
    BY <1>3 DEF RecoveryRequest, CountInv, TypeOK
  <2> QED
    BY <1>3, <2>1 DEF RecoveryRequest, CountInv, TypeOK, Starting
<1>4. CASE WaitForUsb
  <2>1. pc = "wait" /\ count \in 0 .. 10
    BY <1>4 DEF WaitForUsb, CountInv, TypeOK
  <2>2. /\ count' \in 0 .. 11 /\ pc' \in {"wait", "fastboot", "running", "stopped"}
        /\ os' \in {"none", "boot", "recovery"}
        /\ pc' = "wait" => count' <= 10
    <3>1. CASE usb
      BY <1>4, <2>1, <3>1 DEF WaitForUsb, CountInv, TypeOK
    <3>2. CASE ~usb
      BY <1>4, <2>1, <3>2 DEF WaitForUsb, CountInv, TypeOK, MaxCount, GiveUp, NandBoot
    <3> QED
      BY <3>1, <3>2
  <2> QED
    BY <1>4, <2>1, <2>2 DEF WaitForUsb, CountInv, TypeOK, Starting
<1>5. CASE HandleMessage
  BY <1>5 DEF HandleMessage, NandBoot, BootSelected, CountInv, TypeOK, Starting
<1>6. CASE Continue
  BY <1>6 DEF Continue, CountInv, TypeOK, Starting
<1>7. ASSUME NEW cmd \in Messages \ {"none"}, AskInMisc(cmd) PROVE CountInv'
  <2>1. owed' \in BOOLEAN
    BY <1>7 DEF AskInMisc
  <2> QED
    BY <1>7, <2>1 DEF AskInMisc, CountInv, TypeOK
<1>8. CASE AskInScratchPad \/ RecoveryDone
  BY <1>8 DEF AskInScratchPad, RecoveryDone, CountInv, TypeOK, Messages
<1>9. CASE PlugOrUnplug
  BY <1>9 DEF PlugOrUnplug, CountInv, TypeOK
<1>10. CASE Reset
  <2>1. scrpad' \in BOOLEAN
    BY <1>10 DEF Reset, CountInv, TypeOK
  <2>2. pc' = "off" /\ held' = {} /\ wanted' = {} /\ count' = 0
    BY <1>10 DEF Reset
  <2> QED
    BY <1>10, <2>1, <2>2 DEF Reset, CountInv, TypeOK, Starting
<1>11. CASE UNCHANGED vars
  BY <1>11 DEF vars, CountInv, TypeOK
<1> QED
  BY <1>1, <1>2, <1>3, <1>4, <1>5, <1>6, <1>7, <1>8, <1>9, <1>10, <1>11
     DEF Next, XBoot, System

\* Every variable keeps its type; the counter of the wait never passes eleven, with
\* every cable and at every reset.
THEOREM TypeCorrect == Spec => []TypeOK
<1>1. Init => CountInv
  <2> SUFFICES ASSUME Init PROVE CountInv
    OBVIOUS
  <2>1. pc = "off" /\ count = 0 /\ os = "none" /\ misc = "none"
    BY DEF Init
  <2>2. held = {} /\ wanted = {} /\ scrpad = FALSE /\ owed = FALSE /\ usb \in BOOLEAN
    BY DEF Init
  <2>3. scrpad \in BOOLEAN /\ owed \in BOOLEAN
    BY <2>2
  <2> QED
    BY <2>1, <2>2, <2>3 DEF CountInv, TypeOK, Messages, Starting
<1>2. CountInv => TypeOK
  BY DEF CountInv
<1> QED
  BY <1>1, <1>2, CountStep, PTL DEF Spec

-----------------------------------------------------------------------------
(* The whole start *)

LEMMA InitImplements == StartInit => Init
BY DEF StartInit

\* A step of the power side leaves boot selection alone, or resets it.
LEMMA PmStep == Pm => Reset \/ UNCHANGED vars
<1> SUFFICES ASSUME Pm PROVE Reset \/ UNCHANGED vars
  OBVIOUS
<1>1. CASE DetectBootMode
  BY <1>1 DEF DetectBootMode
<1>2. CASE ChargeDetect
  BY <1>2 DEF ChargeDetect
<1>3. CASE Charge
  BY <1>3 DEF Charge
<1>4. CASE ChargeLoop
  BY <1>4 DEF ChargeLoop, PluggedOrHibernate, Hibernate
<1>5. CASE Hold
  BY <1>5 DEF Hold
<1>6. CASE HeldLong
  BY <1>6 DEF HeldLong
<1>7. CASE ReleasedInLoop
  BY <1>7 DEF ReleasedInLoop, PluggedOrHibernate, Hibernate
<1>8. CASE ReleasedInDraw
  BY <1>8 DEF ReleasedInDraw
<1>9. CASE Draw
  BY <1>9 DEF Draw
<1>10. CASE Shown
  BY <1>10 DEF Shown
<1>11. CASE Idle
  BY <1>11 DEF Idle
<1>12. CASE Judge
  BY <1>12 DEF Judge, ToMain
<1>13. CASE LowBatteryDetect
  BY <1>13 DEF LowBatteryDetect, ToMain
<1>14. CASE LowBattery
  BY <1>14 DEF LowBattery, Hibernate
<1>15. CASE Enough
  BY <1>15 DEF Enough, ToMain
<1> QED
  BY <1>1, <1>2, <1>3, <1>4, <1>5, <1>6, <1>7, <1>8, <1>9, <1>10, <1>11, <1>12, <1>13,
     <1>14, <1>15 DEF Pm

LEMMA StepImplements == [StartNext]_<<vars, power>> => [Next]_vars
<1> SUFFICES ASSUME [StartNext]_<<vars, power>> PROVE [Next]_vars
  OBVIOUS
<1>1. CASE StartUp
  BY <1>1 DEF StartUp, Next
<1>2. CASE Pm
  BY <1>2, PmStep DEF Next
<1>3. CASE Select
  BY <1>3 DEF Select, Next
<1>4. CASE AnyReset
  BY <1>4 DEF AnyReset, Next
<1>5. CASE World
  BY <1>5 DEF World, Usb, Dc, PowerKey, BatteryChanges, Next
<1>6. CASE UNCHANGED <<vars, power>>
  BY <1>6
<1> QED
  BY <1>1, <1>2, <1>3, <1>4, <1>5, <1>6 DEF StartNext

\* Charging, the low battery and hibernation add nothing that boot selection does not
\* allow already: every start is one of BootSelect's.
THEOREM StartImplementsSelect == StartSpec => Spec
BY InitImplements, StepImplements, PTL DEF StartSpec, Spec

\* So a request in misc is honoured also by a board that charged, hibernated or was
\* reset on the way.
THEOREM StartHonoursRequest == StartSpec => RecoveryComesFirst
BY StartImplementsSelect, RequestHonoured, PTL

-----------------------------------------------------------------------------
(* Charging *)

\* The two ways out of the charge loop: the flag, and the long press seen by the loop
\* itself, which sets no flag.
PressInv ==
    /\ flag => pressed
    /\ charged /\ at \in {"judge", "battery", "voltage"} => pressed
    /\ charged => at \notin {"off", "mode", "detect"}

LEMMA PressInit == StartInit => PressInv
BY DEF StartInit, PressInv

LEMMA PressStep == PressInv /\ [StartNext]_<<vars, power>> => PressInv'
<1> SUFFICES ASSUME PressInv, [StartNext]_<<vars, power>> PROVE PressInv'
  OBVIOUS
<1> USE DEF PressInv, History, Pins
<1>1. CASE StartUp
  BY <1>1 DEF StartUp
<1>2. CASE Pm
  <2>1. CASE DetectBootMode
    BY <2>1 DEF DetectBootMode
  <2>2. CASE ChargeDetect
    BY <2>2 DEF ChargeDetect
  <2>3. CASE Charge
    BY <2>3 DEF Charge
  <2>4. CASE ChargeLoop
    BY <2>4 DEF ChargeLoop, LeaveCharge, PluggedOrHibernate, Hibernate, Clear
  <2>5. CASE Hold
    BY <2>5 DEF Hold
  <2>6. CASE HeldLong
    BY <2>6 DEF HeldLong
  <2>7. CASE ReleasedInLoop
    BY <2>7 DEF ReleasedInLoop, PluggedOrHibernate, Hibernate, Clear
  <2>8. CASE ReleasedInDraw
    BY <2>8 DEF ReleasedInDraw
  <2>9. CASE Draw
    BY <2>9 DEF Draw
  <2>10. CASE Shown
    BY <2>10 DEF Shown
  <2>11. CASE Idle
    BY <2>11 DEF Idle
  <2>12. CASE Judge
    BY <2>12 DEF Judge, ToMain, Clear
  <2>13. CASE LowBatteryDetect
    BY <2>13 DEF LowBatteryDetect, ToMain, Clear
  <2>14. CASE LowBattery
    BY <2>14 DEF LowBattery, Hibernate, Clear
  <2>15. CASE Enough
    BY <2>15 DEF Enough, ToMain, Clear
  <2> QED
    BY <1>2, <2>1, <2>2, <2>3, <2>4, <2>5, <2>6, <2>7, <2>8, <2>9, <2>10, <2>11, <2>12,
       <2>13, <2>14, <2>15 DEF Pm
<1>3. CASE Select
  BY <1>3 DEF Select, power
<1>4. CASE AnyReset
  BY <1>4 DEF AnyReset, Clear
<1>5. CASE World
  BY <1>5 DEF World, Usb, Dc, PowerKey, BatteryChanges, Rest
<1>6. CASE UNCHANGED <<vars, power>>
  BY <1>6 DEF power
<1> QED
  BY <1>1, <1>2, <1>3, <1>4, <1>5, <1>6 DEF StartNext

\* Only three steps lead to the boot keys.
LEMMA WaysToMain ==
    ASSUME StartNext, GoesOn
    PROVE  at \in {"judge", "battery", "voltage"} /\ (Judge \/ LowBatteryDetect \/ Enough)
<1> USE DEF GoesOn
<1>1. CASE StartUp
  BY <1>1 DEF StartUp
<1>2. CASE Pm
  <2>1. ~DetectBootMode /\ ~ChargeDetect /\ ~Charge /\ ~ChargeLoop /\ ~Hold /\ ~HeldLong
    BY DEF DetectBootMode, ChargeDetect, Charge, ChargeLoop, PluggedOrHibernate, Hibernate,
           Hold, HeldLong
  <2>2. ~ReleasedInLoop /\ ~ReleasedInDraw /\ ~Draw /\ ~Shown /\ ~Idle /\ ~LowBattery
    BY DEF ReleasedInLoop, PluggedOrHibernate, Hibernate, ReleasedInDraw, Draw, Shown, Idle,
           LowBattery
  <2>3. Judge \/ LowBatteryDetect \/ Enough
    BY <1>2, <2>1, <2>2 DEF Pm
  <2> QED
    BY <2>3 DEF Judge, LowBatteryDetect, Enough
<1>3. CASE Select
  BY <1>3 DEF Select
<1>4. CASE AnyReset
  BY <1>4 DEF AnyReset
<1>5. CASE World
  BY <1>5 DEF World, Usb, Dc, PowerKey, BatteryChanges, Rest
<1> QED
  BY <1>1, <1>2, <1>3, <1>4, <1>5 DEF StartNext

\* However keys, cables and interrupts come, a board that began to charge goes on to
\* the boot keys only after a long press.
THEOREM StaysOff == StartSpec => ChargesUntilPressed
<1>1. ASSUME PressInv, [StartNext]_<<vars, power>>
      PROVE  [GoesOn /\ charged => pressed]_<<vars, power>>
  BY <1>1, WaysToMain DEF PressInv
<1> QED
  BY <1>1, PressInit, PressStep, PTL DEF StartSpec, ChargesUntilPressed

-----------------------------------------------------------------------------
(* Types *)

\* The power side runs before the first key is looked at.
FlowInv ==
    /\ at \in {"off", "mode", "detect", "charge", "press", "draw", "shown", "idle", "judge",
               "battery", "voltage", "main"}
    /\ at = "off" <=> pc = "off"
    /\ at \notin {"off", "main"} => pc = "keys"

\* Each loop leaves its counter at 0, and the animation is looked at again only while
\* it is not over.
LookInv ==
    /\ n \in Nat /\ shown \in 0 .. ShowTime
    /\ at \in {"detect", "judge"} => n <= NDetect
    /\ at = "press" => n < LongPress
    /\ at \notin {"detect", "judge", "press"} => n = 0
    /\ at \in {"draw", "shown"} \/ (at = "press" /\ drawing) => shown < ShowTime

FlagInv ==
    /\ dc \in BOOLEAN /\ key \in BOOLEAN /\ wr \in BOOLEAN /\ seen \in BOOLEAN
    /\ drawing \in BOOLEAN /\ flash \in BOOLEAN /\ flag \in BOOLEAN
    /\ charged \in BOOLEAN /\ pressed \in BOOLEAN /\ alone \in BOOLEAN

DataInv ==
    /\ battery \in Levels
    /\ samples # <<>> => DOMAIN samples = 1 .. NSamples

LEMMA FlowStep == FlowInv /\ [StartNext]_<<vars, power>> => FlowInv'
<1> SUFFICES ASSUME FlowInv, [StartNext]_<<vars, power>> PROVE FlowInv'
  OBVIOUS
<1> USE DEF FlowInv, Pins, vars
<1>1. CASE StartUp
  BY <1>1 DEF StartUp, PowerOn
<1>2. CASE Pm
  <2>1. CASE DetectBootMode
    BY <2>1 DEF DetectBootMode, Reset
  <2>2. CASE ChargeDetect
    BY <2>2 DEF ChargeDetect, ChargeSample, Reset
  <2>3. CASE Charge
    BY <2>3 DEF Charge, Reset
  <2>4. CASE ChargeLoop
    BY <2>4 DEF ChargeLoop, LeaveCharge, PluggedOrHibernate, Hibernate, Clear, Reset
  <2>5. CASE Hold
    BY <2>5 DEF Hold, Reset
  <2>6. CASE HeldLong
    BY <2>6 DEF HeldLong, Reset
  <2>7. CASE ReleasedInLoop
    BY <2>7 DEF ReleasedInLoop, PluggedOrHibernate, Hibernate, Clear, Reset
  <2>8. CASE ReleasedInDraw
    BY <2>8 DEF ReleasedInDraw, Reset
  <2>9. CASE Draw
    BY <2>9 DEF Draw, Reset
  <2>10. CASE Shown
    BY <2>10 DEF Shown, Reset
  <2>11. CASE Idle
    BY <2>11 DEF Idle, Reset
  <2>12. CASE Judge
    BY <2>12 DEF Judge, ToMain, Clear, Reset
  <2>13. CASE LowBatteryDetect
    BY <2>13 DEF LowBatteryDetect, ToMain, Clear, Reset
  <2>14. CASE LowBattery
    BY <2>14 DEF LowBattery, Hibernate, Clear, Reset
  <2>15. CASE Enough
    BY <2>15 DEF Enough, ToMain, Clear, Reset
  <2> QED
    BY <1>2, <2>1, <2>2, <2>3, <2>4, <2>5, <2>6, <2>7, <2>8, <2>9, <2>10, <2>11, <2>12,
       <2>13, <2>14, <2>15 DEF Pm
<1>3. CASE Select
  BY <1>3 DEF Select, power, XBoot, FirstFastKey, SecondFastKey, RecoveryRequest, WaitForUsb, NandBoot, HandleMessage, Continue, System, AskInMisc, AskInScratchPad, RecoveryDone
<1>4. CASE AnyReset
  BY <1>4 DEF AnyReset, Clear, Reset
<1>5. CASE World
  BY <1>5 DEF World, Usb, Dc, PowerKey, BatteryChanges, Rest, PlugOrUnplug
<1>6. CASE UNCHANGED <<vars, power>>
  BY <1>6 DEF power, vars
<1> QED
  BY <1>1, <1>2, <1>3, <1>4, <1>5, <1>6 DEF StartNext


LEMMA LookStep == LookInv /\ [StartNext]_<<vars, power>> => LookInv'
<1> SUFFICES ASSUME LookInv, [StartNext]_<<vars, power>> PROVE LookInv'
  OBVIOUS
<1> USE BootStartAssumption DEF LookInv
<1>1. CASE StartUp
  BY <1>1 DEF StartUp
<1>2. CASE Pm
  <2>1. CASE DetectBootMode
    BY <2>1 DEF DetectBootMode
  <2>2. CASE ChargeDetect
    BY <2>2 DEF ChargeDetect, ChargeSample
  <2>3. CASE Charge
    BY <2>3 DEF Charge
  <2>4. CASE ChargeLoop
    BY <2>4 DEF ChargeLoop, LeaveCharge, PluggedOrHibernate, Hibernate, Clear
  <2>5. CASE Hold
    BY <2>5 DEF Hold
  <2>6. CASE HeldLong
    BY <2>6 DEF HeldLong
  <2>7. CASE ReleasedInLoop
    BY <2>7 DEF ReleasedInLoop, PluggedOrHibernate, Hibernate, Clear
  <2>8. CASE ReleasedInDraw
    BY <2>8 DEF ReleasedInDraw
  <2>9. CASE Draw
    BY <2>9 DEF Draw
  <2>10. CASE Shown
    BY <2>10 DEF Shown
  <2>11. CASE Idle
    BY <2>11 DEF Idle
  <2>12. CASE Judge
    BY <2>12 DEF Judge, ToMain, Clear
  <2>13. CASE LowBatteryDetect
    BY <2>13 DEF LowBatteryDetect, ToMain, Clear
  <2>14. CASE LowBattery
    BY <2>14 DEF LowBattery, Hibernate, Clear
  <2>15. CASE Enough
    BY <2>15 DEF Enough, ToMain, Clear
  <2> QED
    BY <1>2, <2>1, <2>2, <2>3, <2>4, <2>5, <2>6, <2>7, <2>8, <2>9, <2>10, <2>11, <2>12,
       <2>13, <2>14, <2>15 DEF Pm
<1>3. CASE Select
  BY <1>3 DEF Select, power
<1>4. CASE AnyReset
  BY <1>4 DEF AnyReset, Clear
<1>5. CASE World
  BY <1>5 DEF World, Usb, Dc, PowerKey, BatteryChanges, Rest
<1>6. CASE UNCHANGED <<vars, power>>
  BY <1>6 DEF power, vars
<1> QED
  BY <1>1, <1>2, <1>3, <1>4, <1>5, <1>6 DEF StartNext


LEMMA FlagStep == FlagInv /\ [StartNext]_<<vars, power>> => FlagInv'
<1> SUFFICES ASSUME FlagInv, [StartNext]_<<vars, power>> PROVE FlagInv'
  OBVIOUS
<1> USE DEF FlagInv, Pins, History
<1>1. CASE StartUp
  BY <1>1 DEF StartUp
<1>2. CASE Pm
  <2>1. CASE DetectBootMode
    BY <2>1 DEF DetectBootMode
  <2>2. CASE ChargeDetect
    BY <2>2 DEF ChargeDetect, ChargeSample
  <2>3. CASE Charge
    BY <2>3 DEF Charge
  <2>4. CASE ChargeLoop
    BY <2>4 DEF ChargeLoop, LeaveCharge, PluggedOrHibernate, Hibernate, Clear
  <2>5. CASE Hold
    BY <2>5 DEF Hold
  <2>6. CASE HeldLong
    BY <2>6 DEF HeldLong
  <2>7. CASE ReleasedInLoop
    BY <2>7 DEF ReleasedInLoop, PluggedOrHibernate, Hibernate, Clear
  <2>8. CASE ReleasedInDraw
    BY <2>8 DEF ReleasedInDraw
  <2>9. CASE Draw
    BY <2>9 DEF Draw
  <2>10. CASE Shown
    BY <2>10 DEF Shown
  <2>11. CASE Idle
    BY <2>11 DEF Idle
  <2>12. CASE Judge
    BY <2>12 DEF Judge, ToMain, Clear
  <2>13. CASE LowBatteryDetect
    BY <2>13 DEF LowBatteryDetect, ToMain, Clear
  <2>14. CASE LowBattery
    BY <2>14 DEF LowBattery, Hibernate, Clear
  <2>15. CASE Enough
    BY <2>15 DEF Enough, ToMain, Clear
  <2> QED
    BY <1>2, <2>1, <2>2, <2>3, <2>4, <2>5, <2>6, <2>7, <2>8, <2>9, <2>10, <2>11, <2>12,
       <2>13, <2>14, <2>15 DEF Pm
<1>3. CASE Select
  BY <1>3 DEF Select, power
<1>4. CASE AnyReset
  BY <1>4 DEF AnyReset, Clear
<1>5. CASE World
  <2>1. dc' \in BOOLEAN /\ key' \in BOOLEAN /\ alone' \in BOOLEAN
    <3>1. CASE Usb
      BY <3>1 DEF Usb
    <3>2. CASE Dc
      BY <3>2 DEF Dc
    <3>3. CASE PowerKey
      BY <3>3 DEF PowerKey
    <3>4. CASE BatteryChanges
      BY <3>4 DEF BatteryChanges
    <3> QED
      BY <1>5, <3>1, <3>2, <3>3, <3>4 DEF World
  <2>2. Rest
    BY <1>5 DEF World, Usb, Dc, PowerKey, BatteryChanges
  <2> QED
    BY <2>1, <2>2 DEF Rest
<1>6. CASE UNCHANGED <<vars, power>>
  BY <1>6 DEF power, vars
<1> QED
  BY <1>1, <1>2, <1>3, <1>4, <1>5, <1>6 DEF StartNext


LEMMA DataStep == DataInv /\ [StartNext]_<<vars, power>> => DataInv'
<1> SUFFICES ASSUME DataInv, [StartNext]_<<vars, power>> PROVE DataInv'
  OBVIOUS
<1> USE DEF DataInv, Pins, Levels
<1>1. CASE StartUp
  BY <1>1 DEF StartUp
<1>2. CASE Pm
  <2>1. CASE DetectBootMode
    BY <2>1 DEF DetectBootMode
  <2>2. CASE ChargeDetect
    BY <2>2 DEF ChargeDetect, ChargeSample
  <2>3. CASE Charge
    BY <2>3 DEF Charge
  <2>4. CASE ChargeLoop
    BY <2>4 DEF ChargeLoop, LeaveCharge, PluggedOrHibernate, Hibernate, Clear
  <2>5. CASE Hold
    BY <2>5 DEF Hold
  <2>6. CASE HeldLong
    BY <2>6 DEF HeldLong
  <2>7. CASE ReleasedInLoop
    BY <2>7 DEF ReleasedInLoop, PluggedOrHibernate, Hibernate, Clear
  <2>8. CASE ReleasedInDraw
    BY <2>8 DEF ReleasedInDraw
  <2>9. CASE Draw
    BY <2>9 DEF Draw
  <2>10. CASE Shown
    BY <2>10 DEF Shown
  <2>11. CASE Idle
    BY <2>11 DEF Idle
  <2>12. CASE Judge
    BY <2>12 DEF Judge, ToMain, Clear
  <2>13. CASE LowBatteryDetect
    BY <2>13 DEF LowBatteryDetect, ToMain, Clear
  <2>14. CASE LowBattery
    BY <2>14 DEF LowBattery, Hibernate, Clear
  <2>15. CASE Enough
    BY <2>15 DEF Enough, ToMain, Clear
  <2> QED
    BY <1>2, <2>1, <2>2, <2>3, <2>4, <2>5, <2>6, <2>7, <2>8, <2>9, <2>10, <2>11, <2>12,
       <2>13, <2>14, <2>15 DEF Pm
<1>3. CASE Select
  BY <1>3 DEF Select, power
<1>4. CASE AnyReset
  BY <1>4 DEF AnyReset, Clear
<1>5. CASE World
  BY <1>5 DEF World, Usb, Dc, PowerKey, BatteryChanges, Rest
<1>6. CASE UNCHANGED <<vars, power>>
  BY <1>6 DEF power, vars
<1> QED
  BY <1>1, <1>2, <1>3, <1>4, <1>5, <1>6 DEF StartNext


\* The whole start keeps its types: no loop of pm.c looks more often than it means to.
THEOREM StartTypeCorrect == StartSpec => []StartTypeOK
<1>1. StartInit => FlowInv /\ LookInv /\ FlagInv /\ DataInv
  <2> SUFFICES ASSUME StartInit PROVE FlowInv /\ LookInv /\ FlagInv /\ DataInv
    OBVIOUS
  <2>1. FlowInv
    BY DEF StartInit, Init, FlowInv
  <2>2. LookInv
    BY BootStartAssumption DEF StartInit, LookInv
  <2>3. FlagInv
    BY DEF StartInit, FlagInv
  <2>4. DataInv
    BY DEF StartInit, DataInv
  <2> QED
    BY <2>1, <2>2, <2>3, <2>4
<1>2. TypeOK /\ FlowInv /\ LookInv /\ FlagInv /\ DataInv => StartTypeOK
  BY BootStartAssumption DEF FlowInv, LookInv, FlagInv, DataInv, StartTypeOK
<1>3. StartSpec => []TypeOK
  BY StartImplementsSelect, TypeCorrect, PTL
<1> QED
  BY <1>1, <1>2, <1>3, FlowStep, LookStep, FlagStep, DataStep, PTL DEF StartSpec

-----------------------------------------------------------------------------
(* The battery *)

\* Every set of natural numbers that is not empty has a least element.
LEMMA LeastElement ==
    ASSUME NEW S \in SUBSET Nat, S # {}
    PROVE  \E m \in S : \A x \in S : m <= x
<1> DEFINE R == OpToRel(<, Nat)
<1>1. IsWellFoundedOn(R, Nat)
  BY NatLessThanWellFounded
<1> HIDE DEF R
<1>2. PICK m \in S : \A x \in S : ~ (<<x, m>> \in R)
  BY <1>1, WFMin
<1>3. \A x, y \in Nat : x < y => <<x, y>> \in R
  BY DEF R, OpToRel
<1>4. \A x \in S : x \in Nat
  OBVIOUS
<1>5. ASSUME NEW x \in S PROVE m <= x
  <2>1. m \in Nat /\ x \in Nat /\ ~(x < m)
    BY <1>2, <1>3, <1>4
  <2> QED
    BY <2>1
<1> QED
  BY <1>5

\* A set that has 0, and i + 1 with every i, has every natural number.
LEMMA NatSetInduction ==
    ASSUME NEW S \in SUBSET Nat, 0 \in S, \A x \in S : x + 1 \in S
    PROVE  \A x \in Nat : x \in S
<1> DEFINE T == Nat \ S
<1> SUFFICES ASSUME T # {} PROVE FALSE
  OBVIOUS
<1>1. T \in SUBSET Nat
  OBVIOUS
<1> HIDE DEF T
<1>2. PICK m \in T : \A x \in T : m <= x
  BY <1>1, LeastElement
<1>3. m \in Nat /\ m \notin S /\ m # 0
  BY <1>2 DEF T
<1>4. m - 1 \in Nat /\ m - 1 \notin T
  BY <1>2, <1>3
<1>5. m - 1 \in S
  BY <1>4 DEF T
<1>6. (m - 1) + 1 = m
  BY <1>3
<1> QED
  BY <1>3, <1>5, <1>6

\* What read_battery has in its variables after i of the samples s.
Start == [sum |-> 0, low |-> 65535, high |-> 0]

Readings(s, r, i) == r = [j \in 0 .. i |-> IF j = 0 THEN Start ELSE Sampled(r[j - 1], s[j])]

LEMMA ReadingsAt ==
    ASSUME NEW s, NEW r, NEW i \in Nat, Readings(s, r, i), NEW j \in 0 .. i
    PROVE  r[j] = IF j = 0 THEN Start ELSE Sampled(r[j - 1], s[j])
BY DEF Readings

LEMMA ReadingsExist ==
    ASSUME NEW s
    PROVE  \A i \in Nat : \E r : Readings(s, r, i)
<1> DEFINE S == {x \in Nat : \E r : Readings(s, r, x)}
<1>1. 0 \in S
  <2>1. Readings(s, [j \in 0 .. 0 |-> Start], 0)
    BY DEF Readings
  <2> QED
    BY <2>1
<1>2. ASSUME NEW x \in S PROVE x + 1 \in S
  <2>1. PICK r : Readings(s, r, x)
    OBVIOUS
  <2>2. x \in Nat
    OBVIOUS
  <2> DEFINE q == [j \in 0 .. x + 1 |-> IF j = x + 1 THEN Sampled(r[x], s[x + 1]) ELSE r[j]]
  <2>3. \A j \in 0 .. x + 1 :
            q[j] = IF j = 0 THEN Start ELSE Sampled(q[j - 1], s[j])
    <3> TAKE j \in 0 .. x + 1
    <3>1. CASE j = x + 1
      <4>1. j - 1 = x /\ x \in 0 .. x + 1 /\ x # x + 1 /\ j # 0
        BY <2>2, <3>1
      <4>2. q[j - 1] = r[x] /\ q[j] = Sampled(r[x], s[x + 1])
        BY <2>2, <3>1, <4>1
      <4> QED
        BY <3>1, <4>1, <4>2
    <3>2. CASE j = 0
      <4>1. q[j] = r[j] /\ j \in 0 .. x
        BY <2>2, <3>2
      <4>2. r[j] = Start
        BY <2>1, <3>2, <4>1 DEF Readings
      <4> QED
        BY <3>2, <4>1, <4>2
    <3>3. CASE j # x + 1 /\ j # 0
      <4>1. j \in 0 .. x /\ j - 1 \in 0 .. x + 1 /\ j - 1 # x + 1
        BY <2>2, <3>3
      <4>2. q[j] = r[j] /\ q[j - 1] = r[j - 1]
        BY <3>3, <4>1
      <4>3. r[j] = Sampled(r[j - 1], s[j])
        BY <2>1, <3>3, <4>1 DEF Readings
      <4> QED
        BY <3>3, <4>2, <4>3
    <3> QED
      BY <3>1, <3>2, <3>3
  <2>4. q = [j \in 0 .. x + 1 |-> q[j]]
    OBVIOUS
  <2> HIDE DEF q
  <2>5. Readings(s, q, x + 1)
    BY <2>3, <2>4 DEF Readings
  <2> QED
    BY <2>2, <2>5
<1> HIDE DEF S
<1>3. S \in SUBSET Nat
  BY DEF S
<1>4. \A i \in Nat : i \in S
  BY <1>1, <1>2, <1>3, NatSetInduction
<1> QED
  BY <1>4 DEF S

\* Reading is the last line of that table.
LEMMA ReadingLast ==
    ASSUME NEW s
    PROVE  \E r : Readings(s, r, NSamples) /\ Reading(s) = r[NSamples]
<1> DEFINE r == CHOOSE r : Readings(s, r, NSamples)
<1>1. Readings(s, r, NSamples)
  BY ReadingsExist, BootStartAssumption
<1>2. Reading(s) = r[NSamples]
  BY DEF Reading, Readings, Start
<1> HIDE DEF r
<1> QED
  BY <1>1, <1>2

Descends(s, i) == \A j \in 2 .. i : s[j] < s[j - 1]

\* After i samples of at most H: low is the smallest, and what lies between sum and the
\* two that are left out is worth i - 2 samples, or i - 1 as long as they descend.
Between(s, q, H, i) ==
    /\ q.sum \in Nat /\ q.low \in Nat /\ q.high \in Nat
    /\ \E a \in 1 .. i : q.low = s[a]
    /\ q.low <= H /\ q.high <= H /\ q.low <= s[i]
    /\ q.sum - q.low >= (i - 1) * q.low
    /\ q.sum - q.low - q.high >= (i - 2) * q.low
    /\ q.sum - q.low - q.high <= (i - 1) * H
    /\ Descends(s, i) => q.high = 0 /\ q.low = s[i]
    /\ ~Descends(s, i) => q.sum - q.low - q.high <= (i - 2) * H

\* The next sample keeps the products in step.
LEMMA NextProduct ==
    ASSUME NEW i \in Nat \ {0}, NEW x \in Nat
    PROVE  /\ (i - 2) * x \in Int /\ (i - 1) * x \in Int /\ i * x \in Int
           /\ (i - 1) * x = ((i - 2) * x) + x /\ i * x = ((i - 1) * x) + x
           /\ (i + 1) - 1 = i /\ (i + 1) - 2 = i - 1
OBVIOUS

LEMMA SmallerProduct ==
    ASSUME NEW i \in Nat \ {0}, NEW x \in Nat, NEW y \in Nat, x <= y
    PROVE  (i - 1) * x <= (i - 1) * y
<1>1. y - x \in Nat /\ i - 1 \in Nat
  OBVIOUS
<1>2. \A u, v \in Nat : u * v \in Nat
  OBVIOUS
<1>3. (i - 1) * (y - x) \in Nat
  BY <1>1, <1>2
<1>4. (i - 1) * y = ((i - 1) * x) + ((i - 1) * (y - x))
  BY <1>1
<1>5. (i - 1) * x \in Nat /\ (i - 1) * y \in Nat
  BY <1>1, <1>2
<1> QED
  BY <1>3, <1>4, <1>5

LEMMA DescendsStep ==
    ASSUME NEW s, NEW i \in Nat \ {0}
    PROVE  Descends(s, i + 1) <=> Descends(s, i) /\ s[i + 1] < s[i]
<1>1. (i + 1) - 1 = i /\ i + 1 \in 2 .. i + 1 /\ 2 .. i \subseteq 2 .. i + 1
  OBVIOUS
<1>2. \A j \in 2 .. i + 1 : j = i + 1 \/ j \in 2 .. i
  OBVIOUS
<1> QED
  BY <1>1, <1>2 DEF Descends

LEMMA BetweenFirst ==
    ASSUME NEW s, s[1] \in Nat, s[1] < 65535, NEW H \in Nat, s[1] <= H
    PROVE  Between(s, Sampled(Start, s[1]), H, 1)
<1>1. Sampled(Start, s[1]) = [sum |-> s[1], low |-> s[1], high |-> 0]
  BY DEF Sampled, Start
<1>2. Descends(s, 1)
  BY DEF Descends
<1>3. 1 - 1 = 0 /\ 1 - 2 = -1 /\ 0 * s[1] = 0 /\ (-1) * s[1] = -s[1] /\ 0 * H = 0
  OBVIOUS
<1> QED
  BY <1>1, <1>2, <1>3 DEF Between

LEMMA BetweenNext ==
    ASSUME NEW s, NEW i \in Nat \ {0}, NEW H \in Nat, NEW q, Between(s, q, H, i),
           s[i + 1] \in Nat, s[i + 1] <= H, s[i] \in Nat
    PROVE  Between(s, Sampled(q, s[i + 1]), H, i + 1)
<1> DEFINE t == s[i + 1]
           p == Sampled(q, t)
<1> HIDE DEF t
<1>t. t \in Nat /\ t <= H
  BY DEF t
<1>q. q.sum \in Nat /\ q.low \in Nat /\ q.high \in Nat
  BY DEF Between
<1>1. /\ p.sum = q.sum + t
      /\ p.low = IF t < q.low THEN t ELSE q.low
      /\ p.high = IF t >= q.low /\ t > q.high THEN t ELSE q.high
  BY DEF Sampled
<1>2. /\ (i - 2) * q.low \in Int /\ (i - 1) * q.low \in Int /\ i * q.low \in Int
      /\ (i - 1) * q.low = ((i - 2) * q.low) + q.low /\ i * q.low = ((i - 1) * q.low) + q.low
      /\ (i + 1) - 1 = i /\ (i + 1) - 2 = i - 1
  BY <1>q, NextProduct
<1>3. /\ (i - 2) * H \in Int /\ (i - 1) * H \in Int /\ i * H \in Int
      /\ (i - 1) * H = ((i - 2) * H) + H /\ i * H = ((i - 1) * H) + H
  BY NextProduct
<1>4. p.sum \in Nat /\ p.low \in Nat /\ p.high \in Nat
  BY <1>1, <1>t, <1>q
<1>5. /\ (i - 1) * p.low \in Int /\ i * p.low \in Int
      /\ i * p.low = ((i - 1) * p.low) + p.low
  BY <1>4, NextProduct
<1>6. (i - 1) * p.low <= (i - 1) * q.low
  <2>1. p.low <= q.low
    BY <1>1, <1>t, <1>q
  <2> QED
    BY <2>1, <1>4, <1>q, SmallerProduct
<1>b. /\ q.low <= H /\ q.high <= H
      /\ q.sum - q.low >= (i - 1) * q.low
      /\ q.sum - q.low - q.high >= (i - 2) * q.low
      /\ q.sum - q.low - q.high <= (i - 1) * H
      /\ Descends(s, i) => q.high = 0 /\ q.low = s[i]
      /\ ~Descends(s, i) => q.sum - q.low - q.high <= (i - 2) * H
  BY DEF Between
<1> HIDE DEF p
<1> DEFINE ql2 == (i - 2) * q.low
           ql1 == (i - 1) * q.low
           ql == i * q.low
           h2 == (i - 2) * H
           h1 == (i - 1) * H
           h == i * H
           pl1 == (i - 1) * p.low
           pl == i * p.low
<1>7. \E a \in 1 .. i + 1 : p.low = s[a]
  <2>1. PICK a \in 1 .. i : q.low = s[a]
    BY DEF Between
  <2>2. a \in 1 .. i + 1 /\ i + 1 \in 1 .. i + 1
    OBVIOUS
  <2> QED
    BY <1>1, <2>1, <2>2 DEF t
<1>8. p.low <= H /\ p.high <= H /\ p.low <= t
  BY <1>1, <1>t, <1>q, <1>b
<1>c. /\ ql2 \in Int /\ ql1 \in Int /\ h2 \in Int /\ h1 \in Int /\ h \in Int /\ pl1 \in Int /\ pl \in Int
      /\ ql1 = ql2 + q.low /\ h1 = h2 + H /\ h = h1 + H /\ pl = pl1 + p.low /\ pl1 <= ql1
      /\ q.sum - q.low >= ql1 /\ q.sum - q.low - q.high >= ql2 /\ q.sum - q.low - q.high <= h1
      /\ ~Descends(s, i) => q.sum - q.low - q.high <= h2
  BY <1>2, <1>3, <1>5, <1>6, <1>b
<1> HIDE DEF ql2, ql1, ql, h2, h1, h, pl1, pl
<1>9. p.sum - p.low >= pl
  BY <1>1, <1>t, <1>q, <1>c, <1>b
<1>10. p.sum - p.low - p.high >= pl1
  BY <1>1, <1>t, <1>q, <1>c, <1>b
<1>11. p.sum - p.low - p.high <= h
  BY <1>1, <1>t, <1>q, <1>c, <1>b
<1>12. Descends(s, i + 1) => p.high = 0 /\ p.low = t
  <2>1. Descends(s, i + 1) <=> Descends(s, i) /\ t < s[i]
    BY DescendsStep DEF t
  <2> QED
    BY <2>1, <1>1, <1>t, <1>q, <1>b
<1>13. ~Descends(s, i + 1) => p.sum - p.low - p.high <= h1
  <2>1. Descends(s, i + 1) <=> Descends(s, i) /\ t < s[i]
    BY DescendsStep DEF t
  <2>2. CASE ~Descends(s, i)
    BY <2>2, <1>1, <1>t, <1>q, <1>c, <1>b
  <2>3. CASE Descends(s, i) /\ ~(t < s[i])
    <3>1. q.high = 0 /\ t >= q.low
      BY <2>3, <1>b, <1>t, <1>q
    <3> QED
      BY <3>1, <1>1, <1>t, <1>q, <1>c
  <2> QED
    BY <2>1, <2>2, <2>3
<1>14. /\ p.sum - p.low >= ((i + 1) - 1) * p.low
       /\ p.sum - p.low - p.high >= ((i + 1) - 2) * p.low
       /\ p.sum - p.low - p.high <= ((i + 1) - 1) * H
       /\ ~Descends(s, i + 1) => p.sum - p.low - p.high <= ((i + 1) - 2) * H
  BY <1>2, <1>9, <1>10, <1>11, <1>13 DEF pl, pl1, h, h1
<1>15. Between(s, p, H, i + 1)
  BY <1>4, <1>7, <1>8, <1>12, <1>14 DEF Between, t
<1> QED
  BY <1>15 DEF p, t

\* What read_battery has after all of them.
LEMMA ReadingBetween ==
    ASSUME NEW H \in Nat, NEW s,
           \A j \in 1 .. NSamples : s[j] \in Nat /\ s[j] <= H /\ s[j] < 65535
    PROVE  Between(s, Reading(s), H, NSamples)
<1>1. PICK r : Readings(s, r, NSamples) /\ Reading(s) = r[NSamples]
  BY ReadingLast
<1>n. NSamples \in Nat /\ NSamples > 2
  BY BootStartAssumption
<1>2. r[0] = Start /\ \A j \in 1 .. NSamples : r[j] = Sampled(r[j - 1], s[j])
  <2>1. r[0] = Start
    <3>1. 0 \in 0 .. NSamples
      BY <1>n
    <3> QED
      BY <1>1, <3>1, ReadingsAt, <1>n
  <2>2. ASSUME NEW j \in 1 .. NSamples PROVE r[j] = Sampled(r[j - 1], s[j])
    <3>1. j \in 0 .. NSamples /\ j # 0
      BY <1>n
    <3> QED
      BY <1>1, <3>1, ReadingsAt, <1>n
  <2> QED
    BY <2>1, <2>2
<1> DEFINE S == {x \in Nat : x + 1 <= NSamples => Between(s, r[x + 1], H, x + 1)}
<1>3. 0 \in S
  <2>1. 1 \in 1 .. NSamples /\ 1 - 1 = 0 /\ 0 + 1 = 1
    BY <1>n
  <2>2. r[1] = Sampled(Start, s[1])
    BY <1>2, <2>1
  <2>3. s[1] \in Nat /\ s[1] < 65535 /\ s[1] <= H
    BY <2>1
  <2>4. Between(s, Sampled(Start, s[1]), H, 1)
    BY <2>3, BetweenFirst
  <2>5. Between(s, r[1], H, 1)
    BY <2>2, <2>4
  <2> QED
    BY <2>1, <2>5
<1>4. ASSUME NEW x \in S PROVE x + 1 \in S
  <2>1. x \in Nat /\ x + 1 \in Nat /\ x + 1 \in Nat \ {0}
    OBVIOUS
  <2>2. CASE (x + 1) + 1 <= NSamples
    <3>1. x + 1 <= NSamples /\ x + 1 \in 1 .. NSamples /\ (x + 1) + 1 \in 1 .. NSamples
      BY <2>1, <2>2, <1>n
    <3>2. Between(s, r[x + 1], H, x + 1)
      BY <3>1
    <3>3. r[(x + 1) + 1] = Sampled(r[x + 1], s[(x + 1) + 1])
      <4>1. ((x + 1) + 1) - 1 = x + 1
        BY <2>1
      <4> QED
        BY <1>2, <3>1, <4>1
    <3>4. s[x + 1] \in Nat /\ s[(x + 1) + 1] \in Nat /\ s[(x + 1) + 1] <= H
      BY <3>1
    <3> HIDE DEF S
    <3>5. Between(s, Sampled(r[x + 1], s[(x + 1) + 1]), H, (x + 1) + 1)
      BY <2>1, <3>2, <3>4, BetweenNext
    <3>6. Between(s, r[(x + 1) + 1], H, (x + 1) + 1)
      BY <3>3, <3>5
    <3> QED
      BY <2>1, <3>6 DEF S
  <2> QED
    BY <2>1, <2>2
<1> HIDE DEF S
<1>5. S \in SUBSET Nat
  BY DEF S
<1>6. NSamples - 1 \in S
  BY <1>3, <1>4, <1>5, <1>n, NatSetInduction
<1>7. (NSamples - 1) + 1 = NSamples
  BY <1>n
<1> QED
  BY <1>1, <1>6, <1>7, <1>n DEF S

LEMMA DivBounds ==
    ASSUME NEW x \in Int, NEW c \in Nat \ {0}, NEW y \in Int
    PROVE  /\ x \div c \in Int
           /\ x >= c * y => x \div c >= y
           /\ x <= c * y => x \div c <= y
<1> DEFINE q == x \div c
<1>1. q \in Int /\ c * q <= x /\ x < (c * q) + c
  OBVIOUS
<1> HIDE DEF q
<1>2. ASSUME x >= c * y, q < y PROVE FALSE
  <2>1. y - (q + 1) \in Nat
    BY <1>1, <1>2
  <2>2. c * (y - (q + 1)) >= 0
    BY <2>1
  <2>3. c * (y - (q + 1)) = (c * y) - ((c * q) + c)
    BY <1>1
  <2>4. c * y \in Int /\ c * q \in Int
    BY <1>1
  <2> QED
    BY <1>1, <1>2, <2>2, <2>3, <2>4
<1>3. ASSUME x <= c * y, q > y PROVE FALSE
  <2>1. q - (y + 1) \in Nat
    BY <1>1, <1>3
  <2>2. c * (q - (y + 1)) >= 0
    BY <2>1
  <2>3. c * (q - (y + 1)) = (c * q) - ((c * y) + c)
    BY <1>1
  <2>4. c * y \in Int /\ c * q \in Int
    BY <1>1
  <2> QED
    BY <1>1, <1>3, <2>2, <2>3, <2>4
<1> QED
  BY <1>1, <1>2, <1>3 DEF q

LEMMA MillivoltsMonotone ==
    ASSUME NEW v \in Nat, NEW w \in Nat, v <= w
    PROVE  Millivolts(v) \in Nat /\ Millivolts(v) <= Millivolts(w)
<1>1. Slop \in Nat /\ Cut \in Nat /\ Scale \in Nat \ {0}
  BY BootStartAssumption
<1>2. \A u \in Nat : (u * Slop) + Cut \in Nat
  <2>1. \A a, b \in Nat : a * b \in Nat
    OBVIOUS
  <2> QED
    BY <2>1, <1>1
<1>3. v * Slop <= w * Slop
  <2>1. w - v \in Nat /\ (w - v) * Slop >= 0
    BY <1>1
  <2>2. (w - v) * Slop = (w * Slop) - (v * Slop) /\ v * Slop \in Int /\ w * Slop \in Int
    BY <1>1
  <2> QED
    BY <2>1, <2>2
<1> DEFINE a == (v * Slop) + Cut
           b == (w * Slop) + Cut
<1>4. a \in Nat /\ b \in Nat /\ a <= b
  <2>1. v * Slop \in Int /\ w * Slop \in Int
    BY <1>1
  <2> QED
    BY <1>1, <1>2, <1>3, <2>1
<1>5. Millivolts(v) = (a \div Scale) * 4 /\ Millivolts(w) = (b \div Scale) * 4
  BY DEF Millivolts
<1> HIDE DEF a, b
<1>6. b \div Scale \in Int /\ a \div Scale \in Int
  BY <1>1, <1>4, DivBounds
<1>7. Scale * (b \div Scale) <= b /\ b < (Scale * (b \div Scale)) + Scale
  BY <1>1, <1>4
<1>8. Scale * (a \div Scale) <= a
  BY <1>1, <1>4
<1>9. b >= Scale * (a \div Scale)
  <2>1. Scale * (a \div Scale) \in Int
    BY <1>1, <1>6
  <2> QED
    BY <1>4, <1>8, <2>1
<1>10. b \div Scale >= a \div Scale
  BY <1>1, <1>4, <1>6, <1>9, DivBounds
<1>11. a \div Scale >= 0
  <2>1. a >= Scale * 0
    BY <1>1, <1>4
  <2> QED
    BY <2>1, <1>1, <1>4, DivBounds
<1> QED
  BY <1>5, <1>6, <1>10, <1>11

\* What read_battery computes from samples that one battery gives.
LEMMA MeanBounds ==
    ASSUME NEW H \in Nat, NEW s,
           \A j \in 1 .. NSamples : s[j] \in Nat /\ s[j] <= H /\ s[j] < 65535
    PROVE  /\ Mean(s) \in Nat
           /\ \E a \in 1 .. NSamples : s[a] <= Mean(s)
           /\ Mean(s) <= 2 * H
           /\ ~Descends(s, NSamples) => Mean(s) <= H
<1> DEFINE r == Reading(s)
           D == r.sum - r.low - r.high
           c == NSamples - 2
<1>1. Between(s, r, H, NSamples)
  BY ReadingBetween
<1>2. Mean(s) = D \div c
  BY DEF Mean, Total, Lowest, Highest
<1>n. c \in Nat \ {0} /\ NSamples \in Nat /\ NSamples - 1 = c + 1
  BY BootStartAssumption
<1> HIDE DEF r
<1>3. D \in Int /\ r.low \in Nat
  BY <1>1 DEF Between
<1>4. D >= c * r.low
  BY <1>1 DEF Between
<1>5. ~Descends(s, NSamples) => D <= c * H
  BY <1>1 DEF Between
<1>6. D <= (NSamples - 1) * H
  BY <1>1 DEF Between
<1>7. (c + 1) * H <= c * (2 * H)
  <2> HIDE DEF c
  <2>1. c - 1 \in Nat
    BY <1>n
  <2>2. (c - 1) * H >= 0
    BY <2>1
  <2>3. c * (2 * H) = ((c + 1) * H) + ((c - 1) * H) /\ (c + 1) * H \in Int /\ (c - 1) * H \in Int
    BY <1>n
  <2> QED
    BY <2>2, <2>3
<1>8. PICK a \in 1 .. NSamples : r.low = s[a]
  BY <1>1 DEF Between
<1> HIDE DEF c
<1>9. D <= c * (2 * H)
  <2>1. D <= (c + 1) * H
    BY <1>6, <1>n
  <2>2. c * (2 * H) \in Int /\ (c + 1) * H \in Int
    BY <1>n
  <2> QED
    BY <1>3, <1>7, <2>1, <2>2
<1> HIDE DEF D
<1>10. D \div c \in Int /\ D \div c >= r.low
  BY <1>3, <1>4, <1>n, DivBounds
<1>11. D \div c <= 2 * H
  <2> DEFINE y == 2 * H
  <2>1. y \in Int /\ D <= c * y
    BY <1>9
  <2> HIDE DEF y
  <2>2. D \div c <= y
    BY <2>1, <1>3, <1>n, DivBounds
  <2> QED
    BY <2>2 DEF y
<1>12. ASSUME ~Descends(s, NSamples) PROVE D \div c <= H
  <2>1. D <= c * H /\ H \in Int
    BY <1>5, <1>12
  <2> QED
    BY <2>1, <1>3, <1>n, DivBounds
<1>13. D \div c \in Nat
  BY <1>3, <1>10
<1>14. s[a] <= D \div c
  BY <1>8, <1>10
<1> QED
  BY <1>2, <1>11, <1>12, <1>13, <1>14

\* A largest sample.
LEMMA LargestSample ==
    ASSUME NEW s, \A j \in 1 .. NSamples : s[j] \in Nat /\ s[j] < 65535
    PROVE  \E h \in 1 .. NSamples : \A j \in 1 .. NSamples : s[j] <= s[h]
<1> DEFINE S == {k \in Nat : \A j \in 1 .. NSamples : s[j] <= k}
<1>1. 65535 \in S
  OBVIOUS
<1>s. S \in SUBSET Nat
  OBVIOUS
<1> HIDE DEF S
<1>2. PICK m \in S : \A k \in S : m <= k
  BY <1>1, <1>s, LeastElement
<1>3. m \in Nat /\ \A j \in 1 .. NSamples : s[j] <= m
  BY DEF S
<1>4. 1 \in 1 .. NSamples
  BY BootStartAssumption
<1>5. CASE m = 0
  BY <1>3, <1>4, <1>5
<1>6. CASE m # 0
  <2>1. m - 1 \in Nat /\ m - 1 \notin S
    <3>1. m - 1 \in Nat /\ ~(m <= m - 1)
      BY <1>3, <1>6
    <3> QED
      BY <3>1, <1>2
  <2>2. PICK h \in 1 .. NSamples : ~(s[h] <= m - 1)
    BY <2>1 DEF S
  <2>3. s[h] = m
    BY <1>3, <2>2
  <2> QED
    BY <1>3, <2>3
<1> QED
  BY <1>5, <1>6

\* Samples of one battery: refused exactly when it is low, but for a time-out, or when
\* each is lower than the one before.
LEMMA VoltageOf ==
    ASSUME NEW l \in Levels, NEW s, \A j \in 1 .. NSamples : s[j] \in Adc[l]
    PROVE  /\ Millivolts(Mean(s)) \in Nat /\ Millivolts(Mean(s)) < Word
           /\ l # "low" /\ (\A j \in 1 .. NSamples : s[j] # 0) => Millivolts(Mean(s)) > Limit
           /\ l = "low" /\ ~Descends(s, NSamples) => Millivolts(Mean(s)) <= Limit
<1>1. \A j \in 1 .. NSamples : s[j] \in Adc[l] /\ s[j] \in Nat /\ s[j] < 65535
  <2>1. Adc[l] \in SUBSET Nat
    BY BootStartAssumption
  <2> QED
    BY <2>1, AdcAssumption
<1>2. PICK h \in 1 .. NSamples : \A j \in 1 .. NSamples : s[j] <= s[h]
  BY <1>1, LargestSample
<1> DEFINE H == s[h]
           v == Mean(s)
<1>3. H \in Nat /\ H \in Adc[l]
  BY <1>1
<1>4. /\ v \in Nat /\ v <= 2 * H
      /\ \E a \in 1 .. NSamples : s[a] <= v
      /\ ~Descends(s, NSamples) => v <= H
  BY <1>1, <1>2, <1>3, MeanBounds
<1> HIDE DEF H, v
<1>5. 2 * H \in Nat
  BY <1>3
<1>w. Word \in Nat /\ Limit \in Nat
  BY BootStartAssumption
<1>6. Millivolts(v) \in Nat /\ Millivolts(v) <= Millivolts(2 * H) /\ Millivolts(2 * H) \in Nat
  BY <1>4, <1>5, MillivoltsMonotone
<1>7. Millivolts(2 * H) < Word
  BY <1>3, AdcAssumption
<1>8. ASSUME l # "low", \A j \in 1 .. NSamples : s[j] # 0
      PROVE  Millivolts(v) > Limit
  <2>1. PICK a \in 1 .. NSamples : s[a] <= v
    BY <1>4
  <2>2. s[a] \in Adc[l] /\ s[a] \in Nat /\ s[a] # 0
    BY <1>1, <1>8
  <2>3. Millivolts(s[a]) > Limit
    BY <1>8, <2>2, AdcAssumption
  <2>4. Millivolts(s[a]) \in Nat /\ Millivolts(s[a]) <= Millivolts(v)
    BY <1>4, <2>1, <2>2, MillivoltsMonotone
  <2> QED
    BY <2>3, <2>4, <1>6, <1>w
<1>9. ASSUME l = "low", ~Descends(s, NSamples)
      PROVE  Millivolts(v) <= Limit
  <2>1. Millivolts(v) <= Millivolts(H) /\ Millivolts(H) \in Nat
    BY <1>3, <1>4, <1>9, MillivoltsMonotone
  <2>2. Millivolts(H) <= Limit
    BY <1>3, <1>9, AdcAssumption
  <2> QED
    BY <2>1, <2>2, <1>6, <1>w
<1>10. Millivolts(v) < Word
  BY <1>6, <1>7, <1>w
<1> QED
  BY <1>6, <1>8, <1>9, <1>10 DEF v

\* The samples are of the battery as it is; nothing else is read before they are judged.
SamplesInv ==
    at = "voltage" =>
        battery \in Levels /\ DOMAIN samples = 1 .. NSamples
        /\ \A j \in 1 .. NSamples : samples[j] \in Adc[battery]

LEMMA ActionsOfStart ==
    [StartNext]_<<vars, power>> =>
        StartUp \/ DetectBootMode \/ ChargeDetect \/ Charge \/ ChargeLoop \/ Hold \/ HeldLong
        \/ ReleasedInLoop \/ ReleasedInDraw \/ Draw \/ Shown \/ Idle
        \/ Judge \/ LowBatteryDetect \/ LowBattery \/ Enough
        \/ Select \/ AnyReset \/ World \/ UNCHANGED <<vars, power>>
BY DEF StartNext, Pm

\* The way to "voltage" is the one through LowBatteryDetect.
LEMMA WaysToVoltage ==
    [StartNext]_<<vars, power>> /\ at' = "voltage" =>
        LowBatteryDetect \/ (at = "voltage" /\ UNCHANGED <<samples, battery>>)
<1> SUFFICES ASSUME [StartNext]_<<vars, power>>, at' = "voltage"
             PROVE  LowBatteryDetect \/ (at = "voltage" /\ UNCHANGED <<samples, battery>>)
  OBVIOUS
<1>1. ~StartUp /\ ~DetectBootMode /\ ~Charge /\ ~Judge /\ ~AnyReset /\ ~LowBattery /\ ~Enough
  BY DEF StartUp, DetectBootMode, Charge, Judge, AnyReset, LowBattery, Enough, ToMain, Hibernate
<1>2. ~ChargeDetect /\ ~Hold /\ ~HeldLong /\ ~ReleasedInDraw /\ ~Draw /\ ~Shown /\ ~Idle
  BY DEF ChargeDetect, Hold, HeldLong, ReleasedInDraw, Draw, Shown, Idle
<1>3. ~ChargeLoop /\ ~ReleasedInLoop
  BY DEF ChargeLoop, ReleasedInLoop, PluggedOrHibernate, Hibernate
<1>4. CASE Select
  BY <1>4 DEF Select, power
<1>5. CASE World
  BY <1>5 DEF World, Usb, Dc, PowerKey, BatteryChanges, Rest
<1>6. CASE UNCHANGED <<vars, power>>
  BY <1>6 DEF power
<1> QED
  BY <1>1, <1>2, <1>3, <1>4, <1>5, <1>6, ActionsOfStart

LEMMA SamplesStep == DataInv /\ SamplesInv /\ [StartNext]_<<vars, power>> => SamplesInv'
<1> SUFFICES ASSUME DataInv, SamplesInv, [StartNext]_<<vars, power>>, at' = "voltage"
             PROVE  SamplesInv'
  BY DEF SamplesInv
<1>1. CASE LowBatteryDetect
  <2>1. battery' = battery /\ battery \in Levels
    BY <1>1 DEF LowBatteryDetect, ToMain, Pins, DataInv
  <2>2. samples' \in [1 .. NSamples -> Adc[battery]]
    BY <1>1 DEF LowBatteryDetect, ToMain
  <2>3. DOMAIN samples' = 1 .. NSamples /\ \A j \in 1 .. NSamples : samples'[j] \in Adc[battery]
    BY <2>2
  <2> QED
    BY <2>1, <2>3 DEF SamplesInv
<1>2. CASE at = "voltage" /\ UNCHANGED <<samples, battery>>
  BY <1>2 DEF SamplesInv
<1> QED
  BY <1>1, <1>2, WaysToVoltage

LEMMA GoodBattery == SamplesInv => GoodBatteryStarts
<1> SUFFICES ASSUME SamplesInv, at = "voltage", battery # "low", ~Plugged, 0 \notin Range(samples)
             PROVE  ~IsLow
  BY DEF GoodBatteryStarts
<1>1. battery \in Levels /\ DOMAIN samples = 1 .. NSamples
      /\ \A j \in 1 .. NSamples : samples[j] \in Adc[battery]
  BY DEF SamplesInv
<1>2. \A j \in 1 .. NSamples : samples[j] # 0
  BY <1>1 DEF Range
<1> DEFINE v == Millivolts(Mean(samples))
<1>3. v \in Nat /\ v < Word /\ v > Limit
  BY <1>1, <1>2, VoltageOf
<1>4. ~Charging /\ ~dc /\ ~usb
  BY DEF Charging, Plugged
<1> HIDE DEF v
<1>5. Filtered(v) = (v - 0) % Word
  BY <1>4 DEF Filtered
<1>6. (v - 0) % Word = v
  BY <1>3, BootStartAssumption
<1> QED
  BY <1>3, <1>5, <1>6, BootStartAssumption DEF IsLow, v

\* Whatever the calibration, the number of samples and their spread: a battery whose
\* samples are all above the limit is not refused, unless a charger or a time-out of
\* the SADC comes into it.
THEOREM GoodBatteryCorrect == StartSpec => []GoodBatteryStarts
<1>1. StartInit => DataInv /\ SamplesInv
  BY DEF StartInit, DataInv, SamplesInv
<1> QED
  BY <1>1, DataStep, SamplesStep, GoodBattery, PTL DEF StartSpec

\* A start without a charger never gets near the charging, and nothing but a voltage
\* above the limit takes it on to the boot keys.
AloneInv ==
    /\ at \in {"off", "main"} => ~seen /\ ~flag
    /\ at \notin {"off", "main"} /\ alone =>
           /\ ~Plugged /\ ~seen /\ ~flag
           /\ at \in {"mode", "detect", "judge", "battery", "voltage"}

LEMMA AloneStep == AloneInv /\ [StartNext]_<<vars, power>> => AloneInv'
<1> SUFFICES ASSUME AloneInv, [StartNext]_<<vars, power>> PROVE AloneInv'
  OBVIOUS
<1> USE DEF AloneInv, Plugged
<1>1. CASE StartUp
  BY <1>1 DEF StartUp, PowerOn
<1>2. CASE DetectBootMode
  BY <1>2 DEF DetectBootMode, Pins, vars
<1>3. CASE ChargeDetect
  BY <1>3 DEF ChargeDetect, ChargeSample, Charging, Pins, vars
<1>4. CASE Charge
  BY <1>4 DEF Charge, Pins, vars
<1>5. CASE ChargeLoop
  BY <1>5 DEF ChargeLoop, LeaveCharge, PluggedOrHibernate, Hibernate, Clear, Pins, vars
<1>6. CASE Hold
  BY <1>6 DEF Hold, Pins, vars
<1>7. CASE HeldLong
  BY <1>7 DEF HeldLong, Pins, vars
<1>8. CASE ReleasedInLoop
  BY <1>8 DEF ReleasedInLoop, PluggedOrHibernate, Hibernate, Clear, Pins, vars
<1>9. CASE ReleasedInDraw
  BY <1>9 DEF ReleasedInDraw, Pins, vars
<1>10. CASE Draw
  BY <1>10 DEF Draw, Pins, vars
<1>11. CASE Shown
  BY <1>11 DEF Shown, Pins, vars
<1>12. CASE Idle
  BY <1>12 DEF Idle, Pins, vars
<1>13. CASE Judge
  BY <1>13 DEF Judge, ToMain, Clear, Pins, vars
<1>14. CASE LowBatteryDetect
  BY <1>14 DEF LowBatteryDetect, ToMain, Clear, Pins, vars
<1>15. CASE LowBattery
  BY <1>15 DEF LowBattery, Hibernate, Clear
<1>16. CASE Enough
  BY <1>16 DEF Enough, ToMain, Clear
<1>17. CASE Select
  BY <1>17 DEF Select, power
<1>18. CASE AnyReset
  BY <1>18 DEF AnyReset, Clear
<1>19. CASE World
  <2>1. CASE Usb
    BY <2>1 DEF Usb, PlugOrUnplug, Rest
  <2>2. CASE Dc
    BY <2>2 DEF Dc, Rest, vars
  <2>3. CASE PowerKey
    BY <2>3 DEF PowerKey, Rest, vars
  <2>4. CASE BatteryChanges
    BY <2>4 DEF BatteryChanges, Rest, vars
  <2> QED
    BY <1>19, <2>1, <2>2, <2>3, <2>4 DEF World
<1>20. CASE UNCHANGED <<vars, power>>
  BY <1>20 DEF power, vars
<1> QED
  BY <1>1, <1>2, <1>3, <1>4, <1>5, <1>6, <1>7, <1>8, <1>9, <1>10, <1>11, <1>12, <1>13, <1>14,
     <1>15, <1>16, <1>17, <1>18, <1>19, <1>20, ActionsOfStart

LEMMA LowBatteryStep ==
    ASSUME AloneInv, SamplesInv, [StartNext]_<<vars, power>>, GoesOn, battery = "low", alone
    PROVE  \A i \in 2 .. NSamples : samples[i] < samples[i - 1]
<1>0. StartNext
  BY DEF GoesOn, power
<1>1. ~Plugged /\ ~seen /\ ~flag
  BY <1>0, WaysToMain DEF AloneInv
<1>2. Enough
  BY <1>0, <1>1, WaysToMain DEF GoesOn, Judge, LowBatteryDetect
<1>3. at = "voltage" /\ ~IsLow
  BY <1>2 DEF Enough
<1>4. \A j \in 1 .. NSamples : samples[j] \in Adc["low"]
  BY <1>3 DEF SamplesInv
<1> SUFFICES ASSUME ~Descends(samples, NSamples) PROVE FALSE
  BY DEF Descends
<1> DEFINE v == Millivolts(Mean(samples))
<1>5. v \in Nat /\ v < Word /\ v <= Limit
  BY <1>4, VoltageOf DEF Levels
<1>6. ~Charging /\ ~dc /\ ~usb
  BY <1>1 DEF Charging, Plugged
<1> HIDE DEF v
<1>7. Filtered(v) = (v - 0) % Word
  BY <1>6 DEF Filtered
<1>8. (v - 0) % Word = v
  BY <1>5, BootStartAssumption
<1> QED
  BY <1>3, <1>5, <1>7, <1>8 DEF IsLow, v

\* And a low one starts nothing by itself, unless its samples come down one by one,
\* when max stays 0 and no largest sample is left out.
THEOREM LowBatteryCorrect == StartSpec => LowBatteryStops
<1>1. StartInit => DataInv /\ SamplesInv /\ AloneInv
  BY DEF StartInit, DataInv, SamplesInv, AloneInv
<1>2. AloneInv /\ SamplesInv /\ [StartNext]_<<vars, power>> =>
          [GoesOn /\ battery = "low" /\ alone =>
               \A i \in 2 .. NSamples : samples[i] < samples[i - 1]]_<<vars, power>>
  BY LowBatteryStep
<1> QED
  BY <1>1, <1>2, DataStep, SamplesStep, AloneStep, PTL DEF StartSpec, LowBatteryStops

=============================================================================
