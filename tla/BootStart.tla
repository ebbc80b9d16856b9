----------------------------- MODULE BootStart -----------------------------
(***************************************************************************)
(* The whole of boot_main: what board_private_init and low_battery_judgement *)
(* do before the boot keys are looked at (boot/common/pm.c, on the warrior     *)
(* board), and then BootSelect.  A board that is plugged in charges until the  *)
(* power key is held; one with an empty battery goes back to hibernation.      *)
(*                                                                         *)
(* The battery, the charger and the power key are external.                  *)
(***************************************************************************)
EXTENDS BootSelect, Sequences, SequencesExt

CONSTANTS
    NDetect,     \* samples of charge_detect: 5
    LongPress,   \* looks at a held power key: 100
    ShowTime,    \* looks during one charge animation: 240
    NSamples,    \* samples of read_battery: 12
    Adc,         \* what the SADC may give at each level; 0 when it times out
    Slop, Cut, Scale, \* calibration of the SADC
    Limit,       \* a battery at or below 3600 mV is low
    DcUsbFilter, UsbFilter, DcFilter, \* mV a charger adds
    Word         \* 2^32

Levels == {"low", "good", "full"}

ASSUME BootStartAssumption ==
    /\ NDetect \in Nat \ {0} /\ LongPress \in Nat \ {0} /\ ShowTime \in Nat \ {0}
    /\ NSamples \in Nat /\ NSamples > 2
    /\ Adc \in [Levels -> SUBSET Nat]
    /\ Slop \in Nat /\ Cut \in Nat /\ Scale \in Nat \ {0} /\ Limit \in Nat
    /\ DcUsbFilter \in Nat /\ UsbFilter \in Nat /\ DcFilter \in Nat /\ Word \in Nat \ {0}

VARIABLES
    at,       \* "off" "mode" "detect" "charge" "press" "draw" "shown" "idle" "judge" "battery" "voltage"
              \* | "main", where BootSelect goes on
    dc,       \* __dc_detected()
    key,      \* __poweron_key_pressed()
    battery,  \* its level
    wr,       \* CPM_RSR_WR: the last reset came from the watchdog
    n,        \* i of charge_detect, count of poweron_key_long_pressed
    shown,    \* looks of the animation
    seen,     \* ret of charge_detect is not 0
    drawing,  \* lcd_draw_charge_flash called poweron_key_long_pressed
    flash,    \* Battery_charg_Flag
    flag,     \* poweron_key_long_pressed_flag
    samples,  \* what read_battery has got
    \* history
    charged,  \* this start went to charge
    pressed,  \* a long press has been seen
    alone     \* no charger has been plugged in since the start

power == <<at, dc, key, battery, wr, n, shown, seen, drawing, flash, flag, samples,
           charged, pressed, alone>>

Plugged == usb \/ dc

\* __battery_is_charging: the charger's status pin.
Charging == Plugged /\ battery # "full"

StartInit ==
    /\ Init
    /\ at = "off" /\ dc \in BOOLEAN /\ key = FALSE /\ battery \in Levels /\ wr = FALSE
    /\ n = 0 /\ shown = 0 /\ seen = FALSE /\ drawing = FALSE /\ flash = FALSE /\ flag = FALSE
    /\ samples = <<>> /\ charged = FALSE /\ pressed = FALSE /\ alone = TRUE

\* What a step of pm.c leaves alone.
Pins    == UNCHANGED <<dc, battery, wr, alone>>
History == UNCHANGED <<charged, pressed>>

StartUp ==
    /\ at = "off" /\ PowerOn
    /\ at' = "mode" /\ key' \in BOOLEAN /\ alone' = ~Plugged
    /\ UNCHANGED <<dc, battery, wr, n, shown, seen, drawing, flash, flag, samples>> /\ History

-----------------------------------------------------------------------------
(* board_private_init *)

\* detect_boot_mode: somebody wants something else than a normal start.
DetectBootMode ==
    /\ at = "mode"
    /\ \/ (held # {} \/ scrpad) /\ at' = "judge"
       \/ (held = {} \/ Bounce) /\ ~scrpad /\ at' = "detect"
    /\ n' = 0 /\ seen' = FALSE
    /\ UNCHANGED <<key, shown, drawing, flash, flag, samples>>
    /\ Pins /\ History /\ UNCHANGED vars

\* One sample of charge_detect; after a watchdog reset it does not look.
ChargeSample == ~wr /\ (Charging \/ dc)

ChargeDetect ==
    /\ at \in {"detect", "judge"} /\ n < NDetect
    /\ seen' = (seen \/ ChargeSample)
    /\ n' = IF wr THEN NDetect ELSE n + 1
    /\ UNCHANGED <<at, key, shown, drawing, flash, flag, samples>>
    /\ Pins /\ History /\ UNCHANGED vars

Charge ==
    /\ at = "detect" /\ n = NDetect
    /\ at' = IF seen THEN "charge" ELSE "judge"
    /\ charged' = seen
    /\ n' = 0 /\ seen' = FALSE
    /\ UNCHANGED <<key, shown, drawing, flash, flag, samples, pressed>>
    /\ Pins /\ UNCHANGED vars

-----------------------------------------------------------------------------
(* Charge_Key_Judgement *)

Clear ==
    /\ key' = FALSE /\ n' = 0 /\ shown' = 0 /\ seen' = FALSE /\ drawing' = FALSE
    /\ flash' = FALSE /\ flag' = FALSE /\ samples' = <<>>
    /\ charged' = FALSE /\ pressed' = FALSE /\ alone' = TRUE

\* jz_pm_do_hibernate: the power goes, and with it the reset status.
Hibernate ==
    /\ Reset
    /\ at' = "off" /\ wr' = FALSE
    /\ Clear /\ UNCHANGED <<dc, battery>>

\* The charger is gone, or the animation is shown: on a key, and the first time.
PluggedOrHibernate(wake) ==
    \/ ~Plugged /\ Hibernate
    \/ /\ Plugged
       /\ IF wake \/ ~flash
          THEN at' = "draw" /\ flash' = TRUE
          ELSE at' = "charge" /\ UNCHANGED flash
       /\ n' = 0 /\ shown' = 0 /\ drawing' = FALSE
       /\ UNCHANGED <<key, seen, flag, samples>>
       /\ Pins /\ History /\ UNCHANGED vars

\* Mutant of LeaveCharge: the charge loop is left when the animation is over.
LeaveChargeShown == flag \/ shown = ShowTime

LeaveCharge == flag

ChargeLoop ==
    /\ at = "charge"
    /\ \/ /\ LeaveCharge
          /\ at' = "judge" /\ n' = 0 /\ shown' = 0
          /\ UNCHANGED <<key, seen, drawing, flash, flag, samples>>
          /\ Pins /\ History /\ UNCHANGED vars
       \/ /\ ~LeaveCharge /\ key
          /\ at' = "press" /\ n' = 0 /\ drawing' = FALSE
          /\ UNCHANGED <<key, shown, seen, flash, flag, samples>>
          /\ Pins /\ History /\ UNCHANGED vars
       \/ /\ ~LeaveCharge /\ ~key
          /\ PluggedOrHibernate(FALSE)

\* poweron_key_long_pressed, 10 ms a look.
Hold ==
    /\ at = "press" /\ key /\ n + 1 < LongPress
    /\ n' = n + 1
    /\ UNCHANGED <<at, key, shown, seen, drawing, flash, flag, samples>>
    /\ Pins /\ History /\ UNCHANGED vars

\* Held long enough.  The charge loop returns; the animation sets the flag, with which
\* the battery is not looked at any more, and returns to the loop.
HeldLong ==
    /\ at = "press" /\ key /\ n + 1 >= LongPress
    /\ at' = (IF drawing THEN "charge" ELSE "judge")
    /\ flag' = drawing
    /\ n' = 0 /\ shown' = 0 /\ drawing' = FALSE /\ pressed' = TRUE
    /\ UNCHANGED <<key, seen, flash, samples, charged>>
    /\ Pins /\ UNCHANGED vars

\* Released before: the charge loop goes on.
ReleasedInLoop ==
    /\ at = "press" /\ ~key /\ ~drawing
    /\ PluggedOrHibernate(TRUE)

\* The animation ends, unless the key came down between its two looks at it.
ReleasedInDraw ==
    /\ at = "press" /\ ~key /\ drawing
    /\ at' \in {"charge", "shown"}
    /\ n' = 0 /\ drawing' = FALSE
    /\ UNCHANGED <<key, shown, seen, flash, flag, samples>>
    /\ Pins /\ History /\ UNCHANGED vars

\* lcd_draw_charge_flash looks at the key.
Draw ==
    /\ at = "draw"
    /\ IF key THEN at' = "press" /\ drawing' = TRUE
       ELSE at' = "shown" /\ UNCHANGED drawing
    /\ n' = 0
    /\ UNCHANGED <<key, shown, seen, flash, flag, samples>>
    /\ Pins /\ History /\ UNCHANGED vars

DrawGoesOn == Plugged

\* And at the charger; after 12 s the CPU waits for an interrupt.
Shown ==
    /\ at = "shown"
    /\ IF ~DrawGoesOn THEN at' = "charge" /\ UNCHANGED shown
       ELSE /\ shown' = shown + 1
            /\ at' = IF shown + 1 = ShowTime THEN "idle" ELSE "draw"
    /\ UNCHANGED <<key, n, seen, drawing, flash, flag, samples>>
    /\ Pins /\ History /\ UNCHANGED vars

\* Mutant of Interrupt: only the key wakes the CPU.
InterruptKey == key

\* jz_pm_do_idle: the three pins interrupt on a low level; the detection pins are low
\* when nothing is plugged in.
Interrupt == key \/ ~usb \/ ~dc

Idle ==
    /\ at = "idle" /\ Interrupt
    /\ at' = "charge"
    /\ UNCHANGED <<key, n, shown, seen, drawing, flash, flag, samples>>
    /\ Pins /\ History /\ UNCHANGED vars

-----------------------------------------------------------------------------
(* low_battery_judgement *)

\* The boot keys are next, and nothing of the power side is read again.
ToMain ==
    /\ at' = "main" /\ wr' = FALSE
    /\ Clear /\ UNCHANGED <<dc, battery>> /\ UNCHANGED vars

\* A charger: the battery is not looked at.
Judge ==
    /\ at = "judge" /\ n = NDetect
    /\ \/ seen /\ ToMain
       \/ /\ ~seen /\ at' = "battery" /\ n' = 0
          /\ UNCHANGED <<key, shown, seen, drawing, flash, flag, samples>>
          /\ Pins /\ History /\ UNCHANGED vars

LowBatteryDetect ==
    /\ at = "battery"
    /\ \/ flag /\ ToMain
       \/ /\ ~flag /\ at' = "voltage"
          /\ samples' \in [1 .. NSamples -> Adc[battery]]
          /\ UNCHANGED <<key, n, shown, seen, drawing, flash, flag>>
          /\ Pins /\ History /\ UNCHANGED vars

\* One sample of read_battery: a new minimum is not compared with max.
Sampled(r, tmp) ==
    [sum  |-> r.sum + tmp,
     low  |-> IF tmp < r.low THEN tmp ELSE r.low,
     high |-> IF tmp >= r.low /\ tmp > r.high THEN tmp ELSE r.high]

\* The loop of read_battery; min starts at 0xffff.
Reading(s) ==
    LET r[i \in 0 .. NSamples] ==
            IF i = 0 THEN [sum |-> 0, low |-> 65535, high |-> 0] ELSE Sampled(r[i - 1], s[i])
    IN  r[NSamples]

Total(s)  == Reading(s).sum
Lowest(s) == Reading(s).low

\* Mutant of Highest: it starts with the largest number, not with the smallest.
HighestNone(s) == 0

Highest(s) == Reading(s).high

Millivolts(v) == (((v * Slop) + Cut) \div Scale) * 4

\* What the calibration promises: a sample fits min, only that of an empty battery or of a
\* time-out is at most Limit, and no mean overflows.
ASSUME AdcAssumption == \A l \in Levels : \A v \in Adc[l] :
    /\ v < 65535 /\ Millivolts(2 * v) < Word
    /\ l = "low" => Millivolts(v) <= Limit
    /\ l # "low" /\ v # 0 => Millivolts(v) > Limit

\* Mutant of Mean: the two that were left out are counted.
MeanOfAll(s) == (Total(s) - Lowest(s) - Highest(s)) \div NSamples

Mean(s) == (Total(s) - Lowest(s) - Highest(s)) \div (NSamples - 2)

\* bat_voltage_filter, on an unsigned number.
Filtered(v) ==
    (v - (CASE ~Charging /\ ~dc -> 0
            [] usb /\ dc        -> DcUsbFilter
            [] usb /\ ~dc       -> UsbFilter
            [] OTHER            -> DcFilter)) % Word

IsLow == Filtered(Millivolts(Mean(samples))) <= Limit

\* low_battery_warning and hibernation, or on to the boot keys.
LowBattery == at = "voltage" /\ IsLow /\ Hibernate

Enough == at = "voltage" /\ ~IsLow /\ ToMain

-----------------------------------------------------------------------------
(* BootSelect goes on; the power side plays no part any more *)

Select == at = "main" /\ (XBoot \/ Continue \/ System) /\ UNCHANGED power

\* Any reset: the watchdog leaves its mark, a power failure none.
AnyReset ==
    /\ Reset
    /\ at' = "off" /\ wr' \in BOOLEAN
    /\ Clear /\ UNCHANGED <<dc, battery>>

Rest == UNCHANGED <<at, wr, n, shown, seen, drawing, flash, flag, samples>> /\ History

Usb ==
    /\ at # "voltage" /\ PlugOrUnplug
    /\ alone' = (at = "off" \/ (alone /\ ~(usb' \/ dc)))
    /\ UNCHANGED <<dc, key, battery>> /\ Rest

Dc ==
    /\ at \notin {"voltage", "main"} /\ dc' = ~dc
    /\ alone' = (at = "off" \/ (alone /\ ~(usb \/ dc')))
    /\ UNCHANGED <<key, battery>> /\ Rest /\ UNCHANGED vars

PowerKey ==
    /\ at \in {"charge", "press", "draw", "shown", "idle"}
    /\ key' = ~key
    /\ UNCHANGED <<dc, battery, alone>> /\ Rest /\ UNCHANGED vars

BatteryChanges ==
    /\ at \notin {"voltage", "main"}
    /\ battery' = IF Plugged THEN (IF battery = "low" THEN "good" ELSE "full")
                             ELSE (IF battery = "full" THEN "good" ELSE "low")
    /\ UNCHANGED <<dc, key, alone>> /\ Rest /\ UNCHANGED vars

Pm ==
    \/ DetectBootMode \/ ChargeDetect \/ Charge \/ ChargeLoop \/ Hold \/ HeldLong
    \/ ReleasedInLoop \/ ReleasedInDraw \/ Draw \/ Shown \/ Idle
    \/ Judge \/ LowBatteryDetect \/ LowBattery \/ Enough

World == Usb \/ Dc \/ PowerKey \/ BatteryChanges

StartNext == StartUp \/ Pm \/ Select \/ AnyReset \/ World

StartSpec == StartInit /\ [][StartNext]_<<vars, power>>

\* x-boot runs on by itself; nobody has to press, plug or charge anything.
FairStartSpec ==
    /\ StartSpec
    /\ WF_<<vars, power>>(Pm)
    /\ WF_<<vars, power>>(at = "main" /\ XBoot /\ UNCHANGED power)

-----------------------------------------------------------------------------
(* Properties *)

StartTypeOK ==
    /\ TypeOK
    /\ at \in {"off", "mode", "detect", "charge", "press", "draw", "shown", "idle", "judge",
               "battery", "voltage", "main"}
    /\ at = "off" <=> pc = "off"
    /\ at \notin {"off", "main"} => pc = "keys"
    /\ dc \in BOOLEAN /\ key \in BOOLEAN /\ battery \in Levels /\ wr \in BOOLEAN
    /\ n \in 0 .. NDetect \/ n \in 0 .. LongPress - 1
    /\ shown \in 0 .. ShowTime
    /\ seen \in BOOLEAN /\ drawing \in BOOLEAN /\ flash \in BOOLEAN /\ flag \in BOOLEAN
    /\ samples # <<>> => DOMAIN samples = 1 .. NSamples
    /\ charged \in BOOLEAN /\ pressed \in BOOLEAN /\ alone \in BOOLEAN

GoesOn == at # "main" /\ at' = "main"

\* A board that began to charge starts nothing before the power key has been held
\* down: not when a key is tapped, the animation times out, or the cable is pulled,
\* put back or moved.
ChargesUntilPressed == [][GoesOn /\ charged => pressed]_<<vars, power>>

\* Without a charger an empty battery starts nothing, unless each of the samples was
\* lower than the one before: then no largest sample is left out of the sum.
LowBatteryStops ==
    [][GoesOn /\ battery = "low" /\ alone =>
          \A i \in 2 .. NSamples : samples[i] < samples[i - 1]]_<<vars, power>>

\* A battery that is not empty is refused only with a charger plugged in: after a
\* watchdog reset, or when it came between the two looks at it.
GoodBatteryStarts ==
    at = "voltage" /\ IsLow => battery = "low" \/ Plugged \/ 0 \in Range(samples)

Charges == at \in {"charge", "press", "draw", "shown", "idle"}

\* A board whose charger is taken away stops charging: it hibernates, or the power key
\* has been held.
UnplugEndsCharge == <>[]~Plugged => []<>~Charges

\* Once the battery has been judged a start ends in a system, in fastboot or with a
\* damaged image, also when a key is held and no host ever comes.
SelectEnds == (at = "main" /\ pc \in Starting) ~> (pc \notin Starting)

=============================================================================
