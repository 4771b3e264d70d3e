----------------------------- MODULE StartDevice -----------------------------
(***************************************************************************)
(* flowbaton start-device: a simulator is created, booted and given its    *)
(* locale; an emulator is created or chosen, launched as a process of its  *)
(* own, waited for until the adb of the host shows it booted, and asked    *)
(* whether it came up with the locale it was launched with.                *)
(*                                                                         *)
(* The tools of the SDKs answer, or fail, when they are called; the        *)
(* devices come up and go down by themselves.  A wait has a deadline.      *)
(* Names stand for AVD names and UDIDs.  The spelling of options, and what *)
(* they default to, is left out.                                           *)
(***************************************************************************)
EXTENDS Naturals, FiniteSets

CONSTANTS
    Names,      \* the devices there may be
    NoName,     \* no --device was given
    Locales,    \* the locales a device may have
    NoLocale,   \* no --device-locale was given
    Boots       \* bound on how often a device comes up

VARIABLES
    args,       \* the parsed arguments
    place,      \* where the command is
    avd,        \* the device it works on
    serial,     \* the emulator that the look in progress asks
    seen,       \* what it has answered so far
    late,       \* the deadline of the wait has passed
    power,      \* of each device: "none", "off", "starting", "attached", "booted", "ready"
    locale,     \* the locale it came up with
    wasReady,   \* history: the devices that were ready since the command began
    boots

startVars == <<args, place, avd, serial, seen, late, power, locale, wasReady, boots>>

Args == [platform : {"ios", "android", "web", "none"}, device : Names \cup {NoName}, create : BOOLEAN,
         locale : Locales \cup {NoLocale}, image : BOOLEAN]
Up == {"starting", "attached", "booted", "ready"}
Ends == {"invalid", "failed", "ok"}

StartInit ==
    /\ args \in Args
    /\ place = "parse" /\ avd = NoName /\ serial = NoName /\ seen = {} /\ late = FALSE /\ boots = 0
    /\ power \in [Names -> {"none", "off", "booted", "ready"}]
    /\ locale \in [Names -> Locales]
    /\ wasReady = {n \in Names : power[n] = "ready"}

-----------------------------------------------------------------------------
Devices == UNCHANGED <<power, locale, wasReady, boots>>
Go(next) == place' = next /\ UNCHANGED <<args, avd, serial, seen, late>> /\ Devices
Fail == Go("failed")

\* parseStartDeviceArgs: what only a device that is created can be given.
Sound ==
    /\ args.platform \in {"ios", "android"}
    /\ args.create \/ (args.locale = NoLocale /\ ~args.image)
    /\ args.platform = "ios" => ~args.image /\ (args.create \/ args.device # NoName)

Parse ==
    /\ place = "parse"
    /\ place' = IF ~Sound THEN "invalid"
                ELSE IF args.create THEN "create"
                ELSE IF args.device = NoName THEN "list"
                ELSE IF args.platform = "ios" THEN "boot" ELSE "launch"
    /\ avd' = args.device /\ UNCHANGED <<args, serial, seen, late>> /\ Devices

\* createSim makes another simulator whatever its name; createAVD, after it has
\* looked for the image and the model, replaces the AVD of the name.
Creatable(n) ==
    IF args.platform = "ios" THEN power[n] = "none" ELSE args.device \in {n, NoName}
Create ==
    /\ place = "create"
    /\ \/ \E n \in Names :
             /\ Creatable(n)
             /\ avd' = n /\ power' = [power EXCEPT ![n] = IF @ = "none" THEN "off" ELSE @]
             /\ place' = IF args.platform = "ios" THEN "boot" ELSE "launch"
             /\ UNCHANGED <<args, serial, seen, late, locale, wasReady, boots>>
       \/ Fail

\* The first AVD of the list, in whatever order the emulator prints it.
ListAVDs ==
    /\ place = "list"
    /\ \/ \E n \in Names :
             /\ power[n] # "none" /\ avd' = n /\ place' = "launch"
             /\ UNCHANGED <<args, serial, seen, late>> /\ Devices
       \/ Fail

ComesUp(n, with) ==
    /\ power' = [power EXCEPT ![n] = "starting"] /\ locale' = [locale EXCEPT ![n] = with]
    /\ boots' = boots + 1 /\ UNCHANGED wasReady

\* simctl boot; "current state: Booted" is not a failure.
Boot ==
    /\ place = "boot"
    /\ \/ /\ power[avd] = "off" /\ boots < Boots
          /\ ComesUp(avd, locale[avd]) /\ place' = "wait" /\ UNCHANGED <<args, avd, serial, seen, late>>
       \/ power[avd] \in Up /\ Go("wait")
       \/ Fail

\* The emulator is another process: a launch that it refuses is not seen here, as
\* of an AVD that runs already.
Launched == IF args.locale = NoLocale THEN Locales ELSE {args.locale}
Launch ==
    /\ place = "launch"
    /\ \/ /\ power[avd] = "off" /\ boots < Boots
          /\ \E with \in Launched : ComesUp(avd, with)
          /\ place' = "wait" /\ UNCHANGED <<args, avd, serial, seen, late>>
       \/ Go("wait")
       \/ Fail

\* simctl bootstatus answers when the simulator is up, or fails.
BootStatus ==
    /\ place = "wait" /\ args.platform = "ios"
    /\ \/ power[avd] = "ready" /\ ~late /\ Go("locale")
       \/ Fail

\* androidEmulatorSerial: the attached emulator whose AVD has the name.  Mutant:
\* whatever its AVD is.
AnyEmulator(n) == TRUE
NameMatches(n) == n = avd
Found == {n \in Names : power[n] \in {"attached", "booted", "ready"} /\ NameMatches(n)}

\* One look of realWaitReady: the serial, then three things asked of that emulator,
\* one after another; an adb that fails is a no.
DeviceReady(answered) == {"boot_completed", "bootanim_stopped", "package_manager"} \subseteq answered

Questions == <<"boot_completed", "bootanim_stopped", "package_manager">>
Answers(n, question) ==
    IF question = "boot_completed" THEN power[n] \in {"booted", "ready"} ELSE power[n] = "ready"

LookUp ==
    /\ place = "wait" /\ args.platform = "android" /\ ~late /\ serial = NoName
    /\ \E n \in Found : serial' = n
    /\ seen' = {} /\ UNCHANGED <<args, place, avd, late>> /\ Devices

Ask ==
    /\ place = "wait" /\ ~late /\ serial # NoName
    /\ \E k \in DOMAIN Questions :
          /\ seen = {Questions[j] : j \in 1 .. k - 1}
          /\ \/ /\ Answers(serial, Questions[k])
                /\ seen' = seen \cup {Questions[k]}
                /\ IF DeviceReady(seen') THEN place' = "locale" /\ serial' = NoName ELSE UNCHANGED <<place, serial>>
             \/ seen' = {} /\ serial' = NoName /\ UNCHANGED place
    /\ UNCHANGED <<args, avd, late>> /\ Devices

\* adb devices fails, or the deadline has passed when a command ends.
LookFails == place = "wait" /\ args.platform = "android" /\ (serial = NoName \/ late) /\ Fail

\* The locale is written to a simulator and read from an emulator.
Configure ==
    /\ place = "locale"
    /\ \/ args.locale = NoLocale /\ Go("ok")
       \/ args.locale # NoLocale /\ Fail
       \/ /\ args.locale # NoLocale /\ args.platform = "android"
          /\ \E n \in Found : locale[n] = args.locale
          /\ Go("ok")
       \/ /\ args.locale # NoLocale /\ args.platform = "ios"
          /\ locale' = [locale EXCEPT ![avd] = args.locale]
          /\ place' = "ok" /\ UNCHANGED <<args, avd, serial, seen, late, power, wasReady, boots>>

StartStep == Parse \/ Create \/ ListAVDs \/ Boot \/ Launch \/ BootStatus \/ LookUp \/ Ask \/ LookFails \/ Configure

\* startDeviceReadyTimeout.
DeadlinePasses ==
    /\ place = "wait" /\ ~late
    /\ late' = TRUE /\ UNCHANGED <<args, place, avd, serial, seen>> /\ Devices

\* A device that was started comes up; one that is up may go down.
Follows == [off |-> "off", starting |-> "attached", attached |-> "booted", booted |-> "ready", ready |-> "ready"]
Progresses(n) ==
    /\ place \notin Ends /\ power[n] \in Up \ {"ready"}
    /\ power' = [power EXCEPT ![n] = Follows[@]]
    /\ wasReady' = IF power[n] = "booted" THEN wasReady \cup {n} ELSE wasReady
    /\ UNCHANGED <<args, place, avd, serial, seen, late, locale, boots>>
GoesDown(n) ==
    /\ place \notin Ends \cup {"parse"} /\ power[n] \in Up
    /\ power' = [power EXCEPT ![n] = "off"]
    /\ UNCHANGED <<args, place, avd, serial, seen, late, locale, wasReady, boots>>

StartNext == StartStep \/ DeadlinePasses \/ \E n \in Names : Progresses(n) \/ GoesDown(n)

-----------------------------------------------------------------------------
\* What start-device reports as started has been ready, as the very device that was
\* asked for or made, whatever other emulators run on the host and however often it
\* went down while it was waited for, and has the locale asked for.
StartedIsReady ==
    place = "ok" =>
        /\ args.device \in {avd, NoName} \/ (args.platform = "ios" /\ args.create)
        /\ avd \in wasReady
        /\ args.locale # NoLocale => locale[avd] = args.locale
=============================================================================
