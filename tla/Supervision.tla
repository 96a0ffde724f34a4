----------------------------- MODULE Supervision -----------------------------
(***************************************************************************)
(* What keeps the receiver from standing still where nobody is: the boot   *)
(* guard (main/boot_guard.c), the order of app_main (main/main.c) and the  *)
(* background supervision with its safety restarts and what it tells of    *)
(* the last one (main/sys_stats.c).                                        *)
(*                                                                         *)
(* NVS survives everything, RTC memory everything but a power loss, RAM    *)
(* nothing.  Time is a number of passes of sys_monitor_task: each ages     *)
(* what the code compares with esp_timer_get_time().  A task that is not   *)
(* stuck beats, and a receiver that is not mute sends, between two passes. *)
(***************************************************************************)
EXTENDS Integers, Sequences, FiniteSets

CONSTANTS
    Beaters,    \* the tasks that call sys_stats_heartbeat
    HbLimit,    \* s_hb_info[].limit_us of each, in passes
    Silent,     \* GUARD_GNSS_SILENT_US
    CasterDown, \* GUARD_CASTER_DOWN_US
    NoNet,      \* GUARD_NO_NET_US
    Roles,      \* "base", "rover": settings.device_mode
    Ublox,      \* whether the receiver is a u-blox: set of BOOLEANs
    Mishaps,    \* what may go wrong: see MishapNames
    MaxMishaps  \* how often

MishapNames == {"power", "panic", "hang", "stuck", "mute", "net", "caster", "user", "late"}
ASSUME MishapsAssumption == Mishaps \subseteq MishapNames /\ MaxMishaps \in Nat
ASSUME RolesAssumption == Roles \subseteq {"base", "rover"} /\ Ublox \subseteq BOOLEAN
ASSUME LimitsAssumption ==
    /\ HbLimit \in [Beaters -> Nat]
    /\ {Silent, CasterDown, NoNet} \subseteq Nat

VARIABLES
    \* Around the program.
    role, ublox, rx,  \* the receiver: ok, mute, or late (not switched on yet)
    net, casterUp, mishaps,
    \* What survives.
    nvsStage,         \* "bootguard"/"stage"
    rtc,              \* stage, restart note, fault flag, count of restarts without RTCM
    hw,               \* esp_reset_reason
    \* app_main.
    stage,            \* boot_stage_t reached; 0: reset
    hung,             \* the step in progress does not return
    told,             \* s_prev_rtc_stage or the NVS's, as s_note tells it; 0: nothing
    bootFault,        \* s_boot_fault
    lastReset,        \* the reason s_last_reset adds to that of the hardware
    \* sys_monitor_task and what it watches.
    hb,               \* age of each task's last beat, or Never
    stuck,            \* tasks that beat no more
    monStuck,         \* the monitor, or a core, does not run any more
    age,              \* of the boot (up), of the last RTCM on a base or NMEA on a rover
                      \* (rtcm), of last_disconnect_us (down), of no_net_since (noNet)
    sess, counted,    \* the connection to the caster, and whether there was one
    netSeen,          \* net_seen
    leaving,          \* restarts on their way: what each task is up to
    \* History.
    ended,            \* how the last boot ended
    earned            \* causes for which something has worked since their last restart;
                      \* "power": it has come back since the last for "never"

flash   == <<nvsStage, rtc, hw>>
outside == <<role, ublox, rx, net, casterUp, mishaps>>
boot    == <<stage, hung, told, bootFault, lastReset>>
watch   == <<hb, stuck, monStuck, age, sess, counted, netSeen>>
history == <<ended, earned>>
vars    == <<outside, flash, boot, watch, leaving, history>>

Never == -1
(* boot_stage_t *)
Off == 0  Start == 1  Nvs == 2  Oled == 4  Probe == 6  Net == 7  Web == 8
SdCheck == 9  Detect == 10  Services == 11  Done == 12

Causes == {"silent", "never", "caster", "nonet"}
Nobody == [mon |-> "no", user |-> "no"]
AtReset == [up |-> 0, rtcm |-> Never, down |-> Never, noNet |-> Never]
GarbageRtc == [stage |-> 0, note |-> "none", fault |-> FALSE, count |-> 0]

Monitoring == stage > SdCheck /\ ~monStuck /\ leaving.mon = "no"

StartStage == [net |-> Net, gnss |-> Detect, ntrip |-> Done, alerts |-> Done]

Older(a, limit) == IF a = Never THEN Never ELSE IF a > limit THEN a ELSE a + 1

SvInit ==
    /\ role \in Roles /\ ublox \in Ublox /\ rx = "ok"
    /\ net = TRUE /\ casterUp = "ok" /\ mishaps = 0
    /\ nvsStage = 0 /\ rtc = GarbageRtc /\ hw = "poweron"
    /\ stage = Off /\ hung = FALSE /\ told = 0 /\ bootFault = FALSE /\ lastReset = "none"
    /\ hb = [t \in Beaters |-> Never] /\ stuck = {} /\ monStuck = FALSE
    /\ age = AtReset /\ sess = "none" /\ counted = FALSE /\ netSeen = FALSE /\ leaving = Nobody
    /\ ended = [at |-> Done, power |-> TRUE, meant |-> FALSE] /\ earned = {"power"}

---------------------------------------------------------------------------
(* app_main, from one call of boot_guard to the next.                      *)

RunsTo(s) == stage = s - 1 /\ ~hung /\ stage' = s

BootEarly ==
    /\ RunsTo(Start)
    /\ told' = IF rtc.stage \in {0, Done} THEN 0 ELSE rtc.stage
    /\ rtc' = [rtc EXCEPT !.stage = Start]
    /\ UNCHANGED <<outside, nvsStage, hw, hung, bootFault, lastReset, watch, leaving, history>>

(* sys_stats_boot_report *)
BootReport ==
    /\ lastReset' = IF hw = "sw" THEN rtc.note ELSE "none"
    /\ bootFault' = (hw \in {"panic", "wdt"} \/ (hw = "sw" /\ rtc.fault))
    /\ rtc' = [rtc EXCEPT !.stage = Nvs, !.note = "none", !.fault = FALSE]

BootAfterNvs ==
    /\ RunsTo(Nvs)
    /\ BootReport
    /\ told' = IF told = 0 /\ nvsStage # Done THEN nvsStage ELSE told
    /\ nvsStage' = Nvs
    /\ UNCHANGED <<outside, hw, hung, watch, leaving, history>>

(* boot_guard_stage.  The receiver is set up on the way to the last one: a *)
(* receiver that is off then will not send before the next boot.           *)
BootStage == \E s \in Nvs + 1 .. Services :
    /\ RunsTo(s)
    /\ rtc' = [rtc EXCEPT !.stage = s]
    /\ nvsStage' = IF s \in {Probe, Net, Services} THEN s ELSE nvsStage
    /\ UNCHANGED <<outside, hw, hung, told, bootFault, lastReset, watch, leaving, history>>

(* Mutant: the end of the boot is noted in RTC memory only.                *)
BootDoneInRtc ==
    /\ RunsTo(Done)
    /\ rtc' = [rtc EXCEPT !.stage = Done] /\ UNCHANGED nvsStage
    /\ rx' = CASE rx = "off" -> "late" [] rx = "late" -> "ok" [] OTHER -> rx
    /\ UNCHANGED <<role, ublox, net, casterUp, mishaps, hw, hung, told, bootFault,
                   lastReset, watch, leaving, history>>

BootDone ==
    /\ RunsTo(Done)
    /\ rtc' = [rtc EXCEPT !.stage = Done] /\ nvsStage' = Done
    /\ rx' = CASE rx = "off" -> "late" [] rx = "late" -> "ok" [] OTHER -> rx
    /\ UNCHANGED <<role, ublox, net, casterUp, mishaps, hw, hung, told, bootFault,
                   lastReset, watch, leaving, history>>

---------------------------------------------------------------------------
(* Resets.                                                                 *)

Reset(reason) ==
    /\ stage # Off /\ stage' = Off
    /\ hw' = reason
    /\ hung' = FALSE /\ told' = 0 /\ bootFault' = FALSE /\ lastReset' = "none"
    /\ hb' = [t \in Beaters |-> Never] /\ stuck' = {} /\ monStuck' = FALSE
    /\ age' = AtReset /\ sess' = "none" /\ counted' = FALSE /\ netSeen' = FALSE /\ leaving' = Nobody
    /\ ended' = [at |-> stage, power |-> reason = "poweron", meant |-> leaving.user # "no"]

Mishap(m) == m \in Mishaps /\ mishaps < MaxMishaps /\ mishaps' = mishaps + 1

(* With "late", the receiver has its power back after the board.           *)
PowerLoss ==
    /\ Mishap("power") /\ Reset("poweron")
    /\ rtc' = GarbageRtc
    /\ rx' \in {rx} \union (IF "late" \in Mishaps THEN {"off"} ELSE {})
    /\ earned' = earned \union {"power"}
    /\ UNCHANGED <<role, ublox, net, casterUp, nvsStage>>

(* __wrap_esp_panic_handler, or sys_stats_test_fault("panic").             *)
Panic ==
    /\ Mishap("panic") /\ Reset("panic")
    /\ UNCHANGED <<role, ublox, rx, net, casterUp, nvsStage, rtc, earned>>

(* The RTC watchdog of boot_guard_early, which boot_guard_done stops.      *)
BootWatchdog ==
    /\ hung /\ Reset("wdt")
    /\ UNCHANGED <<outside, nvsStage, rtc, earned>>

(* That of the tasks: sys_monitor_task does not feed it any more.          *)
TaskWatchdog ==
    /\ monStuck /\ Reset("wdt")
    /\ UNCHANGED <<outside, nvsStage, rtc, earned>>

(* sys_stats_restart_with_reason, after the log is on the card.            *)
MonRestarts ==
    /\ leaving.mon # "no" /\ Reset("sw")
    /\ earned' = earned \ ({leaving.mon} \union IF leaving.mon = "never" THEN {"power"} ELSE {})
    /\ UNCHANGED <<outside, nvsStage, rtc>>

(* A restart on purpose: the panel, the button, an update, a measure.      *)
(* boot_guard_restarting: an unfinished boot is not one that stood still.  *)
BootGuardRestarting ==
    /\ nvsStage' = IF rtc.stage = Done THEN nvsStage ELSE Done
    /\ rtc' = [rtc EXCEPT !.fault = FALSE, !.stage = Done]

UserNotes ==
    /\ Mishap("user") /\ stage >= Oled /\ leaving.user = "no"
    /\ BootGuardRestarting
    /\ leaving' = [leaving EXCEPT !.user = "flushing"]
    /\ UNCHANGED <<role, ublox, rx, net, casterUp, hw, boot, watch, history>>

UserWrites ==
    /\ leaving.user = "flushing"
    /\ rtc' = [rtc EXCEPT !.note = "user"]
    /\ leaving' = [leaving EXCEPT !.user = "going"]
    /\ UNCHANGED <<outside, nvsStage, hw, boot, watch, history>>

(* A factory reset has erased "bootguard" with the other namespaces.       *)
UserRestarts == 
    /\ leaving.user = "going" /\ Reset("sw")
    /\ nvsStage' \in {nvsStage, 0}
    /\ UNCHANGED <<outside, rtc, earned>>

---------------------------------------------------------------------------
(* The connection to the caster, as main/status.c dates it: a session of   *)
(* less than a pass does not end an outage.                                *)

Client == stage = Done /\ role = "base" /\ "ntrip" \notin stuck
Accepts == net /\ casterUp # "down"

NoteConnected ==
    /\ Client /\ sess = "none" /\ Accepts
    /\ sess' = "short" /\ counted' = TRUE
    /\ earned' = earned \union {"caster"}
    /\ UNCHANGED <<outside, flash, boot, hb, stuck, monStuck, age, netSeen, leaving, ended>>

NoteDisconnected ==
    /\ Client /\ ~(Accepts /\ casterUp = "ok")
    /\ sess # "none" \/ (age.down = Never /\ ~Accepts)
    /\ sess' = "none"
    /\ age' = [age EXCEPT !.down = IF sess = "long" \/ @ = Never THEN 0 ELSE @]
    /\ UNCHANGED <<outside, flash, boot, hb, stuck, monStuck, counted, netSeen, leaving,
                   history>>

---------------------------------------------------------------------------
(* sys_monitor_task                                                        *)

Sends == stage = Done /\ rx = "ok" /\ "gnss" \notin stuck
Beats(t) == stage >= StartStage[t] /\ t \notin stuck

Aged == [
    up    |-> Older(age.up, Silent),
    rtcm  |-> IF Sends THEN 0 ELSE Older(age.rtcm, Silent),
    down  |-> Older(age.down, CasterDown),
    noNet |-> IF net THEN Never
              ELSE IF netSeen /\ age.noNet = Never THEN 0 ELSE Older(age.noNet, NoNet)]

(* Mutant: a receiver never heard restarts the board again and again.      *)
OverdueAgain(a) ==
    (IF a.rtcm > Silent THEN <<"silent">> ELSE <<>>) \o
    (IF role = "base" /\ a.rtcm = Never /\ a.up > Silent THEN <<"never">> ELSE <<>>) \o
    (IF role = "base" /\ net /\ counted /\ sess' = "none" /\ a.down > CasterDown
     THEN <<"caster">> ELSE <<>>) \o
    (IF role = "base" /\ a.noNet > NoNet THEN <<"nonet">> ELSE <<>>)

(* safety_restart_check at ages a: the last of each kind, on a base.       *)
Overdue(a) ==
    (IF a.rtcm > Silent THEN <<"silent">> ELSE <<>>) \o
    (IF role = "base" /\ a.rtcm = Never /\ a.up > Silent /\ rtc.count < 1
     THEN <<"never">> ELSE <<>>) \o
    (IF role = "base" /\ net /\ counted /\ sess' = "none" /\ a.down > CasterDown
     THEN <<"caster">> ELSE <<>>) \o
    (IF role = "base" /\ a.noNet > NoNet THEN <<"nonet">> ELSE <<>>)

(* The first that holds restarts, and does not return; the heartbeats come *)
(* last.                                                                   *)
Cause(a, late) ==
    CASE Overdue(a) # <<>> -> Head(Overdue(a))
      [] OTHER -> IF late # {} THEN "stuck" ELSE "no"

(* Mutant: the board restarts, the receiver does not.                      *)
RevivedNever(cause) == rx

(* receiver_silent_restart: only a u-blox can be restarted.                *)
Revived(cause) ==
    IF cause \in {"silent", "never"} /\ ublox /\ rx = "mute" THEN "ok" ELSE rx

SysMonitor ==
    /\ Monitoring
    /\ age' = Aged
    /\ hb' = [t \in Beaters |-> IF Beats(t) THEN 0 ELSE Older(hb[t], HbLimit[t])]
    /\ sess' = IF sess = "short" /\ casterUp = "ok" THEN "long" ELSE sess
    /\ netSeen' = (netSeen \/ net)
    /\ LET cause == Cause(Aged, {t \in Beaters : hb'[t] > HbLimit[t]})
        IN  /\ leaving' = [leaving EXCEPT !.mon = cause]
            /\ rtc' = [rtc EXCEPT
                    !.note  = IF cause = "no" THEN @ ELSE cause,
                    !.fault = @ \/ cause # "no",
                    !.count = IF role = "base" /\ Aged.rtcm # Never THEN 0
                              ELSE IF cause = "never" THEN @ + 1 ELSE @]
            /\ rx' = Revived(cause)
    /\ earned' = earned \union (IF age'.rtcm = Never THEN {} ELSE {"silent", "never"})
                        \union (IF net THEN {"nonet"} ELSE {})
    /\ UNCHANGED <<role, ublox, net, casterUp, mishaps, nvsStage, hw, boot, stuck, monStuck,
                   counted, ended>>

---------------------------------------------------------------------------
(* What goes wrong around it.                                              *)

BootHangs ==
    /\ Mishap("hang") /\ stage \in Start .. Services /\ ~hung /\ hung' = TRUE
    /\ UNCHANGED <<role, ublox, rx, net, casterUp, flash, stage, told, bootFault, lastReset,
                   watch, leaving, history>>

(* Or sys_stats_test_fault("hang").                                        *)
CoreHangs ==
    /\ Mishap("hang") /\ stage > SdCheck /\ ~monStuck /\ monStuck' = TRUE
    /\ UNCHANGED <<role, ublox, rx, net, casterUp, flash, boot, hb, stuck, age, sess,
                   counted, netSeen, leaving, history>>

(* Or the tests of sys_stats_test_fault that freeze a heartbeat.           *)
TaskStops == \E t \in Beaters \ stuck :
    /\ Mishap("stuck") /\ stage >= StartStage[t] /\ stuck' = stuck \union {t}
    /\ UNCHANGED <<role, ublox, rx, net, casterUp, flash, boot, hb, monStuck, age, sess,
                   counted, netSeen, leaving, history>>

ReceiverMute ==
    /\ Mishap("mute") /\ rx = "ok" /\ rx' = "mute"
    /\ UNCHANGED <<role, ublox, net, casterUp, flash, boot, watch, leaving, history>>

NetChanges ==
    /\ Mishap("net") /\ net' = ~net
    /\ UNCHANGED <<role, ublox, rx, casterUp, flash, boot, watch, leaving, history>>

CasterChanges ==
    /\ Mishap("caster") /\ casterUp' \in {"ok", "down", "closes"} \ {casterUp}
    /\ UNCHANGED <<role, ublox, rx, net, flash, boot, watch, leaving, history>>

Boots    == BootEarly \/ BootAfterNvs \/ BootStage \/ BootDone
Watchdog == BootWatchdog \/ TaskWatchdog
User     == UserNotes \/ UserWrites \/ UserRestarts
Trouble  == PowerLoss \/ Panic \/ BootHangs \/ CoreHangs \/ TaskStops \/ ReceiverMute
            \/ NetChanges \/ CasterChanges

SvNext == Boots \/ Watchdog \/ MonRestarts \/ User \/ NoteConnected \/ NoteDisconnected
          \/ SysMonitor \/ Trouble

(* Tasks that are not stuck run, and the watchdogs of the chip expire.     *)
SvSpec == SvInit /\ [][SvNext]_vars
SvFairness == WF_vars(Boots) /\ WF_vars(Watchdog) /\ WF_vars(MonRestarts) /\ WF_vars(SysMonitor)
SvFairSpec == SvSpec /\ SvFairness

---------------------------------------------------------------------------
(* Types of the variables.                                                 *)
SvTypeOK ==
    /\ role \in {"base", "rover"} /\ rx \in {"ok", "mute", "off", "late"}
    /\ {ublox, net, hung, bootFault, monStuck, counted, netSeen} \subseteq BOOLEAN
    /\ casterUp \in {"ok", "down", "closes"} /\ sess \in {"none", "short", "long"}
    /\ mishaps \in 0 .. MaxMishaps
    /\ {nvsStage, stage, told} \subseteq 0 .. Done /\ rtc.stage \in 0 .. Done
    /\ rtc.count \in 0 .. 1 /\ rtc.fault \in BOOLEAN
    /\ hw \in {"poweron", "sw", "panic", "wdt"}
    /\ \A t \in Beaters : hb[t] \in Never .. HbLimit[t] + 1
    /\ {age.up, age.rtcm} \subseteq Never .. Silent + 1
    /\ age.down \in Never .. CasterDown + 1 /\ age.noNet \in Never .. NoNet + 1
    /\ leaving.user \in {"no", "flushing", "going"}
    /\ leaving.mon \in Causes \union {"no", "stuck"}

(* A boot that was cut is told by the next one: at its exact step when RTC *)
(* memory survived, and at one it had reached when only NVS did; a boot    *)
(* that finished is not (main/boot_guard.h).  Restarts on purpose are left *)
(* out here, see OnPurposeNotTold.                                         *)
BootTold ==
    stage >= Nvs /\ ~ended.meant =>
        CASE ended.at = Done -> told = 0
          [] ended.at < Done /\ ~ended.power -> told = ended.at
          [] ended.at < Done /\ ended.power -> ended.at >= Nvs => told \in Nvs .. ended.at

(* The variables keep their types, and every cut boot is told as it was    *)
(* (main/boot_guard.c).                                                    *)
CutBootTold == SvTypeOK /\ BootTold

(* main/boot_guard.c:142 and main/reset_button.c:24: a restart on purpose, *)
(* in the middle of a boot too, does not leave a "boot that stood still".  *)
OnPurposeNotTold == stage >= Nvs /\ ended.meant => told = 0

(* "Only for blocks after things have worked at least once" (the comment   *)
(* over GUARD_GNSS_SILENT_US): the supervision never restarts for a cause  *)
(* before what it restarts for has worked, nor again before it has worked  *)
(* once more.  A receiver that was never heard is the exception, with one  *)
(* restart in a row ("Un solo riavvio di fila") and one more for each      *)
(* return of the power, which the count in RTC memory does not survive.    *)
RestartsEarned ==
    leaving.mon \in Causes =>
        \/ leaving.mon \in earned
        \/ leaving.mon = "never" /\ "power" \in earned

(* Nothing that hangs stays hung: a boot, a core or the monitor, or a task *)
(* that has beaten once and stops, ends in a restart.                      *)
TaskHangEnds ==
    (hung \/ monStuck \/ \E t \in stuck : hb[t] # Never) ~> stage = Off

(* A u-blox that stops sending to a base is restarted, whatever else       *)
(* restarts the board before that.                                         *)
ReceiverRevived ==
    (role = "base" /\ ublox /\ age.rtcm # Never /\ rx = "mute") ~> rx # "mute"

(* Hung tasks, hung boots and a mute receiver all end in a restart         *)
(* (main/sys_stats.c).                                                     *)
HangEnds == TaskHangEnds /\ ReceiverRevived
=============================================================================
