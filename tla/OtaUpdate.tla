------------------------------ MODULE OtaUpdate ------------------------------
(***************************************************************************)
(* Firmware update of the receiver (main/ota_update.c and the callers that *)
(* install an image: the panel's upload and archive restore, the microSD   *)
(* check, the online and the automatic update), with the automatic return  *)
(* to the previous version.                                                *)
(*                                                                         *)
(* Flash holds two application slots.  An image is written to the slot     *)
(* that is not running, then that slot is made the next boot.  The         *)
(* bootloader starts a NEW slot once, as PENDING ("in prova"): a reset     *)
(* before the firmware confirms itself marks it ABORTED and the other slot *)
(* starts.  Every step is a separate action, so that a crash or a power    *)
(* loss falls between any two of them.                                     *)
(*                                                                         *)
(* A firmware image is a build: a positive number that is also its         *)
(* FIRMWARE_VERSION (semver_compare orders versions as numbers order       *)
(* builds).  Contents, sizes and CRCs are abstracted: an image is whole    *)
(* or it is not.                                                           *)
(***************************************************************************)
EXTENDS Naturals

CONSTANTS
    Builds,    \* the firmware images that can be offered to the device
    Numbered,  \* those whose app descriptor holds a numeric version (1.35.14 on)
    Actors,    \* the tasks that run an installation
    Links      \* what net_any_up can say: BOOLEAN, or one value

NoBuild == 0   \* an erased slot, an absent NVS string, no file on the card

ASSUME BuildsAssumption ==
    /\ Builds \subseteq Nat \ {NoBuild}
    /\ Builds # {}
    /\ Numbered \subseteq Builds
ASSUME ActorsAssumption == Actors \subseteq {"httpd", "sd", "online"}
ASSUME LinksAssumption  == Links \subseteq BOOLEAN /\ Links # {}

Slots == 0 .. 1                         \* ota_0 and ota_1

VARIABLES
    \* Flash: survives everything.
    img,        \* build in each slot, as its descriptor reads (NoBuild: erased)
    whole,      \* the image of the slot is complete and verifies
    st,         \* otadata state of the slot
    bootSlot,   \* slot selected by otadata
    nvs,        \* "otaroll" (netb, seen, try, bad) and "sdupd" (ver)
    \* RTC memory: survives a reset, not a power loss.
    rtcNet,     \* s_rtc_net_up, "lost" when s_rtc_net_magic does not match
    \* RAM.
    running,    \* esp_ota_get_running_partition
    stage,      \* how far app_main has got
    busy,       \* s_busy: an update is in progress
    pending,    \* s_pending: new firmware on trial
    netBefore,  \* s_net_before while on trial, which alone reads it; FALSE otherwise
    netSeen,    \* net_seen of ota_update_confirm_tick
    age,        \* uptime: 0 below 5 min, 1 below 15, 2 below 60, 3 from there on
    job,        \* what each installing task is doing, and with which build
    auto,       \* version the automatic update has noted and is about to install
    leaving,    \* sys_stats_note_restart_reason done, esp_restart to come
    \* Outside the firmware.
    net,        \* net_any_up
    card        \* build of firmware.bin/firmware.json on the microSD

flash == <<img, whole, st, bootSlot>>
trial == <<pending, netBefore, netSeen, age>>
env   == <<net, card>>
vars  == <<flash, nvs, rtcNet, running, stage, busy, trial, job, auto,
           leaving, env>>

SlotState == {"UNDEFINED", "NEW", "PENDING", "VALID", "ABORTED"}
Stages    == {"check", "record", "confirm", "sdcheck", "sdwait", "run"}
Steps     == {"idle", "locked", "marked", "erased", "header", "verified",
              "bootset", "netnoted", "noted", "sdnoted"}
Maybe(S)  == S \union {NoBuild}

Other(s)  == 1 - s
Target    == Other(running)             \* esp_ota_get_next_update_partition
NoKey     == <<0, NoBuild>>             \* "seen" absent
Idle      == [pc |-> "idle", build |-> NoBuild]

(* The panel answers.  app_main starts it and calls start_confirm at once:  *)
(* no request gets in between (an installation takes tens of seconds).     *)
Serving == stage \in {"sdcheck", "sdwait", "run"}

FlashTypes ==
    /\ img \in [Slots -> Maybe(Builds)]
    /\ st \in [Slots -> SlotState]
    /\ bootSlot \in Slots /\ running \in Slots

NvsTypes ==
    nvs \in [netb : {"none", "down", "up"}, seen : Slots \X Maybe(Builds),
             try : Maybe(Builds), bad : Maybe(Builds), sdver : Maybe(Builds)]

FlagTypes ==
    /\ whole \in [Slots -> BOOLEAN]
    /\ {busy, pending, netBefore, netSeen, leaving, net} \subseteq BOOLEAN

TaskTypes ==
    /\ job \in [Actors -> [pc : Steps, build : Maybe(Builds)]]
    /\ {auto, card} \subseteq Maybe(Builds)
    /\ rtcNet \in {"lost", "down", "up"}
    /\ stage \in Stages
    /\ age \in 0 .. 3

(* Slots, NVS strings, the RTC flag and the progress of each installation  *)
(* only take the values the code gives them: no step notes what it should  *)
(* not (a lost RTC value written to NVS, a slot that does not exist).      *)
TypeOK == FlashTypes /\ NvsTypes /\ FlagTypes /\ TaskTypes

(* A device as it leaves the bench: one image written over USB, no otadata. *)
Init ==
    /\ \E b \in Builds : img = [s \in Slots |-> IF s = 0 THEN b ELSE NoBuild]
    /\ whole = [s \in Slots |-> s = 0]
    /\ st = [s \in Slots |-> "UNDEFINED"]
    /\ bootSlot = 0
    /\ nvs = [netb |-> "none", seen |-> NoKey, try |-> NoBuild,
              bad |-> NoBuild, sdver |-> NoBuild]
    /\ rtcNet = "lost"
    /\ running = 0
    /\ stage = "check"
    /\ busy = FALSE /\ pending = FALSE /\ netBefore = FALSE /\ netSeen = FALSE
    /\ age = 0
    /\ job = [a \in Actors |-> Idle]
    /\ auto = NoBuild
    /\ leaving = FALSE
    /\ net \in Links
    /\ card = NoBuild

-----------------------------------------------------------------------------
(* The bootloader (external), and the resets that reach it.                *)

(* A slot still PENDING is aborted and the other one starts; a NEW slot    *)
(* starts as PENDING; a slot whose image does not verify is passed over.   *)
Bootloader ==
    LET failed == st[bootSlot] = "PENDING"
        chosen == IF failed THEN Other(bootSlot) ELSE bootSlot
    IN  /\ st' = [s \in Slots |->
                    IF s = bootSlot /\ failed THEN "ABORTED"
                    ELSE IF s = chosen /\ st[s] = "NEW" THEN "PENDING"
                    ELSE st[s]]
        /\ bootSlot' = chosen
        /\ running' = IF whole[chosen] THEN chosen ELSE Other(chosen)

Reset ==
    /\ Bootloader
    /\ stage' = "check"
    /\ busy' = FALSE /\ pending' = FALSE /\ netBefore' = FALSE /\ netSeen' = FALSE
    /\ age' = 0
    /\ job' = [a \in Actors |-> Idle]
    /\ auto' = NoBuild
    /\ leaving' = FALSE
    /\ UNCHANGED <<img, whole, nvs, env>>

(* Panic, watchdog, boot guard or sys_stats_restart_with_reason.           *)
Crash == Reset /\ UNCHANGED rtcNet

PowerLoss == Reset /\ rtcNet' = "lost"

(* The esp_restart() that follows sys_stats_note_restart_reason.           *)
SoftRestart == leaving /\ Reset /\ UNCHANGED rtcNet

-----------------------------------------------------------------------------
(* Boot, in the order of app_main.                                         *)

(* ota_update_check_rollback, first half: a slot the bootloader aborted,    *)
(* unless NVS says it was already reported, is noted as seen.              *)
CheckRollback ==
    /\ stage = "check"
    /\ \/ \E s \in Slots :
            /\ st[s] = "ABORTED" /\ img[s] # NoBuild
            /\ nvs.seen # <<s, img[s]>>
            /\ nvs' = [nvs EXCEPT !.seen = <<s, img[s]>>]
            /\ stage' = "record"
       \/ /\ \A s \in Slots : st[s] = "ABORTED" /\ img[s] # NoBuild
                                => nvs.seen = <<s, img[s]>>
          /\ stage' = "confirm"
          /\ UNCHANGED nvs
    /\ UNCHANGED <<flash, rtcNet, running, busy, trial, job, auto,
                   leaving, env>>

(* Mutants, here and below, are named for the bug they stand for.          *)
RecordBadOnlyNoted ==
    /\ stage = "record"
    /\ stage' = "confirm"
    /\ nvs' = [nvs EXCEPT !.bad = IF nvs.try = NoBuild THEN @ ELSE nvs.try]
    /\ UNCHANGED <<flash, rtcNet, running, busy, trial, job, auto,
                   leaving, env>>

(* Its second half, another write of NVS: the version to skip is the one   *)
(* written in the image just noted, or for an unnumbered image the one     *)
(* noted as being tried.  A reset that falls before it finds the rollback  *)
(* seen, and the version is never recorded.                                *)
RecordBad ==
    /\ stage = "record"
    /\ stage' = "confirm"
    /\ LET annulledImg == nvs.seen[2]
           version == IF annulledImg \in Numbered THEN annulledImg ELSE nvs.try
       IN  nvs' = [nvs EXCEPT !.bad = IF version = NoBuild THEN @ ELSE version]
    /\ UNCHANGED <<flash, rtcNet, running, busy, trial, job, auto,
                   leaving, env>>

StartConfirmRtcOnly ==
    /\ stage = "confirm"
    /\ stage' = "sdcheck"
    /\ nvs' = [nvs EXCEPT !.netb = "none"]
    /\ pending' = (st[running] = "PENDING" \/ pending)
    /\ netBefore' = (pending' /\ rtcNet = "up")
    /\ UNCHANGED <<flash, rtcNet, running, busy, netSeen, age, job, auto,
                   leaving, env>>

(* ota_update_start_confirm: was the network up before the update?  Then   *)
(* the running image is on trial if the bootloader started it as PENDING.  *)
StartConfirm ==
    /\ stage = "confirm"
    /\ stage' = "sdcheck"
    /\ nvs' = [nvs EXCEPT !.netb = "none"]
    /\ pending' = (st[running] = "PENDING" \/ pending)
    /\ netBefore' = (pending' /\ (rtcNet = "up" \/ nvs.netb = "up"))
    /\ UNCHANGED <<flash, rtcNet, running, busy, netSeen, age, job, auto,
                   leaving, env>>

(* The microSD check at boot found nothing to install, failed, or is still *)
(* running when the wait of app_main expires.                              *)
BootGoesOn ==
    /\ stage \in {"sdcheck", "sdwait"}
    /\ stage' = "run"
    /\ UNCHANGED <<flash, nvs, rtcNet, running, busy, trial, job, auto,
                   leaving, env>>

-----------------------------------------------------------------------------
(* Trial and confirmation.                                                 *)

(* ota_update_mark_valid.  otadata and "try" are written in one step: a    *)
(* cut between them leaves a version noted under a confirmed image, which  *)
(* is what an automatic update that is refused leaves too (AutoFound).     *)
(* With the trial over nobody reads netBefore any more.                    *)
MarkValid ==
    /\ pending' = FALSE /\ netBefore' = FALSE
    /\ \/ /\ st[running] = "PENDING"
          /\ st' = [st EXCEPT ![running] = "VALID"]
          /\ nvs' = [nvs EXCEPT !.try = NoBuild]
       \/ /\ st[running] # "PENDING"
          /\ UNCHANGED <<st, nvs>>

Stable(connected, seen) ==
    \/ age >= 1 /\ connected
    \/ age >= 2 /\ (seen \/ ~netBefore)

NoNetNeverHadIt(seen) == age = 3 /\ ~seen /\ ~netBefore

NoNetForAnHour(seen) == age = 3 /\ ~seen /\ netBefore

(* ota_update_confirm_tick, every 5 s from the monitor task once app_main  *)
(* has passed the microSD check.  "connected" is the caster's state.       *)
TickConfirms ==
    /\ stage = "run" /\ pending
    /\ \E connected \in BOOLEAN :
         /\ connected => net
         /\ Stable(connected, netSeen \/ net)
    /\ netSeen' = (netSeen \/ net)
    /\ MarkValid
    /\ rtcNet' = IF net THEN "up" ELSE "down"
    /\ UNCHANGED <<img, whole, bootSlot, running, stage, busy, age, job,
                   auto, leaving, env>>

TickGivesUp ==
    /\ stage = "run" /\ pending
    /\ NoNetForAnHour(netSeen \/ net)
    /\ Reset /\ UNCHANGED rtcNet

TickWaits ==
    /\ stage = "run"
    /\ pending => /\ \E connected \in BOOLEAN :
                       /\ connected => net
                       /\ ~Stable(connected, netSeen \/ net)
                  /\ ~NoNetForAnHour(netSeen \/ net)
    /\ netSeen' = (netSeen \/ (pending /\ net))
    /\ rtcNet' = IF net THEN "up" ELSE "down"
    /\ UNCHANGED <<flash, nvs, running, stage, busy, pending, netBefore, age, job,
                   auto, leaving, env>>

(* Without a trial, only the quarter of an hour before the automatic       *)
(* update is told apart.                                                   *)
TimePasses ==
    /\ stage = "run"
    /\ \/ pending /\ age < 3 /\ age' = age + 1
       \/ ~pending /\ age < 2 /\ age' = 2
    /\ UNCHANGED <<flash, nvs, rtcNet, running, stage, busy, pending, netBefore,
                   netSeen, job, auto, leaving, env>>

(* sys_stats_note_restart_reason from the panel, the reset button or the   *)
(* position measurement: a restart on purpose confirms the image.          *)
UserRestart ==
    /\ Serving
    /\ MarkValid
    /\ leaving' = TRUE
    /\ UNCHANGED <<img, whole, bootSlot, rtcNet, running, stage, busy,
                   netSeen, age, job, auto, env>>

-----------------------------------------------------------------------------
(* Who starts an installation.                                             *)

TryBeginUnlocked(a, b) ==
    /\ busy' = TRUE
    /\ job' = [job EXCEPT ![a] = [pc |-> "locked", build |-> b]]

(* ota_update_try_begin.  A caller that finds s_busy set gives up and      *)
(* changes nothing.                                                        *)
TryBegin(a, b) ==
    /\ ~busy
    /\ busy' = TRUE
    /\ job' = [job EXCEPT ![a] = [pc |-> "locked", build |-> b]]

(* Upload from the browser, or fw_archive_apply: any version, also older.  *)
HttpdStart(b) ==
    /\ "httpd" \in Actors /\ Serving /\ job["httpd"] = Idle
    /\ TryBegin("httpd", b)
    /\ UNCHANGED <<flash, nvs, rtcNet, running, stage, trial, auto,
                   leaving, env>>

CardIsNewer == card # NoBuild /\ card > img[running]

(* sd_update_check_and_apply_impl, up to ota_update_apply: from app_main   *)
(* at boot ("sdcheck") or from the panel.                                  *)
SdStart ==
    /\ "sd" \in Actors /\ stage \in {"sdcheck", "run"} /\ job["sd"] = Idle
    /\ CardIsNewer /\ nvs.sdver # card
    /\ TryBegin("sd", card)
    /\ stage' = IF stage = "sdcheck" THEN "sdwait" ELSE stage
    /\ UNCHANGED <<flash, nvs, rtcNet, running, trial, auto, leaving, env>>

(* The same check when NVS says this version was installed from the card:  *)
(* not installed, reported as annulled by the bootloader (OtaHistory).     *)
SdRefuse ==
    /\ "sd" \in Actors /\ stage \in {"sdcheck", "run"} /\ job["sd"] = Idle
    /\ CardIsNewer /\ nvs.sdver = card
    /\ stage' = "run"
    /\ UNCHANGED <<flash, nvs, rtcNet, running, busy, trial, job, auto, leaving, env>>

(* online_update_apply_async asked for by the panel.                       *)
OnlineStart(b) ==
    /\ "online" \in Actors /\ Serving /\ net /\ job["online"] = Idle
    /\ TryBegin("online", b)
    /\ UNCHANGED <<flash, nvs, rtcNet, running, stage, trial, auto,
                   leaving, env>>

AutoFoundAgain(v) ==
    /\ "online" \in Actors /\ stage = "run" /\ age >= 2 /\ net /\ auto = NoBuild
    /\ v > img[running]
    /\ nvs' = [nvs EXCEPT !.try = v]
    /\ auto' = v
    /\ UNCHANGED <<flash, rtcNet, running, stage, busy, trial, job,
                   leaving, env>>

(* auto_update_task: a newer version that is not the rejected one is noted *)
(* in NVS (ota_update_note_trying), then handed to the online task.        *)
AutoFound(v) ==
    /\ "online" \in Actors /\ stage = "run" /\ age >= 2 /\ net /\ auto = NoBuild
    /\ v > img[running]
    /\ nvs.bad # v
    /\ nvs' = [nvs EXCEPT !.try = v]
    /\ auto' = v
    /\ UNCHANGED <<flash, rtcNet, running, stage, busy, trial, job,
                   leaving, env>>

AutoApply ==
    /\ "online" \in Actors /\ auto # NoBuild
    /\ auto' = NoBuild
    /\ \/ TryBegin("online", auto)
       \/ busy /\ UNCHANGED <<busy, job>>
    /\ UNCHANGED <<flash, nvs, rtcNet, running, stage, trial, leaving, env>>

-----------------------------------------------------------------------------
(* ota_update_apply_locked and online_update_apply, step by step.          *)

At(a, pc)   == job[a].pc = pc
Goto(a, pc) == job' = [job EXCEPT ![a].pc = pc]

(* The archive copy of the running image (module FwArchive) is over; the   *)
(* running image is confirmed so that esp_ota_begin accepts the update.    *)
Confirm(a) ==
    /\ At(a, "locked") /\ Goto(a, "marked")
    /\ MarkValid
    /\ UNCHANGED <<img, whole, bootSlot, rtcNet, running, stage, busy,
                   netSeen, age, auto, leaving, env>>

(* The file of an online update is refused unless it is a newer version.   *)
VersionAccepted(a) ==
    a = "online" /\ job[a].build \in Numbered => job[a].build > img[running]

(* esp_ota_begin: refused while the running image is PENDING, otherwise    *)
(* the target slot is erased.                                              *)
EspOtaBegin(a) ==
    /\ At(a, "marked") /\ st[running] # "PENDING" /\ VersionAccepted(a)
    /\ Goto(a, "erased")
    /\ img' = [img EXCEPT ![Target] = NoBuild]
    /\ whole' = [whole EXCEPT ![Target] = FALSE]
    /\ UNCHANGED <<st, bootSlot, nvs, rtcNet, running, stage, busy, trial, auto, leaving, env>>

(* The first esp_ota_write: the slot now reads as this build.              *)
WriteHeader(a) ==
    /\ At(a, "erased") /\ Goto(a, "header")
    /\ img' = [img EXCEPT ![Target] = job[a].build]
    /\ UNCHANGED <<whole, st, bootSlot, nvs, rtcNet, running, stage, busy, trial,
                   auto, leaving, env>>

(* The last esp_ota_write and an esp_ota_end that verifies.                *)
EspOtaEnd(a) ==
    /\ At(a, "header") /\ Goto(a, "verified")
    /\ whole' = [whole EXCEPT ![Target] = TRUE]
    /\ UNCHANGED <<img, st, bootSlot, nvs, rtcNet, running, stage, busy, trial,
                   auto, leaving, env>>

SetBootNoRollback(a) ==
    /\ At(a, "verified") /\ Goto(a, "bootset")
    /\ bootSlot' = Target
    /\ UNCHANGED <<img, whole, st, nvs, rtcNet, running, stage, busy, trial, auto, leaving, env>>

(* esp_ota_set_boot_partition: the image just written starts next, NEW.    *)
SetBootPartition(a) ==
    /\ At(a, "verified") /\ Goto(a, "bootset")
    /\ bootSlot' = Target
    /\ st' = [st EXCEPT ![Target] = "NEW"]
    /\ UNCHANGED <<img, whole, nvs, rtcNet, running, stage, busy, trial, auto, leaving, env>>

NoteNetFromRtc(a) ==
    /\ At(a, "bootset") /\ Goto(a, "netnoted")
    /\ nvs' = [nvs EXCEPT !.netb = rtcNet]
    /\ UNCHANGED <<flash, rtcNet, running, stage, busy, trial, auto,
                   leaving, env>>

(* ota_update_note_installed: the state of the network goes to NVS ...     *)
NoteNet(a) ==
    /\ At(a, "bootset") /\ Goto(a, "netnoted")
    /\ nvs' = [nvs EXCEPT !.netb = IF net THEN "up" ELSE "down"]
    /\ UNCHANGED <<flash, rtcNet, running, stage, busy, trial, auto,
                   leaving, env>>

(* ... then a future rollback of the slot is made news again.              *)
NoteInstalled(a) ==
    /\ At(a, "netnoted") /\ Goto(a, "noted")
    /\ nvs' = [nvs EXCEPT !.seen = NoKey]
    /\ UNCHANGED <<flash, rtcNet, running, stage, busy, trial, auto,
                   leaving, env>>

FailAnyTime(a) ==
    /\ ~At(a, "idle")
    /\ job' = [job EXCEPT ![a] = Idle]
    /\ busy' = FALSE
    /\ UNCHANGED <<flash, nvs, rtcNet, running, stage, trial, auto,
                   leaving, env>>

(* Any error before the boot slot changes: read, write, verification,      *)
(* download version.  ota_update_end(false) frees the lock.       *)
Fail(a) ==
    /\ job[a].pc \in {"locked", "marked", "erased", "header", "verified"}
    /\ job' = [job EXCEPT ![a] = Idle]
    /\ busy' = FALSE
    /\ UNCHANGED <<flash, nvs, rtcNet, running, stage, trial, auto,
                   leaving, env>>

(* The microSD check notes the version it installed and renames the file   *)
(* (a rename that fails leaves it on the card).                            *)
SdNoteVersion ==
    /\ "sd" \in Actors /\ At("sd", "noted") /\ Goto("sd", "sdnoted")
    /\ nvs' = [nvs EXCEPT !.sdver = job["sd"].build]
    /\ card' \in {card, NoBuild}
    /\ UNCHANGED <<flash, rtcNet, running, stage, busy, trial, auto,
                   leaving, net>>

LeaveUnlocking(a) ==
    /\ At(a, IF a = "sd" THEN "sdnoted" ELSE "noted")
    /\ ~leaving
    /\ MarkValid
    /\ leaving' = TRUE
    /\ busy' = FALSE
    /\ UNCHANGED <<img, whole, bootSlot, rtcNet, running, stage, netSeen, age, job, auto, env>>

LeaveUnlessOrphan(a) ==
    /\ At(a, "noted") /\ a # "sd"
    /\ ~leaving
    /\ MarkValid
    /\ leaving' = TRUE
    /\ UNCHANGED <<img, whole, bootSlot, rtcNet, running, stage, busy,
                   netSeen, age, job, auto, env>>

(* ota_update_end(true) keeps the lock; the caller, or the microSD task    *)
(* its caller gave up on, notes the reason and restarts.                   *)
Leave(a) ==
    /\ At(a, IF a = "sd" THEN "sdnoted" ELSE "noted")
    /\ ~leaving
    /\ MarkValid
    /\ leaving' = TRUE
    /\ UNCHANGED <<img, whole, bootSlot, rtcNet, running, stage, busy,
                   netSeen, age, job, auto, env>>

-----------------------------------------------------------------------------
(* Outside the firmware.                                                   *)

NetChanges ==
    /\ net' \in Links \ {net}
    /\ UNCHANGED <<flash, nvs, rtcNet, running, stage, busy, trial, job, auto, leaving, card>>

(* The user puts a firmware on the card, or takes it off.  One that is     *)
(* newer than no other is as good as none.                                 *)
InsertCard(b) ==
    /\ "sd" \in Actors /\ card # b /\ job["sd"] = Idle
    /\ b # NoBuild => \E older \in Builds : older < b
    /\ card' = b
    /\ UNCHANGED <<flash, nvs, rtcNet, running, stage, busy, trial, job, auto, leaving, net>>

-----------------------------------------------------------------------------
Boot == CheckRollback \/ RecordBad \/ StartConfirm \/ BootGoesOn

Tick == TickConfirms \/ TickGivesUp \/ TickWaits

Apply(a) ==
    \/ Confirm(a) \/ EspOtaBegin(a) \/ WriteHeader(a) \/ EspOtaEnd(a)
    \/ SetBootPartition(a) \/ NoteNet(a) \/ NoteInstalled(a) \/ Fail(a) \/ Leave(a)

Start ==
    \/ \E b \in Builds : HttpdStart(b) \/ OnlineStart(b) \/ AutoFound(b)
    \/ SdStart \/ SdRefuse \/ AutoApply

Next ==
    \/ Boot \/ Tick \/ TimePasses \/ UserRestart
    \/ Start
    \/ \E a \in Actors : Apply(a)
    \/ SdNoteVersion
    \/ Crash \/ PowerLoss \/ SoftRestart
    \/ NetChanges \/ \E b \in Maybe(Builds) : InsertCard(b)

Spec == Init /\ [][Next]_vars

(* The scheduler runs every ready task: boot goes on, the monitor ticks,   *)
(* time passes, an installation that is over restarts the board.           *)
Fairness ==
    /\ WF_vars(Boot) /\ WF_vars(Tick) /\ WF_vars(TimePasses)
    /\ \A a \in Actors : WF_vars(NoteNet(a)) /\ WF_vars(NoteInstalled(a)) /\ WF_vars(Leave(a))
    /\ WF_vars(SdNoteVersion) /\ WF_vars(SoftRestart)

FairSpec == Spec /\ Fairness

-----------------------------------------------------------------------------
(* Properties.                                                             *)

(* Whatever instant a reset or a power loss comes, there is a complete     *)
(* firmware to start: the slot otadata selects is whole, and while that    *)
(* slot is new or on trial the other one is whole and was not annulled     *)
(* (ota_update.h: "nessun rischio di avviare un'immagine incompleta").     *)
AlwaysBootable ==
    /\ whole[bootSlot] /\ whole[running]
    /\ st[bootSlot] \in {"NEW", "PENDING"}
         => /\ whole[Other(bootSlot)]
            /\ st[Other(bootSlot)] \in {"UNDEFINED", "VALID"}

(* Two tasks never write the same slot, and once an image is set for the   *)
(* next boot no other installation can begin and erase it.                 *)
OneUpdater ==
    /\ \A a, b \in Actors : job[a] # Idle /\ job[b] # Idle => a = b
    /\ (bootSlot # running \/ \E a \in Actors : job[a] # Idle) => busy

(* Why those two hold at every step, in four parts.                        *)
Installed == {"bootset", "netnoted", "noted", "sdnoted"}
Settled   == {"UNDEFINED", "VALID"}

(* The lock has one holder, and whoever holds it installs a build.         *)
LockInv ==
    /\ \A a, b \in Actors : job[a].pc # "idle" /\ job[b].pc # "idle" => a = b
    /\ \A a \in Actors : IF job[a].pc = "idle" THEN job[a] = Idle
                         ELSE busy /\ job[a].build \in Builds

(* The running slot is whole and settled or on trial; the boot slot is     *)
(* another only when an installation has got that far.                     *)
SlotInv ==
    /\ \A s \in Slots : whole[s] => img[s] \in Builds
    /\ whole[running]
    /\ st[running] \in Settled \union {"PENDING"}
    /\ bootSlot = running => st[Target] \in Settled \union {"ABORTED"}
    /\ bootSlot # running => \E a \in Actors : job[a].pc \in Installed

(* During a trial nothing touches the slot to go back to.                  *)
TrialInv ==
    st[running] = "PENDING" =>
        /\ bootSlot = running /\ whole[Target] /\ st[Target] \in Settled
        /\ \A a \in Actors : job[a].pc \in {"idle", "locked"}

(* What an installation has written is there, and is set for the next boot *)
(* when it says so.                                                        *)
JobInv ==
    \A a \in Actors :
        /\ job[a].pc \in {"header", "verified"} \union Installed
             => img[Target] = job[a].build
        /\ job[a].pc \in {"verified"} \union Installed => whole[Target]
        /\ job[a].pc \in Installed => bootSlot = Target /\ st[Target] = "NEW"

(* The inductive invariant of the update: whoever switched the boot slot,  *)
(* to a whole NEW image, still holds the lock (ota_update_end keeps it).   *)
UpdateInv == LockInv /\ SlotInv /\ TrialInv /\ JobInv

(* What an observer sees of the update.                                    *)
OnTrial == st[running] = "PENDING"

Device == INSTANCE FirmwareTrial WITH
             current  <- img[running],
             next     <- IF bootSlot = running THEN NoBuild ELSE img[bootSlot],
             onTrial  <- OnTrial,
             fallback <- IF OnTrial THEN img[Other(running)] ELSE NoBuild

(* The firmware changes only by booting a complete installed image, on     *)
(* trial, or by going back to the one that ran before it.                  *)
ImplementsTrial == Device!Spec

(* An installed image is booted: it never waits, set for the next boot,    *)
(* for some later restart (sd_update.c: "partirebbe a sorpresa").          *)
InstalledBoots == bootSlot # running ~> bootSlot = running

(* ... and its trial ends: confirmed, or annulled by a reset, within the   *)
(* hour (ota_update_confirm_tick).                                         *)
TrialEnds == (OnTrial ~> ~OnTrial) /\ InstalledBoots

=============================================================================
