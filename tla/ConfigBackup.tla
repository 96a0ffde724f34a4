---------------------------- MODULE ConfigBackup ----------------------------
(***************************************************************************)
(* The configuration of the receiver and its copies on the microSD         *)
(* (main/config_backup.c, with the saves of main/settings.c that trigger   *)
(* them and the factory reset of main/reset_button.c).                     *)
(*                                                                         *)
(* settings.bin is rewritten after every save and restored at boot when    *)
(* NVS has no configuration.  settings_good.bin is written after two hours *)
(* without changes and restored after three boots in a row that end in a   *)
(* fault.  Both are written to a temporary file which then takes the name; *)
(* every file operation is an action, so that a crash, a power loss or the *)
(* removal of the card falls between any two.                              *)
(*                                                                         *)
(* A configuration is opaque.  A copy carries the chip that wrote it       *)
(* ("mine") in its trailer; a copy that was cut has lost the trailer.      *)
(***************************************************************************)
EXTENDS Naturals

CONSTANTS
    Configs,        \* configurations a user can save or import
    Bad,            \* those that make the receiver fault within ten minutes
    Requests,       \* what is asked for: "save", "import", "reset", "good"
    CardFaults,     \* how the card fails: "out" when it is to be mounted,
                    \*   "pulled" while it is, "full", "foreign"
    Resets,         \* how a run ends: "fault", "power", "restart"
    FactorySerial   \* the serial number in the configuration is the chip's MAC

None      == "none"       \* no configuration in NVS: the factory defaults run
Truncated == "truncated"  \* a configuration with its last fields missing
Foreign   == "foreign"    \* the configuration of another receiver

ASSUME ConfigsAssumption ==
    Configs \cap {None, Truncated, Foreign} = {} /\ Bad \subseteq Configs
ASSUME RequestsAssumption == Requests \subseteq {"save", "import", "reset", "good"}
ASSUME CardAssumption ==
    CardFaults \subseteq {"out", "pulled", "full", "foreign"}
ASSUME ResetsAssumption == Resets \subseteq {"fault", "power", "restart"}
ASSUME SerialAssumption == FactorySerial \in BOOLEAN

VARIABLES
    nvs,        \* configuration in NVS
    skip,       \* "cfgbk"/"skip": the last reset was a factory reset
    files,      \* the four files of /sdcard/config
    card,       \* a card is inserted and answers
    faults,     \* s_guard.faults, in RTC memory
    ending,     \* how the last run ended
    stage,      \* progress of app_main
    ram,        \* s_settings
    up,         \* uptime: 0 below 10 min, 1 from there on
    requested,  \* s_requested
    goodDue,    \* s_good_due_us: 0, later than now, or reached
    save,       \* the task that saves or imports the configuration
    reset,      \* reset_button_task
    svc         \* config_backup_service, in the diagnostic-log task

disk == <<files, card>>
vars == <<nvs, skip, disk, faults, ending, stage, ram, up, requested, goodDue,
          save, reset, svc>>

Contents == Configs \union {Truncated, Foreign}
Copies   == {"main", "good"}
Names    == Copies \X {"file", "tmp"}
File     == [is : {"absent", "empty", "cut", "whole"}, cfg : Contents \union {None}]
NoFile   == [is |-> "absent", cfg |-> None]
Empty    == [is |-> "empty", cfg |-> None]
NoSave   == [pc |-> "idle", cfg |-> None]
Service(pc, which, blob) == [pc |-> pc, which |-> which, blob |-> blob]
Resting  == Service("idle", "main", None)

MaxFaults == 3    \* GUARD_MAX_FAULTS

MemoryTypes == {nvs, ram} \subseteq Contents \union {None}

FileTypes == files \in [Names -> File]

FlagTypes ==
    /\ {skip, card, requested} \subseteq BOOLEAN
    /\ faults \in {0, 1, 2} /\ up \in {0, 1}
    /\ ending \in {"fault", "other"}
    /\ stage \in {"missing", "guard", "start", "run"}
    /\ goodDue \in {"written", "waiting", "due"}
    /\ reset \in {"no", "erased", "flagged"}

TaskTypes ==
    /\ save \in [pc : {"idle", "writing", "written", "importing", "leaving"},
                 cfg : Configs \union {None}]
    /\ svc \in [pc : {"idle", "check", "claim", "export", "mount", "open", "write",
                      "unlink", "rename"},
                which : Copies, blob : Contents \union {None}]

(* NVS, RAM and the files hold configurations, the fault count stays below *)
(* its limit and the progress of each task is one the code has.            *)
TypeOK == MemoryTypes /\ FileTypes /\ FlagTypes /\ TaskTypes

Init ==
    /\ nvs = None /\ ram = None /\ skip = FALSE
    /\ files = [n \in Names |-> NoFile]
    /\ card = TRUE
    /\ faults = 0 /\ ending = "other"
    /\ stage = "missing" /\ up = 0
    /\ requested = FALSE /\ goodDue = "waiting"
    /\ save = NoSave /\ reset = "no" /\ svc = Resting

-----------------------------------------------------------------------------
(* Resets.                                                                 *)

NvsLocked == save.pc \in {"writing", "importing"}    \* s_save_mutex

(* A reset in the middle of nvs_set_blob can lose the configuration        *)
(* (settings.c: "la configurazione e' andata persa del tutto").            *)
Survives == IF NvsLocked THEN {nvs, save.cfg, None} ELSE {nvs}

Running == stage \in {"start", "run"}    \* panel, button and log task work

Reset(how) ==
    /\ nvs' \in Survives
    /\ ram' = nvs'                      \* settings_init
    /\ ending' = how
    /\ stage' = "missing" /\ up' = 0
    /\ requested' = FALSE /\ goodDue' = "waiting"
    /\ save' = NoSave /\ reset' = "no" /\ svc' = Resting
    /\ UNCHANGED <<skip, disk, faults>>

(* Fault: panic, watchdog (the boot guard's included) or                   *)
(* sys_stats_restart_with_reason.  Restart: a restart on purpose.          *)
Fault     == "fault" \in Resets /\ Reset("fault")
PowerLoss == "power" \in Resets /\ Reset("other")
Restart   == "restart" \in Resets /\ Running /\ Reset("other")

-----------------------------------------------------------------------------
(* Boot.                                                                   *)

(* read_copy: the file, or the temporary one when the file is missing.     *)
ReadCopy(c) ==
    IF files[<<c, "file">>] # NoFile THEN files[<<c, "file">>] ELSE files[<<c, "tmp">>]

(* copy_is_mine: by the trailer, or, when that is missing, by the factory  *)
(* serial number inside the configuration.                                 *)
IsMine(f) == f.cfg # Foreign /\ (f.is = "whole" \/ FactorySerial)

ImportAnyChip(f) ==
    /\ f.is \in {"whole", "cut"}
    /\ nvs' = IF f.is = "cut" THEN Truncated ELSE f.cfg
    /\ ram' = nvs'

(* settings_import_blob and settings_init, when there is a copy to import. *)
Import(f) ==
    /\ f.is \in {"whole", "cut"} /\ IsMine(f)
    /\ nvs' = IF f.is = "cut" THEN Truncated ELSE f.cfg
    /\ ram' = nvs'

NoImport(f) ==
    /\ f.is \in {"whole", "cut"} => ~IsMine(f)
    /\ UNCHANGED <<nvs, ram>>

(* config_backup_restore_if_missing.                                       *)
RestoreIfMissing ==
    /\ stage = "missing" /\ stage' = "guard"
    /\ \/ nvs # None /\ UNCHANGED <<nvs, ram, skip>>
       \/ nvs = None /\ skip /\ skip' = FALSE /\ UNCHANGED <<nvs, ram>>
       \/ /\ nvs = None /\ ~skip /\ UNCHANGED skip
          /\ \/ ~card /\ UNCHANGED <<nvs, ram>>
             \/ card /\ (Import(ReadCopy("main")) \/ NoImport(ReadCopy("main")))
    /\ UNCHANGED <<disk, faults, ending, up, requested, goodDue, save, svc, reset>>

CrashGuardOffByOne ==
    /\ stage = "guard" /\ stage' = "start"
    /\ \/ ending # "fault" /\ faults' = 0 /\ UNCHANGED <<nvs, ram>>
       \/ /\ ending = "fault" /\ faults < MaxFaults
          /\ faults' = faults + 1
          /\ UNCHANGED <<nvs, ram>>
       \/ /\ ending = "fault" /\ faults = MaxFaults
          /\ faults' = 0
          /\ \/ ~card /\ UNCHANGED <<nvs, ram>>
             \/ card /\ (Import(ReadCopy("good")) \/ NoImport(ReadCopy("good")))
    /\ UNCHANGED <<skip, disk, ending, up, requested, goodDue, save, svc, reset>>

(* config_backup_crash_guard.                                              *)
CrashGuard ==
    /\ stage = "guard" /\ stage' = "start"
    /\ \/ ending # "fault" /\ faults' = 0 /\ UNCHANGED <<nvs, ram>>
       \/ /\ ending = "fault" /\ faults + 1 < MaxFaults
          /\ faults' = faults + 1
          /\ UNCHANGED <<nvs, ram>>
       \/ /\ ending = "fault" /\ faults + 1 = MaxFaults
          /\ faults' = 0
          /\ \/ ~card /\ UNCHANGED <<nvs, ram>>
             \/ card /\ (Import(ReadCopy("good")) \/ NoImport(ReadCopy("good")))
    /\ UNCHANGED <<skip, disk, ending, up, requested, goodDue, save, svc, reset>>

(* config_backup_start: a first copy, also without saves.                  *)
Start ==
    /\ stage = "start" /\ stage' = "run"
    /\ requested' = TRUE
    /\ UNCHANGED <<nvs, skip, disk, faults, ending, ram, up, goodDue, save, svc, reset>>

-----------------------------------------------------------------------------
(* Saves (settings_save, settings_update) and imports from the panel.      *)

SaveBegin(c) ==
    /\ "save" \in Requests /\ Running /\ save = NoSave
    /\ save' = [pc |-> "writing", cfg |-> c]
    /\ ram' = c
    /\ UNCHANGED <<nvs, skip, disk, faults, ending, stage, up, requested, goodDue, reset, svc>>

SaveWrite ==
    /\ save.pc = "writing"
    /\ \/ nvs' = save.cfg /\ save' = [save EXCEPT !.pc = "written"]
       \/ save' = NoSave /\ UNCHANGED nvs            \* NVS refuses the blob
    /\ UNCHANGED <<skip, disk, faults, ending, stage, ram, up, requested, goodDue, reset, svc>>

SaveRequestMainOnly ==
    /\ save.pc = "written" /\ save' = NoSave
    /\ requested' = TRUE
    /\ UNCHANGED <<nvs, skip, disk, faults, ending, stage, ram, up, goodDue, reset, svc>>

(* config_backup_request, once the mutex is free.                          *)
SaveRequest ==
    /\ save.pc = "written" /\ save' = NoSave
    /\ requested' = TRUE
    /\ goodDue' = "waiting"
    /\ UNCHANGED <<nvs, skip, disk, faults, ending, stage, ram, up, reset, svc>>

(* A file uploaded from the panel goes to NVS alone; a restart follows.    *)
ImportBegin(c) ==
    /\ "import" \in Requests /\ Running /\ save = NoSave
    /\ save' = [pc |-> "importing", cfg |-> c]
    /\ UNCHANGED <<nvs, skip, disk, faults, ending, stage, ram, up, requested, goodDue,
                   reset, svc>>

ImportWrite ==
    /\ save.pc = "importing"
    /\ \/ nvs' = save.cfg /\ save' = [save EXCEPT !.pc = "leaving"]
       \/ save' = NoSave /\ UNCHANGED nvs
    /\ UNCHANGED <<skip, disk, faults, ending, stage, ram, up, requested, goodDue, reset, svc>>

(* The button: every namespace is erased, this one's flag included, then   *)
(* the flag is set and the receiver restarts.  Nothing keeps a save out.   *)
FactoryErase ==
    /\ "reset" \in Requests /\ Running /\ reset = "no"
    /\ nvs' = None /\ skip' = FALSE
    /\ reset' = "erased"
    /\ UNCHANGED <<disk, faults, ending, stage, ram, up, requested, goodDue, save, svc>>

FactoryFlag ==
    /\ reset = "erased" /\ reset' = "flagged"
    /\ skip' = TRUE
    /\ UNCHANGED <<nvs, disk, faults, ending, stage, ram, up, requested, goodDue, save, svc>>

(* config_backup_save_good_now.                                            *)
SaveGoodNow ==
    /\ "good" \in Requests /\ Running /\ goodDue # "due"
    /\ goodDue' = "due"
    /\ UNCHANGED <<nvs, skip, disk, faults, ending, stage, ram, up, requested, save, svc, reset>>

-----------------------------------------------------------------------------
(* config_backup_service, every 30 s.                                      *)

ServeRequest ==
    /\ Running /\ svc = Resting
    /\ requested' = FALSE
    /\ svc' = Service(IF requested THEN "export" ELSE "check", "main", None)
    /\ UNCHANGED <<nvs, skip, disk, faults, ending, stage, ram, up, goodDue, save, reset>>

CheckDueAlways ==
    /\ svc.pc = "check"
    /\ faults' = 0
    /\ svc' = IF goodDue = "due" THEN Service("claim", "good", None) ELSE Resting
    /\ UNCHANGED <<nvs, skip, disk, ending, stage, ram, up, requested, goodDue, save, reset>>

(* The fault count of a stable run is cleared; the good copy is due.       *)
CheckDue ==
    /\ svc.pc = "check"
    /\ faults' = IF up = 1 THEN 0 ELSE faults
    /\ svc' = IF goodDue = "due" THEN Service("claim", "good", None) ELSE Resting
    /\ UNCHANGED <<nvs, skip, disk, ending, stage, ram, up, requested, goodDue, save, reset>>

ClaimDue ==
    /\ svc.pc = "claim"
    /\ goodDue' = "written"
    /\ svc' = Service("export", "good", None)
    /\ UNCHANGED <<nvs, skip, disk, faults, ending, stage, ram, up, requested, save, reset>>

Done == svc' = IF svc.which = "main" THEN Service("check", "main", None) ELSE Resting

(* settings_export_blob: waits for s_save_mutex.                           *)
Export ==
    /\ svc.pc = "export" /\ ~NvsLocked
    /\ \/ nvs = None /\ Done
       \/ nvs # None /\ svc' = Service("mount", svc.which, nvs)
    /\ UNCHANGED <<nvs, skip, disk, faults, ending, stage, ram, up, requested, goodDue, save, reset>>

MountGivesUp ==
    /\ svc.pc = "mount"
    /\ \/ card /\ svc' = [svc EXCEPT !.pc = "open"]
       \/ ~card /\ Done
    /\ UNCHANGED <<nvs, skip, disk, faults, ending, stage, ram, up, requested, goodDue, save, reset>>

(* Without a card the request is put back ("rimandata al prossimo giro").  *)
Mount ==
    /\ svc.pc = "mount"
    /\ \/ card /\ svc' = [svc EXCEPT !.pc = "open"] /\ UNCHANGED requested
       \/ ~card /\ Done /\ requested' = TRUE
    /\ UNCHANGED <<nvs, skip, disk, faults, ending, stage, ram, up, goodDue, save, reset>>

(* An operation on a card that is gone fails, and write_file returns.      *)
FileOp(from, op) ==
    /\ svc.pc = from
    /\ \/ card /\ op
       \/ ~card /\ Done /\ UNCHANGED files
    /\ UNCHANGED <<nvs, skip, card, faults, ending, stage, ram, up, requested, goodDue, save, reset>>

OpenTmp ==
    FileOp("open", /\ files' = [files EXCEPT ![<<svc.which, "tmp">>] = Empty]
                   /\ svc' = [svc EXCEPT !.pc = "write"])

WriteInPlace ==
    FileOp("write",
      \/ /\ files' = [files EXCEPT ![<<svc.which, "tmp">>] =
                        [is |-> "whole", cfg |-> svc.blob]]
         /\ svc' = [svc EXCEPT !.pc = "unlink"]
      \/ /\ files' = [files EXCEPT ![<<svc.which, "file">>] =
                        [is |-> "cut", cfg |-> svc.blob]]
         /\ Done)

(* fwrite and fclose; on a full card the file is cut.                      *)
WriteTmp ==
    FileOp("write",
      \/ /\ files' = [files EXCEPT ![<<svc.which, "tmp">>] =
                        [is |-> "whole", cfg |-> svc.blob]]
         /\ svc' = [svc EXCEPT !.pc = "unlink"]
      \/ /\ "full" \in CardFaults
         /\ files' = [files EXCEPT ![<<svc.which, "tmp">>] =
                        [is |-> "cut", cfg |-> svc.blob]]
         /\ Done)

Unlink ==
    FileOp("unlink", /\ files' = [files EXCEPT ![<<svc.which, "file">>] = NoFile]
                     /\ svc' = [svc EXCEPT !.pc = "rename"])

Rename ==
    FileOp("rename",
      /\ files' = [files EXCEPT ![<<svc.which, "file">>] = files[<<svc.which, "tmp">>],
                                ![<<svc.which, "tmp">>] = NoFile]
      /\ Done)

-----------------------------------------------------------------------------
(* Time, and the card.                                                     *)

(* Ten minutes from boot; a bad configuration has faulted before.          *)
TenMinutes ==
    /\ stage = "run" /\ up = 0 /\ ram \notin Bad
    /\ up' = 1
    /\ UNCHANGED <<nvs, skip, disk, faults, ending, stage, ram, requested, goodDue, save, svc, reset>>

(* Two hours from boot or from the last request.                           *)
TwoHours ==
    /\ up = 1 /\ ram \notin Bad /\ goodDue = "waiting"
    /\ goodDue' = "due"
    /\ UNCHANGED <<nvs, skip, disk, faults, ending, stage, ram, up, requested, save, svc, reset>>

Mounted == svc.pc \in {"open", "write", "unlink", "rename"}

(* A card put back answers again only once it is mounted again.            *)
CardComesAndGoes ==
    /\ (IF Mounted THEN "pulled" ELSE "out") \in CardFaults
    /\ card \/ ~Mounted
    /\ card' = ~card
    /\ UNCHANGED <<nvs, skip, files, faults, ending, stage, ram, up, requested, goodDue,
                   save, svc, reset>>

(* The card of another receiver takes the place of this one's.             *)
ForeignCard ==
    /\ "foreign" \in CardFaults /\ ~card
    /\ files' = [n \in Names |-> IF n[2] = "file" THEN [is |-> "whole", cfg |-> Foreign]
                                 ELSE NoFile]
    /\ UNCHANGED <<nvs, skip, card, faults, ending, stage, ram, up, requested, goodDue,
                   save, svc, reset>>

-----------------------------------------------------------------------------
Boot == RestoreIfMissing \/ CrashGuard \/ Start

Serve ==
    \/ ServeRequest \/ CheckDue \/ ClaimDue \/ Export \/ Mount
    \/ OpenTmp \/ WriteTmp \/ Unlink \/ Rename

Save ==
    \/ \E c \in Configs : SaveBegin(c) \/ ImportBegin(c)
    \/ SaveWrite \/ SaveRequest \/ ImportWrite

Next ==
    \/ Boot \/ Serve \/ Save \/ FactoryErase \/ FactoryFlag \/ SaveGoodNow
    \/ Fault \/ PowerLoss \/ Restart
    \/ TenMinutes \/ TwoHours \/ CardComesAndGoes \/ ForeignCard

Spec == Init /\ [][Next]_vars

(* The tasks of the firmware run; a restart that was announced comes.  A   *)
(* bad configuration faults, but it is in use only after the crash guard,  *)
(* which other faults do not keep from being reached for ever.             *)
Fairness ==
    /\ WF_vars(Boot) /\ SF_vars(CrashGuard) /\ WF_vars(Serve)
    /\ WF_vars(SaveWrite \/ SaveRequest \/ ImportWrite) /\ WF_vars(FactoryFlag)
    /\ WF_vars((save.pc = "leaving" \/ reset = "flagged") /\ Restart)
    /\ WF_vars(TenMinutes) /\ WF_vars(TwoHours)
    /\ WF_vars(stage = "run" /\ ram \in Bad /\ Fault)

FairSpec == Spec /\ Fairness

-----------------------------------------------------------------------------
(* Neither the configuration of another receiver, on a card that was in    *)
(* it, nor one with its last fields missing is ever in use, whatever       *)
(* copies a boot finds (copy_is_mine).                                     *)
OnlyOwn == {nvs, ram} \subseteq Configs \union {None}

(* ... because the saving task, the log task and the whole files hold      *)
(* nothing else, but for whole files of another receiver.                  *)
OwnInv ==
    /\ {nvs, ram, save.cfg, svc.blob} \subseteq Configs \union {None}
    /\ \A n \in Names :
         files[n].is = "whole" => files[n].cfg \in Configs \union {None, Foreign}

(* Between the unlink of the old file and the rename of the new one.       *)
Replacing(c) == svc.which = c /\ svc.pc = "rename" /\ card

(* While one file replaces the other, a copy that a boot can read is there *)
(* at every step, so that one interruption leaves a whole one              *)
(* (config_backup.c: "se manca la corrente a meta', la copia precedente    *)
(* resta integra").                                                        *)
CopySurvivesACut ==
    [][\A c \in Copies :
         files[<<c, "file">>].is = "whole" \/ Replacing(c) => ReadCopy(c)'.is = "whole"]_vars

(* ... because the temporary file is whole by then, and alone in the end.  *)
SwapInv ==
    /\ svc.pc \in {"unlink", "rename"} /\ card => files[<<svc.which, "tmp">>].is = "whole"
    /\ svc.pc = "rename" /\ card => files[<<svc.which, "file">>] = NoFile

(* When the receiver keeps running with a card, the copy is the            *)
(* configuration in NVS (config_backup.c: "se fallisce si riprova al giro  *)
(* dopo").                                                                 *)
Steady == card /\ stage = "run" /\ save = NoSave /\ reset = "no"

Copied(which) ==
    nvs # None => files[<<which, "file">>] = [is |-> "whole", cfg |-> nvs]

MainFollows == <>[]Steady => <>[]Copied("main")

(* ... and so, once in a while, is the good copy, when the card never left *)
(* (a good copy that finds no card is not tried again).                    *)
GoodFollows == []card /\ <>[](Steady /\ ram \notin Bad) => []<>Copied("good")

(* Both copies follow the configuration in NVS (config_backup.c).          *)
CopyFollows == MainFollows /\ GoodFollows

(* The crash guard has a good copy of this receiver to go back to.         *)
GoodUsable ==
    /\ card /\ ReadCopy("good").is = "whole"
    /\ ReadCopy("good").cfg \notin Bad \union {Foreign}

(* A configuration that makes the receiver fault over and over gives way   *)
(* to the good one, however saves, the log task and the faults interleave. *)
ChainBroken == <>[]GoodUsable => []<>(ram \notin Bad)
=============================================================================
