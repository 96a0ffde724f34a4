------------------------------ MODULE FwArchive ------------------------------
(***************************************************************************)
(* The archive of firmware versions on the microSD (main/fw_archive.c) and *)
(* the tasks that use it: the copy made after each boot, the one made      *)
(* before each update (panel, card, online), and the restore by hand.      *)
(*                                                                         *)
(* A copy goes by segments into a temporary file, and leaves the card      *)
(* between two of them so that the GNSS receiver, whose I2C lines the card *)
(* disturbs, is heard; the lock of SdMutex is free meanwhile.  The copy    *)
(* made inside a task that has mounted the card already (the restore, the  *)
(* card update) borrows that mount and keeps it.                           *)
(*                                                                         *)
(* The firmware itself is FirmwareTrial, which OtaUpdate implements.  A    *)
(* file is the sequence of the segments written to it, so that its size    *)
(* and its content can differ.  The logs and the configuration copy hold   *)
(* the lock from their mount to their unmount and leave no trace here.     *)
(***************************************************************************)
EXTENDS SdMutex, Sequences, FiniteSets

CONSTANTS
    Builds,     \* firmware images, ordered by their version
    Segments,   \* stretches of 128 KB in an image
    Requests,   \* what is asked of the device: see RequestNames
    CardEvents  \* what happens to the card: see CardEventNames

RequestNames   == {"boot", "upload", "online", "restore", "check"}
CardEventNames == {"out", "in", "other", "format"}

ASSUME BuildsAssumption   == Builds \subseteq Nat \ {0} /\ Builds # {}
ASSUME SegmentsAssumption == Segments \in Nat \ {0}
ASSUME RequestsAssumption == Requests \subseteq RequestNames
ASSUME EventsAssumption   == CardEvents \subseteq CardEventNames
ASSUME TasksAssumption    == Tasks = {"boot", "httpd", "sd", "online", "gnss"}

NoBuild      == 0
KeepVersions == 2            \* KEEP_VERSIONS
Tmp          == 0            \* v<current>.tmp; no version has number 0
NoFile       == <<0>>        \* no segment has number 0
Whole        == [i \in 1 .. Segments |-> i]

VARIABLES
    \* FirmwareTrial.
    current, next, onTrial, fallback,
    \* The card: file[v] is v<v>.bin.
    file,
    \* RAM.
    busy,        \* s_busy of ota_update.c
    borrow,      \* s_borrow_depth
    archMounted, \* s_sd_mounted: the archive itself has mounted the card
    copyBusy,    \* s_copy_busy
    job,         \* what each task is doing
    \* Only observes: files whose copy the user has cut by changing the card.
    spoiled

device == <<current, next, onTrial, fallback>>
vars   == <<device, sdVars, file, busy, borrow, archMounted, copyBusy, job,
            spoiled>>

Device == INSTANCE FirmwareTrial

(* The request a task is serving.  "mount" to "prune" are the steps of     *)
(* fw_archive_save_current, "gap" the pause between two segments.          *)
Steps == {"idle", "open", "mount", "begin", "copy", "gap", "swap", "rename",
          "prune", "confirm", "write", "close", "leave", "done", "bus"}
Idle  == [op |-> "none", pc |-> "idle", build |-> NoBuild, off |-> 0]

Contents == {NoFile} \union UNION {[1 .. n -> 1 .. Segments] : n \in 0 .. Segments}

(* The files hold whole segments in some order, and the nesting of mounts  *)
(* is never deeper than one: a save never runs inside a save.              *)
TypeOK ==
    /\ current \in Builds
    /\ {next, fallback} \subseteq Builds \union {NoBuild}
    /\ onTrial \in BOOLEAN
    /\ SdTypes /\ lock.depth <= 2
    /\ file \in [Builds \union {Tmp} -> Contents]
    /\ {busy, archMounted, copyBusy} \subseteq BOOLEAN
    /\ borrow \in 0 .. 1
    /\ job \in [Tasks -> [op : RequestNames \union {"none", "poll"}, pc : Steps,
                          build : Builds \union {NoBuild}, off : 0 .. Segments]]
    /\ spoiled \subseteq Builds \union {Tmp}

Empty == [v \in Builds \union {Tmp} |-> NoFile]

Init ==
    /\ Device!Init
    /\ SdInit
    /\ file = Empty
    /\ busy = FALSE /\ borrow = 0 /\ archMounted = FALSE /\ copyBusy = FALSE
    /\ job = [t \in Tasks |-> Idle]
    /\ spoiled = {}

-----------------------------------------------------------------------------
(* mount_sd and unmount_sd of fw_archive.c.                                *)

MountSd(t) ==
    /\ Takable(t)
    /\ lock' = Taken(t)
    /\ \/ /\ MountedByMe(t)
          /\ borrow' = borrow + 1
          /\ UNCHANGED <<note, mount, archMounted>>
       \/ /\ ~MountedByMe(t) /\ CanMount
          /\ note' = t /\ mount' = t /\ archMounted' = TRUE
          /\ UNCHANGED borrow
    /\ UNCHANGED card

(* Mutant: a borrowed mount is given back without counting it.             *)
UnmountSdUncounted ==
    /\ IF borrow > 0
       THEN lock' = Given /\ UNCHANGED <<note, mount, archMounted>>
       ELSE /\ note' = NoTask /\ mount' = NoTask /\ archMounted' = FALSE
            /\ lock' = Given
    /\ UNCHANGED <<card, borrow>>

UnmountSd ==
    /\ IF borrow > 0
       THEN /\ borrow' = borrow - 1 /\ lock' = Given
            /\ UNCHANGED <<note, mount, archMounted>>
       ELSE IF archMounted
       THEN /\ note' = NoTask /\ mount' = NoTask /\ archMounted' = FALSE
            /\ lock' = Given
            /\ UNCHANGED borrow
       ELSE UNCHANGED <<note, mount, lock, borrow, archMounted>>
    /\ UNCHANGED card

UnchangedSd == UNCHANGED <<sdVars, borrow, archMounted>>

At(t, pc)  == job[t].pc = pc
Goto(t, p) == job' = [job EXCEPT ![t].pc = p]
Over(t)    == job' = [job EXCEPT ![t] = Idle]

(* The save returns to what called it, whatever came of it.                *)
SaveReturns(t) ==
    job' = [job EXCEPT ![t].pc = IF t = "boot" THEN "done" ELSE "confirm",
                       ![t].off = 0]

Removed(f) == IF card THEN [file EXCEPT ![f] = NoFile] ELSE file

-----------------------------------------------------------------------------
(* fw_archive_save_current.                                                *)

SaveMount(t) ==
    /\ At(t, "mount")
    /\ MountSd(t)
    /\ Goto(t, "begin")
    /\ UNCHANGED <<device, file, busy, copyBusy, spoiled>>

(* Mutant: the flag of the copy stays up when the card is gone.            *)
SaveMountFailsBusy(t) ==
    /\ job[t].pc \in {"mount", "gap"}
    /\ Takable(t) /\ ~MountedByMe(t)
    /\ SaveReturns(t)
    /\ UnchangedSd
    /\ UNCHANGED <<device, file, busy, copyBusy, spoiled>>

(* No card, or one that does not answer: the archive is not worth waiting. *)
SaveMountFails(t) ==
    /\ job[t].pc \in {"mount", "gap"}
    /\ Takable(t) /\ ~MountedByMe(t)
    /\ copyBusy' = (copyBusy /\ At(t, "mount"))
    /\ SaveReturns(t)
    /\ UnchangedSd
    /\ UNCHANGED <<device, file, busy, spoiled>>

Archived == card /\ file[current] # NoFile /\ Len(file[current]) = Segments

(* Mutant: an early return that does not unmount.                          *)
SaveSkipsLocked(t) ==
    /\ At(t, "begin")
    /\ copyBusy \/ Archived
    /\ SaveReturns(t)
    /\ UnchangedSd
    /\ UNCHANGED <<device, file, busy, copyBusy, spoiled>>

SaveSkips(t) ==
    /\ At(t, "begin")
    /\ copyBusy \/ Archived
    /\ UnmountSd
    /\ SaveReturns(t)
    /\ UNCHANGED <<device, file, busy, copyBusy, spoiled>>

SaveBegins(t) ==
    /\ At(t, "begin")
    /\ ~copyBusy /\ ~Archived
    /\ card
    /\ file' = [file EXCEPT ![Tmp] = << >>]
    /\ copyBusy' = TRUE
    /\ spoiled' = spoiled \ {Tmp}
    /\ Goto(t, "copy")
    /\ UnchangedSd
    /\ UNCHANGED <<device, busy>>

(* Mutant: another early return that does not unmount.                     *)
SaveCannotOpenLocked(t) ==
    /\ At(t, "begin")
    /\ ~copyBusy /\ ~Archived
    /\ SaveReturns(t)
    /\ UnchangedSd
    /\ UNCHANGED <<device, file, busy, copyBusy, spoiled>>

SaveCannotOpen(t) ==
    /\ At(t, "begin")
    /\ ~copyBusy /\ ~Archived
    /\ file' = Removed(Tmp)
    /\ UnmountSd
    /\ SaveReturns(t)
    /\ UNCHANGED <<device, busy, copyBusy, spoiled>>

(* Mutant: the pause gives the lock and leaves the card mounted.           *)
SegmentStaysMounted(t) ==
    LET n == job[t].off + 1 IN
    /\ At(t, "copy") /\ card
    /\ file' = [file EXCEPT ![Tmp] = Append(@, n)]
    /\ copyBusy' = (n < Segments)
    /\ lock' = IF n < Segments /\ borrow = 0 THEN Given ELSE lock
    /\ job' = [job EXCEPT ![t].off = n,
                          ![t].pc = IF n = Segments THEN "swap"
                                    ELSE IF borrow = 0 THEN "gap" ELSE "copy"]
    /\ UNCHANGED <<device, note, mount, card, busy, borrow, archMounted, spoiled>>

(* One segment.  After the last one the card stays mounted; after another  *)
(* one it is left to the receiver, unless somebody else has mounted it.    *)
Segment(t) ==
    LET n == job[t].off + 1 IN
    /\ At(t, "copy") /\ card
    /\ file' = [file EXCEPT ![Tmp] = Append(@, n)]
    /\ copyBusy' = (n < Segments)
    /\ IF n < Segments /\ borrow = 0 THEN UnmountSd ELSE UnchangedSd
    /\ job' = [job EXCEPT ![t].off = n,
                          ![t].pc = IF n = Segments THEN "swap"
                                    ELSE IF borrow = 0 THEN "gap" ELSE "copy"]
    /\ UNCHANGED <<device, busy, spoiled>>

(* fopen(tmp, "ab") makes the file again if it is not there any more.      *)
SaveResumes(t) ==
    /\ At(t, "gap")
    /\ MountSd(t)
    /\ file' = [file EXCEPT ![Tmp] = IF @ = NoFile THEN << >> ELSE @]
    /\ Goto(t, "copy")
    /\ UNCHANGED <<device, busy, copyBusy, spoiled>>

(* Mutant: a write that fails is not noticed.                              *)
SegmentFailsUnseen(t) ==
    /\ At(t, "copy")
    /\ copyBusy' = FALSE
    /\ Goto(t, "swap")
    /\ UnchangedSd
    /\ UNCHANGED <<device, file, busy, spoiled>>

SegmentFails(t) ==
    /\ At(t, "copy")
    /\ file' = Removed(Tmp)
    /\ copyBusy' = FALSE
    /\ UnmountSd
    /\ SaveReturns(t)
    /\ UNCHANGED <<device, busy, spoiled>>

(* unlink(path): an incomplete copy made by an earlier version.            *)
SaveSwaps(t) ==
    /\ At(t, "swap")
    /\ file' = Removed(current)
    /\ Goto(t, "rename")
    /\ UnchangedSd
    /\ UNCHANGED <<device, busy, copyBusy, spoiled>>

SaveRenames(t) ==
    /\ At(t, "rename") /\ card
    /\ file' = [file EXCEPT ![current] = file[Tmp], ![Tmp] = NoFile]
    /\ spoiled' = IF Tmp \in spoiled THEN (spoiled \union {current}) \ {Tmp}
                                     ELSE spoiled \ {current}
    /\ Goto(t, "prune")
    /\ UnchangedSd
    /\ UNCHANGED <<device, busy, copyBusy>>

SaveCannotRename(t) ==
    /\ At(t, "rename")
    /\ file' = Removed(Tmp)
    /\ UnmountSd
    /\ SaveReturns(t)
    /\ UNCHANGED <<device, busy, copyBusy, spoiled>>

Listed(v) == file[v] # NoFile
Newer(v)  == {w \in Builds : Listed(w) /\ w > v}
(* Mutant: the oldest ones are kept.                                       *)
KeptOldest(v) == Cardinality({w \in Builds : Listed(w) /\ w < v}) < KeepVersions

Kept(v)   == Cardinality(Newer(v)) < KeepVersions

(* Only the newest KEEP_VERSIONS stay.                                     *)
SavePrunes(t) ==
    /\ At(t, "prune")
    /\ file' = IF card
               THEN [f \in DOMAIN file |->
                       IF f # Tmp /\ ~Kept(f) THEN NoFile ELSE file[f]]
               ELSE file
    /\ UnmountSd
    /\ SaveReturns(t)
    /\ UNCHANGED <<device, busy, copyBusy, spoiled>>

Save(t) ==
    \/ SaveMount(t)
    \/ SaveMountFails(t)
    \/ SaveSkips(t)
    \/ SaveBegins(t)
    \/ SaveCannotOpen(t)
    \/ Segment(t)
    \/ SaveResumes(t)
    \/ SegmentFails(t)
    \/ SaveSwaps(t)
    \/ SaveRenames(t)
    \/ SaveCannotRename(t)
    \/ SavePrunes(t)

-----------------------------------------------------------------------------
(* What saves: the task of the boot, the updates, the restore.             *)

(* fw_archive_boot waits until the version that runs is confirmed.         *)
BootSave ==
    /\ "boot" \in Requests
    /\ At("boot", "idle") /\ ~onTrial
    /\ job' = [job EXCEPT !["boot"] = [Idle EXCEPT !.op = "boot", !.pc = "mount"]]
    /\ UNCHANGED <<device, sdVars, file, busy, borrow, archMounted, copyBusy, spoiled>>

(* ota_update_try_begin by the upload of the panel or the online update.   *)
UpdateBegins(t, op) ==
    /\ op \in Requests
    /\ At(t, "idle") /\ ~busy
    /\ busy' = TRUE
    /\ job' = [job EXCEPT ![t] = [Idle EXCEPT !.op = op, !.pc = "mount"]]
    /\ UNCHANGED <<device, sdVars, file, borrow, archMounted, copyBusy, spoiled>>

(* fw_archive_apply: the name need not be in the archive any more.         *)
RestoreBegins(v) ==
    /\ "restore" \in Requests
    /\ At("httpd", "idle") /\ ~busy
    /\ MountSd("httpd")
    /\ job' = [job EXCEPT !["httpd"] = [op |-> "restore", pc |-> "open",
                                        build |-> v, off |-> 0]]
    /\ UNCHANGED <<device, file, busy, copyBusy, spoiled>>

(* sd_update_check_and_apply_impl mounts by itself and notes it.           *)
CheckBegins ==
    /\ "check" \in Requests
    /\ At("sd", "idle")
    /\ Takable("sd") /\ CanMount
    /\ lock' = Taken("sd") /\ mount' = "sd" /\ note' = "sd"
    /\ job' = [job EXCEPT !["sd"] = [Idle EXCEPT !.op = "check", !.pc = "open"]]
    /\ UNCHANGED <<device, card, file, busy, borrow, archMounted, copyBusy, spoiled>>

(* The mount these two hold themselves.                                    *)
CloseSd(t) ==
    CASE job[t].op = "restore" -> UnmountSd
      [] job[t].op = "check"   ->
            /\ note' = NoTask /\ mount' = NoTask /\ lock' = Given
            /\ UNCHANGED <<card, borrow, archMounted>>
      [] OTHER                 -> UnchangedSd

(* The file is open, and no other update is in progress.                   *)
OpenImage(t) ==
    /\ At(t, "open")
    /\ card /\ ~busy
    /\ job[t].op = "restore" => Listed(job[t].build)
    /\ busy' = TRUE
    /\ Goto(t, "mount")
    /\ UnchangedSd
    /\ UNCHANGED <<device, file, copyBusy, spoiled>>

NoImage(t) ==
    /\ At(t, "open")
    /\ CloseSd(t)
    /\ Over(t)
    /\ UNCHANGED <<device, file, busy, copyBusy, spoiled>>

(* ota_update_mark_valid: the version that runs is confirmed, because it   *)
(* is about to install another.                                            *)
MarkValid(t) ==
    /\ At(t, "confirm")
    /\ IF onTrial THEN Device!Confirm ELSE UNCHANGED device
    /\ Goto(t, "write")
    /\ UNCHANGED <<sdVars, file, busy, borrow, archMounted, copyBusy, spoiled>>

(* online_update_apply: the server is not reached.                         *)
NoServer ==
    /\ At("online", "confirm")
    /\ busy' = FALSE
    /\ Over("online")
    /\ UNCHANGED <<device, sdVars, file, borrow, archMounted, copyBusy, spoiled>>

(* What the image that is written can be: the file of the archive, a newer *)
(* firmware.bin, any image from the panel or the server.                   *)
Offered(t) ==
    CASE job[t].op = "restore" ->
            {v \in {job[t].build} : card /\ file[v] = Whole}
      [] job[t].op = "check"   -> {v \in Builds : card /\ v > current}
      [] OTHER                 -> Builds

WriteImage(t) ==
    /\ At(t, "write")
    /\ \E v \in Offered(t) : Device!Install(v)
    /\ Goto(t, "close")
    /\ UNCHANGED <<sdVars, file, busy, borrow, archMounted, copyBusy, spoiled>>

WriteFails(t) ==
    /\ At(t, "write")
    /\ busy' = FALSE
    /\ CloseSd(t)
    /\ Over(t)
    /\ UNCHANGED <<device, file, copyBusy, spoiled>>

CloseImage(t) ==
    /\ At(t, "close")
    /\ CloseSd(t)
    /\ Goto(t, "leave")
    /\ UNCHANGED <<device, file, busy, copyBusy, spoiled>>

(* ota_update_confirm_tick.                                                *)
MonitorConfirms ==
    /\ Device!Confirm
    /\ UNCHANGED <<sdVars, file, busy, borrow, archMounted, copyBusy, job, spoiled>>

(* A restart loses the RAM.  The temporary file of another version is not  *)
(* looked at again: its own one removes it first.                          *)
Reset ==
    /\ IF onTrial THEN Device!Annul
       ELSE IF next # NoBuild THEN Device!Restart
       ELSE UNCHANGED device
    /\ lock' = Free /\ note' = NoTask /\ mount' = NoTask
    /\ busy' = FALSE /\ borrow' = 0 /\ archMounted' = FALSE /\ copyBusy' = FALSE
    /\ job' = [t \in Tasks |-> Idle]
    /\ file' = [file EXCEPT ![Tmp] = IF current' = current THEN @ ELSE NoFile]
    /\ spoiled' = spoiled \ {Tmp}
    /\ UNCHANGED card

PowerLoss == Reset
Leave(t)  == At(t, "leave") /\ Reset

-----------------------------------------------------------------------------
(* The receiver on I2C, and the user's hands.                              *)

(* sd_mutex_try_take(0): one poll of the receiver, with the card unused.   *)
GnssPolls ==
    /\ At("gnss", "idle")
    /\ Takable("gnss")
    /\ lock' = Taken("gnss")
    /\ job' = [job EXCEPT !["gnss"] = [Idle EXCEPT !.op = "poll", !.pc = "bus"]]
    /\ UNCHANGED <<device, note, mount, card, file, busy, borrow, archMounted,
                   copyBusy, spoiled>>

GnssGives ==
    /\ At("gnss", "bus")
    /\ lock' = Given
    /\ Over("gnss")
    /\ UNCHANGED <<device, note, mount, card, file, busy, borrow, archMounted,
                   copyBusy, spoiled>>

(* A card put back while the device believes it mounted does not answer    *)
(* until the next mount.  sd_format_card holds the lock throughout.        *)
CardEvent(e) ==
    /\ CASE e = "out"    -> card
         [] e = "format" -> card /\ lock = Free /\ mount = NoTask
         [] OTHER        -> ~card /\ mount = NoTask
    /\ card' = (e # "out")
    /\ file' = IF e \in {"other", "format"} THEN Empty ELSE file
    /\ spoiled' = IF e \in {"out", "in"} THEN spoiled
                  ELSE IF copyBusy THEN {Tmp} ELSE {}
    /\ UNCHANGED <<device, lock, note, mount, busy, borrow, archMounted,
                   copyBusy, job>>

UserTouchesCard == \E e \in CardEvents : CardEvent(e)

-----------------------------------------------------------------------------
Install(t) ==
    \/ OpenImage(t)
    \/ NoImage(t)
    \/ MarkValid(t)
    \/ WriteImage(t)
    \/ WriteFails(t)
    \/ CloseImage(t)
    \/ Leave(t)

Request ==
    \/ BootSave
    \/ UpdateBegins("httpd", "upload")
    \/ UpdateBegins("online", "online")
    \/ \E v \in Builds : RestoreBegins(v)
    \/ CheckBegins

Next ==
    \/ Request
    \/ \E t \in Tasks : Save(t) \/ Install(t)
    \/ NoServer
    \/ MonitorConfirms
    \/ PowerLoss
    \/ GnssPolls
    \/ GnssGives
    \/ UserTouchesCard

(* A task that holds the lock goes on; the receiver polls every few        *)
(* milliseconds, so it finds one of the moments in which the lock is free. *)
Fairness ==
    /\ \A t \in Tasks \ {"gnss"} : WF_vars(Save(t) \/ Install(t))
    /\ WF_vars(GnssGives) /\ SF_vars(GnssPolls)

Spec     == Init /\ [][Next]_vars
FairSpec == Spec /\ Fairness

-----------------------------------------------------------------------------
(* Properties.                                                             *)

(* How often a task has taken the lock, from what it is doing.             *)
Holds(t) ==
    (IF job[t].op \in {"restore", "check"} /\ ~At(t, "leave") THEN 1 ELSE 0)
  + (IF job[t].pc \in {"begin", "copy", "swap", "rename", "prune", "bus"}
     THEN 1 ELSE 0)

(* Every path out of the archive gives the lock as often as it took it,    *)
(* nested or not: no task ends with it, none works on the card without it. *)
LockBalanced ==
    \A t \in Tasks : (IF lock.owner = t THEN lock.depth ELSE 0) = Holds(t)

(* The receiver is never spoken to on I2C while a card is mounted          *)
(* (main/gnss_io.c).                                                       *)
GnssApart == At("gnss", "bus") => mount = NoTask

(* Two tasks never write the same temporary file by turns, and the flag    *)
(* that keeps them apart is down when nobody copies.                       *)
OneCopy ==
    Cardinality({t \in Tasks : job[t].pc \in {"copy", "gap"}})
        = (IF copyBusy THEN 1 ELSE 0)

(* The card and its lock, shared by five tasks: all of the above.          *)
CardShared == TypeOK /\ LockBalanced /\ GnssApart /\ OneCopy

(* A file of the archive is complete, wherever power, card or write failed *)
(* - unless the card was formatted or exchanged during that very copy.     *)
ListedWhole ==
    \A v \in Builds : Listed(v) => file[v] = Whole \/ v \in spoiled

(* Nothing but the user takes a complete version out of the archive while  *)
(* there are not KEEP_VERSIONS newer ones.                                 *)
KeepsNewest ==
    [][\A v \in Builds :
         file[v] = Whole /\ file'[v] # Whole =>
            \/ Cardinality(Newer(v)) >= KeepVersions
            \/ file' = Empty]_vars

(* The receiver is heard again and again: no path of an archive copy or of *)
(* an update keeps the lock.                                               *)
GnssHeard == []<>At("gnss", "bus")

=============================================================================
