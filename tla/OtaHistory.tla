------------------------------ MODULE OtaHistory ------------------------------
(***************************************************************************)
(* OtaUpdate with history: which images the bootloader annulled, which     *)
(* were left half written, which rollback a reset kept from being          *)
(* recorded, and whether the network was up when the image on trial was    *)
(* installed.  The history only observes.                                  *)
(***************************************************************************)
EXTENDS OtaUpdate

VARIABLES
    annulled,    \* builds the bootloader went back from
    last,        \* the last of them, and its slot
    torn,        \* builds written in part, or wholly but never set for the next boot
    unrecorded,  \* the rollback noted as seen when a reset kept its version from NVS
    netAtNote    \* net_any_up when note_installed last read it, since the last boot-slot change

history == <<annulled, last, torn, unrecorded, netAtNote>>
hvars   == <<vars, history>>

HInit == Init /\ annulled = {} /\ last = NoKey /\ torn = {}
         /\ unrecorded = NoKey /\ netAtNote = FALSE

Rollback == st[bootSlot] = "PENDING" /\ st'[bootSlot] = "ABORTED"
Tears(a) == job[a].pc \in {"header", "verified"} /\ job'[a] = Idle

Observe ==
    /\ annulled' = annulled \union (IF Rollback THEN {img[bootSlot]} ELSE {})
    /\ last' = IF Rollback THEN <<bootSlot, img[bootSlot]>> ELSE last
    /\ torn' = torn \union {job[a].build : a \in {x \in Actors : Tears(x)}}
    /\ unrecorded' = IF stage = "record" /\ stage' = "check" THEN nvs.seen
                     ELSE IF RecordBad THEN NoKey
                     ELSE unrecorded
    /\ netAtNote' = IF \E a \in Actors : NoteNet(a) THEN net
                    ELSE netAtNote /\ bootSlot' = bootSlot

HNext == Next /\ Observe

HSpec == HInit /\ [][HNext]_hvars
HFairSpec == HSpec /\ Fairness

-----------------------------------------------------------------------------
(* The version the automatic update refuses was really annulled, or its    *)
(* writing was cut short (ota_update.c).                                   *)
RejectedHasReason == nvs.bad # NoBuild => nvs.bad \in annulled \union torn

(* ... and once the boot has checked, the image the bootloader annulled    *)
(* last is the one it refuses, unless a reset fell between the two writes  *)
(* of ota_update_check_rollback ("seen", then "bad").  Where an update was *)
(* torn, the slot may read as another image than the one that ran.         *)
RollbackRemembered ==
    LET s == last[1]  b == last[2]
    IN  /\ RejectedHasReason
        /\ b \in Numbered /\ stage \notin {"check", "record"}
           /\ torn = {} /\ last # unrecorded
           /\ st[s] = "ABORTED" /\ img[s] = b
           => nvs.bad = b

(* The automatic update never installs again, on its own, the image the    *)
(* last rollback annulled (the endless download of 22/10/2026), with the   *)
(* same two exceptions: a reset between the two writes, a torn update.     *)
AutoSkipsAnnulled ==
    [][/\ auto = NoBuild /\ auto' # NoBuild
       /\ torn = {} /\ last # unrecorded
       => auto' # last[2]]_hvars

(* The same without the first exception, as the comment over               *)
(* ota_update_note_trying says it: false, for the order of the two writes. *)
AutoSkipsAlways ==
    [][auto = NoBuild /\ auto' # NoBuild /\ torn = {} => auto' # last[2]]_hvars

(* An image installed while the network was up is never confirmed by the   *)
(* passing of time alone without having seen the network.                  *)
ConfirmedOnline ==
    [][pending /\ ~pending' /\ st'[running] = "VALID" /\ netAtNote
       => netSeen' \/ leaving' \/ \E a \in Actors : At(a, "locked")]_hvars

(* A trial ends in favour of the image because it lasted, because somebody *)
(* used the panel to restart or install, not because a card was inserted.  *)
TrialConfirmedByUse ==
    [][OnTrial /\ st'[running] = "VALID" /\ age = 0 /\ running' = running
       => leaving' \/ \E a \in Actors \ {"sd"} : At(a, "locked")]_hvars
=============================================================================
