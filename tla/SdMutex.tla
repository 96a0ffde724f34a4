------------------------------- MODULE SdMutex -------------------------------
(***************************************************************************)
(* The microSD and the lock around it (main/sd_mutex.c).  The lock is      *)
(* recursive: its owner takes it again without waiting, and it is free     *)
(* when it has been given as often as it was taken.  The note tells the    *)
(* owner's own calls that the card is already mounted, so that they use    *)
(* that mount.                                                             *)
(***************************************************************************)
EXTENDS Naturals

CONSTANTS
    Tasks,   \* the tasks that use the card, or must stay off while it is used
    NoTask

ASSUME NoTaskAssumption == NoTask \notin Tasks

VARIABLES
    lock,    \* s_sd_mutex: owner and how often it has taken it
    note,    \* s_mount_owner
    mount,   \* the task that has initialised the SPI bus and mounted the card
    card     \* a card that answers is in the slot

sdVars == <<lock, note, mount, card>>

Free == [owner |-> NoTask, depth |-> 0]

(* xSemaphoreTakeRecursive goes through.                                   *)
Takable(t) == lock.owner \in {NoTask, t}
Taken(t)   == [owner |-> t, depth |-> lock.depth + 1]
Given      == IF lock.depth <= 1 THEN Free ELSE [lock EXCEPT !.depth = @ - 1]

(* sd_mounted_by_me: asked with the lock taken.                            *)
MountedByMe(t) == note = t

(* spi_bus_initialize and sd_mount_retry: the bus must not be in use.  A   *)
(* card that is there may fail to answer as well.                          *)
CanMount == card /\ mount = NoTask

SdInit ==
    /\ lock = Free
    /\ note = NoTask
    /\ mount = NoTask
    /\ card \in BOOLEAN

SdTypes ==
    /\ lock \in [owner : Tasks \union {NoTask}, depth : Nat]
    /\ {note, mount} \subseteq Tasks \union {NoTask}
    /\ card \in BOOLEAN

=============================================================================
