---------------------------- MODULE ArchiveProofs ----------------------------
(***************************************************************************)
(* Proofs about FwArchive, for every set of versions, any number of        *)
(* segments and every subset of the requests and of what happens to the    *)
(* card: who holds the card and its lock, that a listed version is         *)
(* complete, and that the newest ones are kept.                            *)
(***************************************************************************)
EXTENDS FwArchive, FiniteSetTheorems, SequenceTheorems, TLAPS

USE NoTaskAssumption, BuildsAssumption, SegmentsAssumption, RequestsAssumption,
    EventsAssumption, TasksAssumption

(* The mount a restore or a check holds, the one a save makes or borrows,  *)
(* and the receiver's bus.                                                 *)
Own(t)  == job[t].op \in {"restore", "check"} /\ job[t].pc # "leave"
Deep(t) == job[t].pc \in {"begin", "copy", "swap", "rename", "prune"}
Bus(t)  == job[t].pc = "bus"
Uses(t) == Own(t) \/ Deep(t) \/ Bus(t)

Job == [op : RequestNames \union {"none", "poll"}, pc : Steps,
        build : Builds \union {NoBuild}, off : 0 .. Segments]

(* What a task does when, and how far its copy is.                         *)
JobOk(t, j) ==
    /\ j.op = "restore" => t = "httpd"
    /\ j.op = "check" => t = "sd"
    /\ j.op = "poll" => t = "gnss"
    /\ t = "gnss" => j.pc \in {"idle", "bus"}
    /\ j.pc = "bus" => j.op = "poll"
    /\ j.pc = "idle" => j.op = "none"
    /\ j.pc = "idle" \/ t = "gnss" \/ j.op \in RequestNames
    /\ j.pc = "open" => j.op \in {"restore", "check"}
    /\ j.pc = "gap" => j.op \notin {"restore", "check"}
    /\ j.pc \in {"open", "mount", "begin"} => j.off = 0
    /\ j.pc \in {"copy", "gap"} => j.off < Segments

JobInv == job \in [Tasks -> Job] /\ \A t \in Tasks : JobOk(t, job[t])

(* Nobody has the card ...                                                 *)
Unused == mount = NoTask /\ note = NoTask /\ ~archMounted /\ borrow = 0

(* ... or the owner of the lock has it, twice over in a borrowed mount.    *)
Held(t) ==
    /\ lock = [owner |-> t, depth |-> IF Own(t) /\ Deep(t) THEN 2 ELSE 1]
    /\ Uses(t)
    /\ IF Bus(t) THEN Unused
       ELSE /\ mount = t /\ note = t
            /\ archMounted <=> job[t].op # "check"
            /\ borrow = IF Own(t) /\ Deep(t) THEN 1 ELSE 0

LockInv ==
    /\ archMounted \in BOOLEAN /\ card \in BOOLEAN
    /\ \/ lock = Free /\ Unused /\ \A t \in Tasks : ~Uses(t)
       \/ \E t \in Tasks : Held(t) /\ \A u \in Tasks \ {t} : ~Uses(u)

-----------------------------------------------------------------------------
(* A step of one task leaves the records of the others alone.              *)
LEMMA OthersUntouched ==
  ASSUME JobInv, NEW t \in Tasks, NEW r, job' = [job EXCEPT ![t] = r]
  PROVE  /\ job'[t] = r
         /\ \A u \in Tasks \ {t} : job'[u] = job[u]
BY DEF JobInv

(* The record of the task that moves, for each way an action writes it.    *)
LEMMA Goes ==
  ASSUME JobInv, NEW t \in Tasks, NEW p, Goto(t, p)
  PROVE  /\ job' = [job EXCEPT ![t] = [job[t] EXCEPT !.pc = p]]
         /\ job'[t].op = job[t].op /\ job'[t].pc = p /\ job'[t].off = job[t].off
         /\ \A u \in Tasks \ {t} : job'[u] = job[u]
BY DEF JobInv, Goto, Job

LEMMA Ends ==
  ASSUME JobInv, NEW t \in Tasks, Over(t)
  PROVE  /\ job' = [job EXCEPT ![t] = Idle]
         /\ job'[t] = Idle
         /\ \A u \in Tasks \ {t} : job'[u] = job[u]
BY DEF JobInv, Over

LEMMA Returns ==
  ASSUME JobInv, NEW t \in Tasks, SaveReturns(t)
  PROVE  \E r \in Job :
           /\ job' = [job EXCEPT ![t] = r] /\ job'[t] = r
           /\ r.op = job[t].op /\ r.off = 0
           /\ r.pc = IF t = "boot" THEN "done" ELSE "confirm"
           /\ \A u \in Tasks \ {t} : job'[u] = job[u]
<1> DEFINE p == IF t = "boot" THEN "done" ELSE "confirm"
           r == [job[t] EXCEPT !.pc = p, !.off = 0]
<1>1. job' = [job EXCEPT ![t] = r]
  BY DEF SaveReturns, JobInv, Job
<1>2. job'[t] = r
  BY <1>1 DEF JobInv
<1>3. p \in Steps /\ 0 \in 0 .. Segments /\ job[t] \in Job
  BY DEF Steps, JobInv
<1> HIDE DEF p
<1>4. r \in Job /\ r.op = job[t].op /\ r.pc = p /\ r.off = 0
  BY <1>3 DEF Job
<1> USE DEF p
<1>5. \A u \in Tasks \ {t} : job'[u] = job[u]
  BY <1>1 DEF JobInv
<1> QED
  BY <1>1, <1>2, <1>4, <1>5

(* Mount and unmount, seen from the task that owns the lock.               *)
LEMMA Takes ==
  ASSUME JobInv, LockInv, NEW t \in Tasks, t # "gnss", ~Deep(t), ~Bus(t), MountSd(t)
  PROVE  /\ \A u \in Tasks \ {t} : ~Uses(u)
         /\ note' = t /\ mount' = t /\ card' = card
         /\ IF Own(t)
            THEN /\ lock' = [owner |-> t, depth |-> 2] /\ borrow' = 1
                 /\ archMounted' = archMounted
            ELSE /\ lock' = [owner |-> t, depth |-> 1] /\ borrow' = 0
                 /\ archMounted' = TRUE
         /\ Own(t) => (archMounted <=> job[t].op # "check")
BY DEF JobInv, LockInv, Held, Uses, Unused, MountSd, Takable, Taken, MountedByMe, CanMount,
       Free, Deep, Bus

LEMMA Gives ==
  ASSUME JobInv, LockInv, NEW t \in Tasks, Deep(t), UnmountSd
  PROVE  /\ \A u \in Tasks \ {t} : ~Uses(u)
         /\ card' = card
         /\ IF Own(t)
            THEN /\ lock' = [owner |-> t, depth |-> 1] /\ borrow' = 0
                 /\ note' = t /\ mount' = t /\ archMounted' = archMounted
                 /\ archMounted <=> job[t].op # "check"
            ELSE /\ lock' = Free /\ borrow' = 0 /\ note' = NoTask /\ mount' = NoTask
                 /\ archMounted' = FALSE
<1>1. Held(t) /\ \A u \in Tasks \ {t} : ~Uses(u)
  BY DEF LockInv, Held, Uses, Free
<1>2. ~Bus(t)
  BY DEF Deep, Bus
<1>3. ~Own(t) => job[t].op # "check"
  BY DEF Own, Deep
<1> QED
  BY <1>1, <1>2, <1>3 DEF Held, Unused, UnmountSd, Given, Free

(* ... and from a restore or a check that closes its file.                 *)
LEMMA Closes ==
  ASSUME JobInv, LockInv, NEW t \in Tasks, ~Deep(t), ~Bus(t), CloseSd(t), job[t].pc # "leave"
  PROVE  IF Own(t)
         THEN /\ lock' = Free /\ borrow' = 0 /\ note' = NoTask /\ mount' = NoTask
              /\ archMounted' = FALSE /\ card' = card
              /\ \A u \in Tasks \ {t} : ~Uses(u)
         ELSE UNCHANGED <<lock, note, mount, card, borrow, archMounted>>
<1>1. CASE Own(t)
  <2>1. Held(t) /\ \A u \in Tasks \ {t} : ~Uses(u)
    BY <1>1 DEF LockInv, Held, Uses, Free
  <2>2. CASE job[t].op = "restore"
    BY <1>1, <2>1, <2>2 DEF Held, Unused, CloseSd, UnmountSd, Given, Free
  <2>3. CASE job[t].op = "check"
    BY <1>1, <2>1, <2>3 DEF Held, Unused, CloseSd, Given, Free
  <2> QED
    BY <1>1, <2>2, <2>3 DEF Own
<1>2. CASE ~Own(t)
  BY <1>2 DEF Own, CloseSd, UnchangedSd, sdVars
<1> QED
  BY <1>1, <1>2
LEMMA JobMove ==
  ASSUME JobInv, NEW t \in Tasks, NEW r \in Job, job' = [job EXCEPT ![t] = r], JobOk(t, r)
  PROVE  JobInv'
<1>1. job' \in [Tasks -> Job] /\ job'[t] = r
  BY DEF JobInv
<1>2. \A u \in Tasks : JobOk(u, job'[u])
  BY <1>1, OthersUntouched, Zenon DEF JobInv
<1> QED
  BY <1>1, <1>2, Zenon DEF JobInv, JobOk

(* The steps of a save.                                                    *)
LEMMA SaveJob ==
  ASSUME JobInv, LockInv, NEW t \in Tasks, Save(t)
  PROVE  JobInv'
<1> USE DEF At
<1>0. job[t] \in Job /\ JobOk(t, job[t])
  BY DEF JobInv
<1>1. ASSUME SaveReturns(t), job[t].pc \in {"mount", "gap", "begin", "copy", "rename", "prune"}
      PROVE  JobInv'
  <2>1. PICK r \in Job :
           /\ job' = [job EXCEPT ![t] = r] /\ job'[t] = r
           /\ r.op = job[t].op /\ r.off = 0
           /\ r.pc = IF t = "boot" THEN "done" ELSE "confirm"
    BY <1>1, Returns
  <2>2. JobOk(t, r)
    BY <1>0, <1>1, <2>1 DEF JobOk
  <2> QED
    BY <2>1, <2>2, JobMove
<1>2. ASSUME NEW p \in {"begin", "copy", "rename", "prune"}, Goto(t, p),
             job[t].pc \in {"mount", "begin", "gap", "swap", "rename"},
             p = "begin" => job[t].pc = "mount",
             p = "copy" => job[t].pc \in {"begin", "gap"}
      PROVE  JobInv'
  <2> DEFINE r == [job[t] EXCEPT !.pc = p]
  <2>1. job' = [job EXCEPT ![t] = r]
    BY <1>2 DEF Goto, JobInv
  <2>2. r \in Job /\ r.op = job[t].op /\ r.pc = p /\ r.off = job[t].off
    BY <1>0 DEF Job, Steps
  <2>3. JobOk(t, r)
    BY <1>0, <1>2, <2>2 DEF JobOk
  <2> HIDE DEF r
  <2> QED
    BY <2>1, <2>2, <2>3, JobMove
<1>3. CASE Segment(t)
  <2> DEFINE n == job[t].off + 1
             p == IF n = Segments THEN "swap" ELSE IF borrow = 0 THEN "gap" ELSE "copy"
             r == [job[t] EXCEPT !.off = n, !.pc = p]
  <2>1. job' = [job EXCEPT ![t] = r] /\ job[t].pc = "copy"
    BY <1>3 DEF Segment, JobInv, Job
  <2>0. n \in 0 .. Segments /\ p \in {"swap", "gap", "copy"} /\ (p # "swap" => n < Segments)
    BY <1>0, <2>1 DEF Job, JobOk
  <2>2. r \in Job /\ r.op = job[t].op /\ r.pc = p /\ r.off = n
    <3> HIDE DEF n, p
    <3> QED
      BY <1>0, <2>0 DEF Job, Steps
  <2>3. p = "gap" => job[t].op \notin {"restore", "check"}
    BY <2>1 DEF LockInv, Held, Uses, Own, Deep, Bus, Free
  <2>4. JobOk(t, r)
    BY <1>0, <2>0, <2>1, <2>2, <2>3 DEF JobOk, Job
  <2> HIDE DEF r
  <2> QED
    BY <2>1, <2>2, <2>4, JobMove
<1>4. CASE SaveMountFails(t) \/ SaveSkips(t) \/ SaveCannotOpen(t) \/ SegmentFails(t)
           \/ SaveCannotRename(t) \/ SavePrunes(t)
  BY <1>4, <1>1 DEF SaveMountFails, SaveSkips, SaveCannotOpen, SegmentFails, SaveCannotRename,
                    SavePrunes
<1>5. CASE SaveMount(t)
  BY <1>5, <1>2 DEF SaveMount
<1>6. CASE SaveBegins(t) \/ SaveResumes(t)
  BY <1>6, <1>2 DEF SaveBegins, SaveResumes
<1>7. CASE SaveSwaps(t) \/ SaveRenames(t)
  BY <1>7, <1>2 DEF SaveSwaps, SaveRenames
<1> QED
  BY <1>3, <1>4, <1>5, <1>6, <1>7 DEF Save
(* The steps of what saves, of the receiver and of a reset.                *)
LEMMA InstallJob ==
  ASSUME JobInv, NEW t \in Tasks, Install(t)
  PROVE  JobInv'
<1> USE DEF At
<1>0. job[t] \in Job /\ JobOk(t, job[t])
  BY DEF JobInv
<1>1. ASSUME NEW p \in {"mount", "write", "close", "leave"}, Goto(t, p),
             job[t].pc \in {"open", "confirm", "write", "close"},
             p = "mount" => job[t].pc = "open"
      PROVE  JobInv'
  <2> DEFINE r == [job[t] EXCEPT !.pc = p]
  <2>1. job' = [job EXCEPT ![t] = r]
    BY <1>1 DEF Goto, JobInv
  <2>2. r \in Job /\ r.op = job[t].op /\ r.pc = p /\ r.off = job[t].off
    BY <1>0 DEF Job, Steps
  <2>3. JobOk(t, r)
    BY <1>0, <1>1, <2>2 DEF JobOk
  <2> HIDE DEF r
  <2> QED
    BY <2>1, <2>2, <2>3, JobMove
<1>2. ASSUME Over(t)
      PROVE  JobInv'
  <2>1. Idle \in Job /\ JobOk(t, Idle)
    BY DEF Idle, Job, JobOk, Steps, NoBuild
  <2> QED
    BY <1>2, <2>1, JobMove, Ends
<1>3. CASE Leave(t)
  BY <1>3 DEF Leave, Reset, JobInv, Idle, Job, JobOk, Steps, NoBuild
<1>4. CASE OpenImage(t) \/ MarkValid(t) \/ WriteImage(t) \/ CloseImage(t)
  BY <1>4, <1>1 DEF OpenImage, MarkValid, WriteImage, CloseImage
<1>5. CASE NoImage(t) \/ WriteFails(t)
  BY <1>5, <1>2 DEF NoImage, WriteFails
<1> QED
  BY <1>3, <1>4, <1>5 DEF Install

LEMMA IdleJob == Idle \in Job /\ Idle.off = 0
BY DEF Idle, Job, Steps, NoBuild

(* A segment is written.                                                   *)
LEMMA SegmentJob ==
  ASSUME JobInv, NEW t \in Tasks, Segment(t)
  PROVE  LET n == job[t].off + 1
         IN  /\ job[t].pc = "copy"
             /\ n < Segments => copyBusy' = TRUE
             /\ ~(n < Segments) => copyBusy' = FALSE
             /\ job'[t].op = job[t].op /\ job'[t].off = n
             /\ job'[t].pc = IF n = Segments THEN "swap"
                             ELSE IF borrow = 0 THEN "gap" ELSE "copy"
             /\ \A u \in Tasks \ {t} : job'[u] = job[u]
<1> DEFINE n == job[t].off + 1
           p == IF n = Segments THEN "swap" ELSE IF borrow = 0 THEN "gap" ELSE "copy"
           r == [job[t] EXCEPT !.off = n, !.pc = p]
<1>1. /\ job' = [job EXCEPT ![t] = r] /\ job[t].pc = "copy" /\ copyBusy' = (n < Segments)
  BY DEF Segment, JobInv, Job, At
<1>2. r.op = job[t].op /\ r.off = n /\ r.pc = p
  <2> HIDE DEF n, p
  <2> QED
    BY DEF JobInv, Job
<1> HIDE DEF r
<1>3. job'[t] = r /\ \A u \in Tasks \ {t} : job'[u] = job[u]
  BY <1>1, OthersUntouched
<1>4. ASSUME ~(n < Segments) PROVE copyBusy' = FALSE
  <2>1. (n < Segments) = FALSE
    BY <1>4
  <2> QED
    BY <1>1, <2>1, Zenon
<1>5. ASSUME n < Segments PROVE copyBusy' = TRUE
  <2>1. (n < Segments) = TRUE
    BY <1>5
  <2> QED
    BY <1>1, <2>1, Zenon
<1> QED
  BY <1>1, <1>2, <1>3, <1>4, <1>5

LEMMA JobStep == JobInv /\ LockInv /\ [Next]_vars => JobInv'
<1> SUFFICES ASSUME JobInv, LockInv, [Next]_vars PROVE JobInv'
  OBVIOUS
<1>1. ASSUME NEW t \in Tasks, NEW op \in RequestNames, NEW p \in {"mount", "open"},
             t # "gnss", op = "check" => t = "sd", op # "restore",
             p = "open" => op = "check",
             job' = [job EXCEPT ![t] = [Idle EXCEPT !.op = op, !.pc = p]]
      PROVE  JobInv'
  <2> DEFINE r == [Idle EXCEPT !.op = op, !.pc = p]
  <2>1. r \in Job /\ r.op = op /\ r.pc = p /\ r.off = 0
    BY IdleJob DEF Job, Steps
  <2>2. JobOk(t, r)
    BY <1>1, <2>1 DEF JobOk, RequestNames
  <2>3. job' = [job EXCEPT ![t] = r]
    BY <1>1
  <2> HIDE DEF r
  <2> QED
    BY <2>1, <2>2, <2>3, JobMove
<1>2. CASE BootSave
  BY <1>1, <1>2 DEF BootSave, RequestNames
<1>3. CASE UpdateBegins("httpd", "upload")
  BY <1>1, <1>3 DEF UpdateBegins, RequestNames
<1>4. CASE UpdateBegins("online", "online")
  BY <1>1, <1>4 DEF UpdateBegins, RequestNames
<1>5. CASE CheckBegins
  BY <1>1, <1>5 DEF CheckBegins, RequestNames
<1>6. ASSUME NEW v \in Builds, RestoreBegins(v)
      PROVE  JobInv'
  <2> DEFINE r == [op |-> "restore", pc |-> "open", build |-> v, off |-> 0]
  <2>1. r \in Job /\ JobOk("httpd", r)
    BY DEF Job, Steps, JobOk, RequestNames
  <2>2. job' = [job EXCEPT !["httpd"] = r]
    BY <1>6 DEF RestoreBegins
  <2> QED
    BY <2>1, <2>2, JobMove
<1>7. CASE NoServer \/ GnssGives
  <2>1. \A t \in Tasks : Idle \in Job /\ JobOk(t, Idle)
    BY DEF Idle, Job, JobOk, Steps, NoBuild
  <2> QED
    BY <1>7, <2>1, JobMove, Ends DEF NoServer, GnssGives
<1>8. CASE GnssPolls
  <2> DEFINE r == [Idle EXCEPT !.op = "poll", !.pc = "bus"]
  <2>1. r \in Job /\ r.op = "poll" /\ r.pc = "bus" /\ r.off = 0
    BY IdleJob DEF Job, Steps
  <2>2. JobOk("gnss", r)
    BY <2>1 DEF JobOk
  <2>3. job' = [job EXCEPT !["gnss"] = r]
    BY <1>8 DEF GnssPolls
  <2> HIDE DEF r
  <2> QED
    BY <2>1, <2>2, <2>3, JobMove
<1>9. CASE PowerLoss
  BY <1>9 DEF PowerLoss, Reset, JobInv, Idle, Job, JobOk, Steps, NoBuild
<1>10. CASE MonitorConfirms \/ UserTouchesCard \/ UNCHANGED vars
  <2>1. job' = job
    BY <1>10 DEF MonitorConfirms, UserTouchesCard, CardEvent, vars
  <2> QED
    BY <2>1 DEF JobInv, JobOk
<1>11. ASSUME NEW t \in Tasks, Save(t) \/ Install(t)
       PROVE  JobInv'
  BY <1>11, SaveJob, InstallJob
<1> QED
  BY <1>2, <1>3, <1>4, <1>5, <1>6, <1>7, <1>8, <1>9, <1>10, <1>11 DEF Next, Request
-----------------------------------------------------------------------------
(* The lock after a step of t, by what the step does with it: it leaves it *)
(* as it is, has it, or gives it up.                                       *)
LEMMA KeepsLock ==
  ASSUME JobInv, LockInv, NEW t \in Tasks, NEW r, job' = [job EXCEPT ![t] = r],
         UNCHANGED <<lock, note, mount, borrow, archMounted>>, card' \in BOOLEAN,
         Own(t)' <=> Own(t), Deep(t)' <=> Deep(t), Bus(t)' <=> Bus(t),
         Uses(t) => (r.op = "check" <=> job[t].op = "check")
  PROVE  LockInv'
<1>1. job'[t] = r /\ \A u \in Tasks \ {t} : job'[u] = job[u]
  BY OthersUntouched
<1>2. \A u \in Tasks : Uses(u)' <=> Uses(u)
  BY <1>1 DEF Uses, Own, Deep, Bus
<1>3. CASE \A u \in Tasks : ~Uses(u)
  BY <1>2, <1>3 DEF LockInv, Held, Unused
<1>4. ASSUME NEW o \in Tasks, Held(o), \A u \in Tasks \ {o} : ~Uses(u)
      PROVE  LockInv'
  <2>1. (Own(o)' <=> Own(o)) /\ (Deep(o)' <=> Deep(o)) /\ (Bus(o)' <=> Bus(o))
    BY <1>1 DEF Own, Deep, Bus
  <2>2. job'[o].op = "check" <=> job[o].op = "check"
    BY <1>1, <1>4 DEF Held
  <2>3. Held(o)'
    BY <1>2, <1>4, <2>1, <2>2 DEF Held, Unused
  <2> QED
    BY <1>2, <1>4, <2>3 DEF LockInv
<1> QED
  BY <1>3, <1>4 DEF LockInv

LEMMA HasLock ==
  ASSUME JobInv, NEW t \in Tasks, NEW r, job' = [job EXCEPT ![t] = r],
         \A u \in Tasks \ {t} : ~Uses(u), Held(t)',
         archMounted' \in BOOLEAN, card' \in BOOLEAN
  PROVE  LockInv'
<1>1. \A u \in Tasks \ {t} : job'[u] = job[u]
  BY OthersUntouched
<1>2. \A u \in Tasks \ {t} : ~Uses(u)'
  BY <1>1 DEF Uses, Own, Deep, Bus
<1> QED
  BY <1>2 DEF LockInv

LEMMA FreesLock ==
  ASSUME JobInv, NEW t \in Tasks, NEW r, job' = [job EXCEPT ![t] = r],
         \A u \in Tasks \ {t} : ~Uses(u), ~Uses(t)', lock' = Free, Unused',
         archMounted' \in BOOLEAN, card' \in BOOLEAN
  PROVE  LockInv'
<1>1. \A u \in Tasks \ {t} : job'[u] = job[u]
  BY OthersUntouched
<1>2. \A u \in Tasks : ~Uses(u)'
  BY <1>1 DEF Uses, Own, Deep, Bus
<1> QED
  BY <1>2 DEF LockInv, Free

(* A save that returns gives what its mount took.                          *)
LEMMA ReturnGives ==
  ASSUME JobInv, LockInv, NEW t \in Tasks, Deep(t), UnmountSd,
         NEW r, job' = [job EXCEPT ![t] = r], r.op = job[t].op,
         r.pc \in {"done", "confirm", "gap"}
  PROVE  LockInv'
<1>1. job'[t] = r
  BY OthersUntouched
<1>2. ~Deep(t)' /\ ~Bus(t)' /\ (Own(t)' <=> Own(t))
  BY <1>1 DEF Own, Deep, Bus
<1>3. card' \in BOOLEAN /\ archMounted' \in BOOLEAN
  BY Gives DEF LockInv
<1>4. CASE Own(t)
  <2>0. /\ lock' = [owner |-> t, depth |-> 1] /\ borrow' = 0
        /\ note' = t /\ mount' = t /\ archMounted' = archMounted
        /\ archMounted <=> job[t].op # "check"
    BY <1>4, Gives
  <2>1. archMounted' <=> job'[t].op # "check"
    BY <1>1, <2>0
  <2>2. Held(t)'
    BY <1>2, <1>4, <2>0, <2>1 DEF Held, Uses
  <2> QED
    BY <1>3, <2>2, Gives, HasLock
<1>5. CASE ~Own(t)
  <2>1. ~Uses(t)' /\ Unused'
    BY <1>2, <1>5, Gives DEF Uses, Unused
  <2> QED
    BY <1>3, <1>5, <2>1, Gives, FreesLock
<1> QED
  BY <1>4, <1>5

(* A save that mounts has the card.                                        *)
LEMMA SaveTakes ==
  ASSUME JobInv, LockInv, NEW t \in Tasks, job[t].pc \in {"mount", "gap"}, MountSd(t),
         NEW p \in {"begin", "copy"}, Goto(t, p)
  PROVE  LockInv'
<1>1. t # "gnss" /\ ~Deep(t) /\ ~Bus(t)
  BY DEF JobInv, JobOk, Deep, Bus
<1>2. job'[t].op = job[t].op /\ job'[t].pc = p
  BY Goes
<1>3. (Own(t)' <=> Own(t)) /\ Deep(t)' /\ ~Bus(t)'
  BY <1>2 DEF Own, Deep, Bus
<1>4. ~Own(t) => job[t].op # "check"
  BY DEF Own
<1>5. Held(t)'
  <2>1. /\ note' = t /\ mount' = t /\ (archMounted' <=> job'[t].op # "check")
        /\ IF Own(t) THEN lock' = [owner |-> t, depth |-> 2] /\ borrow' = 1
                     ELSE lock' = [owner |-> t, depth |-> 1] /\ borrow' = 0
    BY <1>1, <1>2, <1>4, Takes
  <2> QED
    BY <1>3, <2>1 DEF Held, Uses
<1>6. card' \in BOOLEAN /\ archMounted' \in BOOLEAN
  BY <1>1, Takes DEF LockInv
<1>7. job' = [job EXCEPT ![t] = [job[t] EXCEPT !.pc = p]]
  BY Goes
<1>8. \A u \in Tasks \ {t} : ~Uses(u)
  BY <1>1, Takes
<1> QED
  BY <1>5, <1>6, <1>7, <1>8, HasLock
(* A step of t that leaves the lock alone and moves within what it holds.  *)
LEMMA MovesOn ==
  ASSUME JobInv, LockInv, NEW t \in Tasks, NEW p, Goto(t, p),
         UNCHANGED <<lock, note, mount, card, borrow, archMounted>>,
         p # "leave" /\ p # "bus" /\ job[t].pc # "leave" /\ job[t].pc # "bus",
         p \in {"begin", "copy", "swap", "rename", "prune"} <=> Deep(t)
  PROVE  LockInv'
<1>1. job' = [job EXCEPT ![t] = [job[t] EXCEPT !.pc = p]]
  BY Goes
<1>2. job'[t].op = job[t].op /\ job'[t].pc = p
  BY Goes
<1>3. (Own(t)' <=> Own(t)) /\ (Deep(t)' <=> Deep(t)) /\ (Bus(t)' <=> Bus(t))
  BY <1>2 DEF Own, Deep, Bus
<1>4. job'[t] = [job[t] EXCEPT !.pc = p]
  BY <1>1, OthersUntouched
<1>5. card' \in BOOLEAN
  BY DEF LockInv
<1> DEFINE r == [job[t] EXCEPT !.pc = p]
<1>6. job' = [job EXCEPT ![t] = r] /\ r.op = job[t].op
  BY <1>1, <1>2, <1>4
<1> HIDE DEF r
<1> QED
  BY <1>3, <1>5, <1>6, KeepsLock

LEMMA SaveLock ==
  ASSUME JobInv, LockInv, NEW t \in Tasks, Save(t)
  PROVE  LockInv'
<1> USE DEF At
<1>1. ASSUME SaveReturns(t), Deep(t), UnmountSd
      PROVE  LockInv'
  <2>1. PICK r \in Job :
           /\ job' = [job EXCEPT ![t] = r] /\ job'[t] = r
           /\ r.op = job[t].op /\ r.off = 0
           /\ r.pc = IF t = "boot" THEN "done" ELSE "confirm"
    BY <1>1, Returns
  <2> QED
    BY <1>1, <2>1, ReturnGives
<1>2. CASE SaveMount(t) \/ SaveResumes(t)
  BY <1>2, SaveTakes DEF SaveMount, SaveResumes
<1>3. CASE SaveMountFails(t)
  <2>1. PICK r \in Job :
           /\ job' = [job EXCEPT ![t] = r] /\ job'[t] = r
           /\ r.op = job[t].op /\ r.off = 0
           /\ r.pc = IF t = "boot" THEN "done" ELSE "confirm"
    BY <1>3, Returns DEF SaveMountFails
  <2>2. job[t].pc \in {"mount", "gap"}
        /\ UNCHANGED <<lock, note, mount, card, borrow, archMounted>>
    BY <1>3 DEF SaveMountFails, UnchangedSd, sdVars
  <2>3. (Own(t)' <=> Own(t)) /\ (Deep(t)' <=> Deep(t)) /\ (Bus(t)' <=> Bus(t))
    BY <2>1, <2>2 DEF Own, Deep, Bus
  <2>4. card' \in BOOLEAN
    BY <2>2 DEF LockInv
  <2> QED
    BY <2>1, <2>2, <2>3, <2>4, KeepsLock
<1>4. CASE SaveSkips(t) \/ SaveCannotOpen(t) \/ SegmentFails(t) \/ SaveCannotRename(t)
           \/ SavePrunes(t)
  BY <1>4, <1>1 DEF SaveSkips, SaveCannotOpen, SegmentFails, SaveCannotRename, SavePrunes, Deep
<1>5. CASE SaveBegins(t)
  BY <1>5, MovesOn DEF SaveBegins, UnchangedSd, sdVars, Deep
<1>6. CASE SaveSwaps(t)
  BY <1>6, MovesOn DEF SaveSwaps, UnchangedSd, sdVars, Deep
<1>7. CASE SaveRenames(t)
  BY <1>7, MovesOn DEF SaveRenames, UnchangedSd, sdVars, Deep
<1>8. CASE Segment(t)
  <2> DEFINE n == job[t].off + 1
             p == IF n = Segments THEN "swap" ELSE IF borrow = 0 THEN "gap" ELSE "copy"
             r == [job[t] EXCEPT !.off = n, !.pc = p]
  <2>1. /\ job' = [job EXCEPT ![t] = r] /\ job[t].pc = "copy"
        /\ IF n < Segments /\ borrow = 0 THEN UnmountSd ELSE UnchangedSd
    BY <1>8 DEF Segment, JobInv, Job
  <2>2. /\ job[t] \in Job /\ job[t].off < Segments
    BY <2>1 DEF JobInv, JobOk
  <2>3. r.op = job[t].op /\ r.pc = p
    <3> HIDE DEF n, p
    <3> QED
      BY <2>2 DEF Job
  <2> HIDE DEF r
  <2>4. job'[t] = r
    BY <2>1, OthersUntouched
  <2>5. CASE n < Segments /\ borrow = 0
    <3>1. p = "gap"
      BY <2>2, <2>5 DEF Job
    <3>2. Deep(t) /\ UnmountSd
      BY <2>1, <2>5 DEF Deep
    <3> QED
      BY <2>1, <2>3, <3>1, <3>2, ReturnGives
  <2>6. CASE ~(n < Segments /\ borrow = 0)
    <3>1. UNCHANGED <<lock, note, mount, card, borrow, archMounted>>
      BY <2>1, <2>6 DEF UnchangedSd, sdVars
    <3>2. p \in {"swap", "copy"}
      BY <2>2, <2>6 DEF Job
    <3>3. (Own(t)' <=> Own(t)) /\ (Deep(t)' <=> Deep(t)) /\ (Bus(t)' <=> Bus(t))
      BY <2>1, <2>3, <2>4, <3>2 DEF Own, Deep, Bus
    <3>4. card' \in BOOLEAN
      BY <3>1 DEF LockInv
    <3> QED
      BY <2>1, <2>3, <3>1, <3>3, <3>4, KeepsLock
  <2> QED
    BY <2>5, <2>6
<1> QED
  BY <1>2, <1>3, <1>4, <1>5, <1>6, <1>7, <1>8 DEF Save

(* A restore, a check or an upload: what closes its file gives the card.   *)
LEMMA CloseGives ==
  ASSUME JobInv, LockInv, NEW t \in Tasks, job[t].pc \in {"open", "write", "close"},
         CloseSd(t), NEW r, job' = [job EXCEPT ![t] = r], r.pc \in {"idle", "leave"},
         r.pc = "idle" => r.op = "none"
  PROVE  LockInv'
<1>1. ~Deep(t) /\ ~Bus(t) /\ job[t].pc # "leave"
  BY DEF Deep, Bus
<1>2. job'[t] = r
  BY OthersUntouched
<1>3. ~Uses(t)'
  BY <1>2 DEF Uses, Own, Deep, Bus
<1>4. CASE Own(t)
  <2>1. /\ lock' = Free /\ Unused' /\ \A u \in Tasks \ {t} : ~Uses(u)
        /\ card' \in BOOLEAN /\ archMounted' \in BOOLEAN
    BY <1>1, <1>4, Closes DEF Unused, LockInv
  <2> QED
    BY <1>3, <2>1, FreesLock
<1>5. CASE ~Own(t)
  <2>1. UNCHANGED <<lock, note, mount, borrow, archMounted>> /\ card' \in BOOLEAN
    BY <1>1, <1>5, Closes DEF LockInv
  <2> QED
    BY <1>1, <1>3, <1>5, <2>1, KeepsLock DEF Uses
<1> QED
  BY <1>4, <1>5

LEMMA InstallLock ==
  ASSUME JobInv, LockInv, NEW t \in Tasks, Install(t)
  PROVE  LockInv'
<1> USE DEF At
<1>1. CASE OpenImage(t) \/ MarkValid(t) \/ WriteImage(t)
  <2>1. PICK p \in {"mount", "write", "close"} :
          Goto(t, p) /\ job[t].pc \in {"open", "confirm", "write"}
    BY <1>1 DEF OpenImage, MarkValid, WriteImage
  <2>2. UNCHANGED <<lock, note, mount, card, borrow, archMounted>>
    BY <1>1 DEF OpenImage, MarkValid, WriteImage, UnchangedSd, sdVars
  <2> QED
    BY <2>1, <2>2, MovesOn DEF Deep
<1>2. CASE NoImage(t) \/ WriteFails(t)
  <2>1. job' = [job EXCEPT ![t] = Idle] /\ Idle.pc = "idle" /\ Idle.op = "none"
    BY <1>2, Ends DEF NoImage, WriteFails, Idle
  <2> QED
    BY <1>2, <2>1, CloseGives DEF NoImage, WriteFails
<1>3. CASE CloseImage(t)
  <2> DEFINE r == [job[t] EXCEPT !.pc = "leave"]
  <2>1. job' = [job EXCEPT ![t] = r] /\ r.pc = "leave"
    BY <1>3 DEF CloseImage, Goto, JobInv, Job
  <2> HIDE DEF r
  <2> QED
    BY <1>3, <2>1, CloseGives DEF CloseImage
<1>4. CASE Leave(t)
  BY <1>4 DEF Leave, Reset, LockInv, Unused, Uses, Own, Deep, Bus, Idle
<1> QED
  BY <1>1, <1>2, <1>3, <1>4 DEF Install
LEMMA LockStep == JobInv /\ LockInv /\ [Next]_vars => LockInv'
<1> SUFFICES ASSUME JobInv, LockInv, [Next]_vars PROVE LockInv'
  OBVIOUS
<1> USE DEF At
<1>1. ASSUME NEW t \in Tasks, NEW r, job' = [job EXCEPT ![t] = r],
             job[t].pc = "idle", r.pc = "mount", r.op \notin {"restore", "check"},
             UNCHANGED <<lock, note, mount, card, borrow, archMounted>>
      PROVE  LockInv'
  <2>1. job[t].op = "none" /\ job'[t] = r
    BY <1>1, OthersUntouched DEF JobInv, JobOk
  <2>2. ~Uses(t) /\ ~Uses(t)'
    BY <1>1, <2>1 DEF Uses, Own, Deep, Bus
  <2>3. card' \in BOOLEAN
    BY <1>1 DEF LockInv
  <2> QED
    BY <1>1, <2>2, <2>3, KeepsLock DEF Uses
<1>2. CASE BootSave
  <2> DEFINE r == [Idle EXCEPT !.op = "boot", !.pc = "mount"]
  <2>1. r.op = "boot" /\ r.pc = "mount"
    BY DEF Idle
  <2>2. /\ job' = [job EXCEPT !["boot"] = r] /\ job["boot"].pc = "idle"
        /\ UNCHANGED <<lock, note, mount, card, borrow, archMounted>>
    BY <1>2 DEF BootSave, sdVars
  <2> HIDE DEF r
  <2> QED
    BY <1>1, <2>1, <2>2
<1>3. ASSUME NEW t \in Tasks, NEW op \in {"upload", "online"}, UpdateBegins(t, op)
      PROVE  LockInv'
  <2> DEFINE r == [Idle EXCEPT !.op = op, !.pc = "mount"]
  <2>1. r.op = op /\ r.pc = "mount"
    BY DEF Idle
  <2>2. /\ job' = [job EXCEPT ![t] = r] /\ job[t].pc = "idle"
        /\ UNCHANGED <<lock, note, mount, card, borrow, archMounted>>
    BY <1>3 DEF UpdateBegins, sdVars
  <2> HIDE DEF r
  <2> QED
    BY <1>1, <2>1, <2>2
<1>4. ASSUME NEW v \in Builds, RestoreBegins(v)
      PROVE  LockInv'
  <2> DEFINE t == "httpd"
             r == [op |-> "restore", pc |-> "open", build |-> v, off |-> 0]
  <2>1. job' = [job EXCEPT ![t] = r] /\ MountSd(t) /\ job[t].pc = "idle"
    BY <1>4 DEF RestoreBegins
  <2>2. ~Own(t) /\ ~Deep(t) /\ ~Bus(t)
    BY <2>1 DEF JobInv, JobOk, Own, Deep, Bus
  <2>3. /\ \A u \in Tasks \ {t} : ~Uses(u)
        /\ lock' = [owner |-> t, depth |-> 1] /\ borrow' = 0 /\ archMounted' = TRUE
        /\ note' = t /\ mount' = t /\ card' \in BOOLEAN
    BY <2>1, <2>2, Takes DEF LockInv
  <2>4. job'[t] = r
    BY <2>1, OthersUntouched
  <2>5. Held(t)'
    BY <2>3, <2>4 DEF Held, Uses, Own, Deep, Bus
  <2> QED
    BY <2>1, <2>3, <2>5, HasLock
<1>5. CASE CheckBegins
  <2> DEFINE t == "sd"
             r == [Idle EXCEPT !.op = "check", !.pc = "open"]
  <2>1. r.op = "check" /\ r.pc = "open"
    BY DEF Idle
  <2>2. /\ job' = [job EXCEPT ![t] = r] /\ job[t].pc = "idle" /\ Takable(t) /\ CanMount
        /\ lock' = Taken(t) /\ mount' = t /\ note' = t /\ UNCHANGED <<card, borrow, archMounted>>
    BY <1>5 DEF CheckBegins
  <2>3. ~Uses(t)
    BY <2>2 DEF JobInv, JobOk, Uses, Own, Deep, Bus
  <2>4. lock = Free /\ Unused /\ (\A u \in Tasks \ {t} : ~Uses(u))
    BY <2>2, <2>3 DEF LockInv, Held, Unused, Takable, CanMount
  <2> HIDE DEF r
  <2>5. job'[t] = r
    BY <2>2, OthersUntouched
  <2>6. Held(t)'
    BY <2>1, <2>2, <2>4, <2>5 DEF Held, Unused, Taken, Free, Uses, Own, Deep, Bus
  <2>7. card' \in BOOLEAN /\ archMounted' \in BOOLEAN
    BY <2>2 DEF LockInv
  <2> QED
    BY <2>2, <2>4, <2>6, <2>7, HasLock
<1>6. CASE GnssPolls
  <2> DEFINE t == "gnss"
             r == [Idle EXCEPT !.op = "poll", !.pc = "bus"]
  <2>1. r.op = "poll" /\ r.pc = "bus"
    BY DEF Idle
  <2>2. /\ job' = [job EXCEPT ![t] = r] /\ job[t].pc = "idle" /\ Takable(t)
        /\ lock' = Taken(t) /\ UNCHANGED <<note, mount, card, borrow, archMounted>>
    BY <1>6 DEF GnssPolls
  <2>3. ~Uses(t)
    BY <2>2 DEF JobInv, JobOk, Uses, Own, Deep, Bus
  <2>4. lock = Free /\ Unused /\ (\A u \in Tasks \ {t} : ~Uses(u))
    BY <2>2, <2>3 DEF LockInv, Held, Unused, Takable
  <2> HIDE DEF r
  <2>5. job'[t] = r
    BY <2>2, OthersUntouched
  <2>6. Held(t)'
    BY <2>1, <2>2, <2>4, <2>5 DEF Held, Unused, Taken, Free, Uses, Own, Deep, Bus
  <2>7. card' \in BOOLEAN /\ archMounted' \in BOOLEAN
    BY <2>2 DEF LockInv
  <2> QED
    BY <2>2, <2>4, <2>6, <2>7, HasLock
<1>7. CASE GnssGives
  <2>1. /\ job' = [job EXCEPT !["gnss"] = Idle] /\ job["gnss"].pc = "bus" /\ lock' = Given
        /\ UNCHANGED <<note, mount, card, borrow, archMounted>>
    BY <1>7, Ends DEF GnssGives
  <2>2. Bus("gnss") /\ ~Own("gnss") /\ ~Deep("gnss")
    BY <2>1 DEF JobInv, JobOk, Bus, Own, Deep
  <2>3. Held("gnss") /\ \A u \in Tasks \ {"gnss"} : ~Uses(u)
    BY <2>2 DEF LockInv, Held, Uses
  <2>4. lock' = Free /\ Unused'
    BY <2>1, <2>2, <2>3 DEF Held, Unused, Given, Free
  <2>5. ~Uses("gnss")'
    <3>1. job'["gnss"] = Idle
      BY <2>1, OthersUntouched
    <3> QED
      BY <3>1 DEF Uses, Own, Deep, Bus, Idle
  <2>6. card' \in BOOLEAN /\ archMounted' \in BOOLEAN
    BY <2>1 DEF LockInv
  <2> QED
    BY <2>1, <2>3, <2>4, <2>5, <2>6, FreesLock
<1>8. CASE NoServer
  <2>1. /\ job' = [job EXCEPT !["online"] = Idle] /\ job["online"].pc = "confirm"
        /\ UNCHANGED <<lock, note, mount, card, borrow, archMounted>>
    BY <1>8, Ends DEF NoServer, sdVars
  <2>2. ~Uses("online")
    BY <2>1 DEF JobInv, JobOk, Uses, Own, Deep, Bus
  <2>3. ~Uses("online")'
    <3>1. job'["online"] = Idle
      BY <2>1, OthersUntouched
    <3> QED
      BY <3>1 DEF Uses, Own, Deep, Bus, Idle
  <2>4. card' \in BOOLEAN
    BY <2>1 DEF LockInv
  <2> QED
    BY <2>1, <2>2, <2>3, <2>4, KeepsLock DEF Uses
<1>9. CASE PowerLoss
  BY <1>9 DEF PowerLoss, Reset, LockInv, Unused, Uses, Own, Deep, Bus, Idle
<1>10. CASE MonitorConfirms \/ UserTouchesCard \/ UNCHANGED vars
  <2>1. UNCHANGED <<job, lock, note, mount, borrow, archMounted>> /\ card' \in BOOLEAN
    BY <1>10 DEF MonitorConfirms, UserTouchesCard, CardEvent, vars, sdVars, LockInv
  <2> QED
    BY <2>1 DEF LockInv, Held, Unused, Uses, Own, Deep, Bus
<1>11. ASSUME NEW t \in Tasks, Save(t) \/ Install(t)
       PROVE  LockInv'
  BY <1>11, SaveLock, InstallLock
<1> QED
  BY <1>2, <1>3, <1>4, <1>5, <1>6, <1>7, <1>8, <1>9, <1>10, <1>11 DEF Next, Request
-----------------------------------------------------------------------------
(* One task copies while the flag is up, none while it is down; and who    *)
(* has finished the temporary file has put the flag down.                  *)
Copying(t)  == job[t].pc \in {"copy", "gap"}
Renaming(t) == job[t].pc \in {"swap", "rename"}

CopyInv ==
    /\ copyBusy \in BOOLEAN
    /\ copyBusy => \E t \in Tasks : Copying(t) /\ \A u \in Tasks \ {t} : ~Copying(u)
    /\ ~copyBusy => \A t \in Tasks : ~Copying(t)
    /\ \A t \in Tasks : Renaming(t) => ~copyBusy

(* Who works with the temporary file does it alone.                        *)
LEMMA OneWriter ==
  ASSUME LockInv, CopyInv, NEW t \in Tasks, NEW u \in Tasks \ {t}, Copying(t) \/ Renaming(t)
  PROVE  ~Copying(u) /\ ~Renaming(u)
BY DEF LockInv, CopyInv, Copying, Renaming, Uses, Deep

(* Steps of t after which nobody, or t, copies.                            *)
LEMMA NoneCopies ==
  ASSUME NEW t \in Tasks, \A u \in Tasks \ {t} : job'[u] = job[u],
         \A u \in Tasks \ {t} : ~Copying(u), job'[t].pc \notin {"copy", "gap"},
         copyBusy' = FALSE
  PROVE  CopyInv'
BY DEF CopyInv, Copying

LEMMA TaskCopies ==
  ASSUME NEW t \in Tasks, \A u \in Tasks \ {t} : job'[u] = job[u],
         \A u \in Tasks \ {t} : ~Copying(u) /\ ~Renaming(u),
         job'[t].pc \in {"copy", "gap"}, copyBusy' = TRUE
  PROVE  CopyInv'
BY DEF CopyInv, Copying, Renaming

LEMMA KeepsCopying ==
  ASSUME CopyInv, NEW t \in Tasks, \A u \in Tasks \ {t} : job'[u] = job[u],
         job'[t].pc \in {"copy", "gap"} <=> Copying(t),
         job'[t].pc \in {"swap", "rename"} => Renaming(t), copyBusy' = copyBusy
  PROVE  CopyInv'
<1>1. \A u \in Tasks : (Copying(u)' <=> Copying(u)) /\ (Renaming(u)' => Renaming(u))
  BY DEF Copying, Renaming
<1> QED
  BY <1>1 DEF CopyInv

LEMMA SaveCopy ==
  ASSUME JobInv, LockInv, CopyInv, NEW t \in Tasks, Save(t)
  PROVE  CopyInv'
<1> USE DEF At
<1>0. SaveReturns(t) => /\ job'[t].pc \in {"done", "confirm"}
                        /\ \A u \in Tasks \ {t} : job'[u] = job[u]
  BY Returns
<1>1. ASSUME SaveReturns(t), job[t].pc \notin {"copy", "gap"}, copyBusy' = copyBusy
      PROVE  CopyInv'
  BY <1>0, <1>1, KeepsCopying DEF Copying
<1>2. ASSUME SaveReturns(t), Copying(t), copyBusy' = FALSE
      PROVE  CopyInv'
  BY <1>0, <1>2, NoneCopies, OneWriter
<1>3. ASSUME NEW p \in {"begin", "copy", "rename", "prune"}, Goto(t, p), copyBusy' = copyBusy,
             p = "copy" <=> Copying(t), p = "rename" => Renaming(t)
      PROVE  CopyInv'
  BY <1>3, Goes, KeepsCopying
<1>4. CASE SaveBegins(t)
  <2>1. job'[t].pc = "copy" /\ \A u \in Tasks \ {t} : job'[u] = job[u]
    BY <1>4, Goes DEF SaveBegins
  <2>2. Deep(t) /\ copyBusy' = TRUE /\ ~copyBusy
    BY <1>4 DEF SaveBegins, Deep
  <2>3. \A u \in Tasks \ {t} : ~Copying(u) /\ ~Renaming(u)
    BY <2>2 DEF LockInv, CopyInv, Renaming, Uses, Deep
  <2> QED
    BY <2>1, <2>2, <2>3, TaskCopies
<1>5. CASE Segment(t)
  <2> DEFINE n == job[t].off + 1
  <2>1. /\ job[t].pc = "copy"
        /\ n < Segments => copyBusy' = TRUE
        /\ ~(n < Segments) => copyBusy' = FALSE
        /\ job'[t].pc = IF n = Segments THEN "swap" ELSE IF borrow = 0 THEN "gap" ELSE "copy"
        /\ \A u \in Tasks \ {t} : job'[u] = job[u]
    BY <1>5, SegmentJob
  <2>2. n \in Nat /\ n <= Segments
    BY <2>1 DEF JobInv, JobOk, Job
  <2>3. Copying(t) /\ \A u \in Tasks \ {t} : ~Copying(u) /\ ~Renaming(u)
    BY <2>1, OneWriter DEF Copying
  <2>4. CASE n = Segments
    <3>1. copyBusy' = FALSE /\ job'[t].pc = "swap"
      BY <2>1, <2>2, <2>4
    <3> QED
      BY <2>1, <2>3, <3>1, NoneCopies
  <2>5. CASE n < Segments
    <3>1. copyBusy' = TRUE /\ job'[t].pc \in {"gap", "copy"}
      <4> HIDE DEF n
      <4> QED
        BY <2>1, <2>2, <2>5
    <3> QED
      BY <2>1, <2>3, <3>1, TaskCopies
  <2> QED
    BY <2>2, <2>4, <2>5
<1>6. CASE SaveMount(t)
  BY <1>6, <1>3 DEF SaveMount, Copying
<1>7. CASE SaveResumes(t)
  BY <1>7, <1>3 DEF SaveResumes, Copying
<1>8. CASE SaveSwaps(t)
  BY <1>8, <1>3 DEF SaveSwaps, Copying, Renaming
<1>9. CASE SaveRenames(t)
  BY <1>9, <1>3 DEF SaveRenames, Copying
<1>10. CASE SaveMountFails(t)
  <2>1. CASE job[t].pc = "mount"
    BY <1>1, <1>10, <2>1 DEF SaveMountFails, CopyInv
  <2>2. CASE job[t].pc = "gap"
    BY <1>2, <1>10, <2>2 DEF SaveMountFails, Copying
  <2> QED
    BY <1>10, <2>1, <2>2 DEF SaveMountFails
<1>11. CASE SaveSkips(t) \/ SaveCannotOpen(t) \/ SaveCannotRename(t) \/ SavePrunes(t)
  BY <1>1, <1>11 DEF SaveSkips, SaveCannotOpen, SaveCannotRename, SavePrunes
<1>12. CASE SegmentFails(t)
  BY <1>2, <1>12 DEF SegmentFails, Copying
<1> QED
  BY <1>4, <1>5, <1>6, <1>7, <1>8, <1>9, <1>10, <1>11, <1>12 DEF Save

LEMMA CopyStep == JobInv /\ LockInv /\ CopyInv /\ [Next]_vars => CopyInv'
<1> SUFFICES ASSUME JobInv, LockInv, CopyInv, [Next]_vars PROVE CopyInv'
  OBVIOUS
<1> USE DEF At
<1>1. ASSUME NEW t \in Tasks, \A u \in Tasks \ {t} : job'[u] = job[u], ~Copying(t),
             job'[t].pc \in {"mount", "open", "write", "close", "leave", "idle", "bus"},
             copyBusy' = copyBusy
      PROVE  CopyInv'
  BY <1>1, KeepsCopying
<1>2. ASSUME NEW t \in Tasks, NEW p \in {"mount", "write", "close", "leave"}, Goto(t, p),
             ~Copying(t), copyBusy' = copyBusy
      PROVE  CopyInv'
  BY <1>1, <1>2, Goes
<1>3. ASSUME NEW t \in Tasks, NEW op, NEW p \in {"mount", "open", "bus"},
             job' = [job EXCEPT ![t] = [Idle EXCEPT !.op = op, !.pc = p]],
             job[t].pc = "idle", copyBusy' = copyBusy
      PROVE  CopyInv'
  <2>1. ~Copying(t)
    BY <1>3 DEF Copying
  <2> DEFINE r == [Idle EXCEPT !.op = op, !.pc = p]
  <2>2. r.pc = p
    BY DEF Idle
  <2>3. job' = [job EXCEPT ![t] = r]
    BY <1>3
  <2> HIDE DEF r
  <2>4. job'[t] = r /\ \A u \in Tasks \ {t} : job'[u] = job[u]
    BY <2>3, OthersUntouched
  <2> QED
    BY <1>1, <1>3, <2>1, <2>2, <2>4
<1>4. CASE BootSave
  BY <1>3, <1>4 DEF BootSave
<1>5. CASE UpdateBegins("httpd", "upload") \/ UpdateBegins("online", "online")
  BY <1>3, <1>5 DEF UpdateBegins
<1>6. ASSUME NEW v \in Builds, RestoreBegins(v)
      PROVE  CopyInv'
  <2> DEFINE r == [op |-> "restore", pc |-> "open", build |-> v, off |-> 0]
  <2>1. /\ job' = [job EXCEPT !["httpd"] = r] /\ r.pc = "open" /\ ~Copying("httpd")
        /\ copyBusy' = copyBusy
    BY <1>6 DEF RestoreBegins, Copying
  <2>2. job'["httpd"] = r /\ \A u \in Tasks \ {"httpd"} : job'[u] = job[u]
    BY <2>1, OthersUntouched
  <2> QED
    BY <1>1, <2>1, <2>2
<1>7. CASE CheckBegins
  BY <1>3, <1>7 DEF CheckBegins
<1>8. CASE GnssPolls
  BY <1>3, <1>8 DEF GnssPolls
<1>9. ASSUME NEW t \in Tasks, Over(t), job[t].pc \notin {"copy", "gap"}, copyBusy' = copyBusy
      PROVE  CopyInv'
  BY <1>1, <1>9, Ends DEF Copying, Idle
<1>10. CASE NoServer \/ GnssGives
  BY <1>9, <1>10 DEF NoServer, GnssGives
<1>11. ASSUME Reset
       PROVE  CopyInv'
  BY <1>11 DEF Reset, CopyInv, Copying, Renaming, Idle
<1>12. CASE MonitorConfirms \/ UserTouchesCard \/ UNCHANGED vars
  <2>1. UNCHANGED <<job, copyBusy>>
    BY <1>12 DEF MonitorConfirms, UserTouchesCard, CardEvent, vars
  <2> QED
    BY <2>1 DEF CopyInv, Copying, Renaming
<1>13. ASSUME NEW t \in Tasks, Install(t)
       PROVE  CopyInv'
  <2>1. CASE OpenImage(t) \/ MarkValid(t) \/ WriteImage(t) \/ CloseImage(t)
    BY <1>2, <2>1 DEF OpenImage, MarkValid, WriteImage, CloseImage, Copying
  <2>2. CASE NoImage(t) \/ WriteFails(t)
    BY <1>9, <2>2 DEF NoImage, WriteFails
  <2>3. CASE Leave(t)
    BY <1>11, <2>3 DEF Leave
  <2> QED
    BY <1>13, <2>1, <2>2, <2>3 DEF Install
<1>14. ASSUME NEW t \in Tasks, Save(t)
       PROVE  CopyInv'
  BY <1>14, SaveCopy
<1> QED
  BY <1>4, <1>5, <1>6, <1>7, <1>8, <1>10, <1>11, <1>12, <1>13, <1>14
  DEF Next, Request, PowerLoss
-----------------------------------------------------------------------------
(* What a copy has written after n segments: as many of them at most, and  *)
(* exactly these when nobody has touched the card meanwhile.               *)
Written(n) == UNION {[1 .. k -> 1 .. Segments] : k \in 0 .. n}
Prefix(n)  == [i \in 1 .. n |-> i]

(* The temporary file of the task that works with it.                      *)
TmpOk(j, f, sp) ==
    /\ j.pc = "copy" => f \in Written(j.off)
    /\ j.pc = "gap" => f \in Written(j.off) \/ (f = NoFile /\ Tmp \in sp)
    /\ j.pc \in {"copy", "gap"} /\ Tmp \notin sp => f = Prefix(j.off)
    /\ j.pc \in {"swap", "rename"} /\ Tmp \notin sp => f = Whole

FileInv ==
    /\ file \in [Builds \union {Tmp} -> Contents] /\ spoiled \subseteq Builds \union {Tmp}
    /\ ListedWhole
    /\ \A t \in Tasks : Copying(t) \/ Renaming(t) =>
                          TmpOk(job[t], file[Tmp], spoiled) /\ file[current] # Whole

LEMMA TmpApart == Tmp \notin Builds
BY DEF Tmp

LEMMA NothingWritten == << >> \in Written(0) /\ << >> = Prefix(0)
BY DEF Written, Prefix

LEMMA NoFileUnwritten ==
  ASSUME NEW n \in Nat
  PROVE  NoFile \notin Written(n) /\ NoFile # Prefix(n)
<1>1. ASSUME NEW k \in 0 .. n, NoFile \in [1 .. k -> 1 .. Segments] PROVE FALSE
  <2>1. DOMAIN NoFile = 1 .. 1 /\ NoFile[1] = 0
    BY DEF NoFile
  <2> QED
    BY <1>1, <2>1
<1>2. NoFile # Prefix(n)
  <2>1. DOMAIN NoFile = 1 .. 1 /\ NoFile[1] = 0
    BY DEF NoFile
  <2>2. DOMAIN Prefix(n) = 1 .. n /\ (1 \in 1 .. n => Prefix(n)[1] = 1)
    BY DEF Prefix
  <2> QED
    BY <2>1, <2>2
<1> QED
  BY <1>1, <1>2 DEF Written

LEMMA OneMore ==
  ASSUME NEW n \in Nat, n < Segments, NEW s \in Written(n)
  PROVE  /\ Append(s, n + 1) \in Written(n + 1)
         /\ s = Prefix(n) => Append(s, n + 1) = Prefix(n + 1)
<1>1. PICK k \in 0 .. n : s \in [1 .. k -> 1 .. Segments]
  BY DEF Written
<1>2. s \in Seq(1 .. Segments) /\ Len(s) = k
  BY <1>1
<1>3. Append(s, n + 1) \in [1 .. k + 1 -> 1 .. Segments]
  <2>1. /\ Append(s, n + 1) \in Seq(1 .. Segments) /\ Len(Append(s, n + 1)) = k + 1
    BY <1>2, AppendProperties
  <2> QED
    BY <2>1, LenProperties
<1>4. s = Prefix(n) => Append(s, n + 1) = Prefix(n + 1)
  BY <1>2 DEF Prefix
<1> QED
  BY <1>3, <1>4 DEF Written

LEMMA WholePrefix == Whole = Prefix(Segments) /\ Len(Whole) = Segments /\ NoFile # Whole
BY NoFileUnwritten DEF Whole, Prefix

LEMMA WrittenContents ==
  ASSUME NEW n \in 0 .. Segments
  PROVE  Written(n) \subseteq Contents
BY DEF Written, Contents
(* The device changes the version that runs only by a restart.             *)
DeviceInv ==
    /\ current \in Builds /\ {next, fallback} \subseteq Builds \union {NoBuild}
    /\ onTrial \in BOOLEAN /\ busy \in BOOLEAN
    /\ onTrial => fallback \in Builds

LEMMA InstallDevice ==
  ASSUME JobInv, DeviceInv, NEW t \in Tasks, Install(t), ~Leave(t)
  PROVE  DeviceInv' /\ current' = current
<1>1. CASE MarkValid(t)
  BY <1>1 DEF MarkValid, DeviceInv, device, Device!Confirm, NoBuild
<1>2. CASE WriteImage(t)
  <2>1. PICK v \in Offered(t) : Device!Install(v)
    BY <1>2 DEF WriteImage
  <2>2. job[t].build \in Builds \union {NoBuild}
    BY DEF JobInv, Job
  <2>3. v \in Builds \union {NoBuild}
    BY <2>1, <2>2 DEF Offered
  <2>4. busy' = busy
    BY <1>2 DEF WriteImage
  <2> QED
    BY <2>1, <2>3, <2>4 DEF DeviceInv, Device!Install
<1>3. CASE OpenImage(t) \/ NoImage(t) \/ WriteFails(t) \/ CloseImage(t)
  <2>1. UNCHANGED device
    BY <1>3 DEF OpenImage, NoImage, WriteFails, CloseImage
  <2>2. busy' \in BOOLEAN
    BY <1>3 DEF OpenImage, NoImage, WriteFails, CloseImage, DeviceInv
  <2> QED
    BY <2>1, <2>2 DEF DeviceInv, device
<1> QED
  BY <1>1, <1>2, <1>3 DEF Install

LEMMA SaveDevice ==
  ASSUME NEW t \in Tasks, Save(t)
  PROVE  UNCHANGED device /\ busy' = busy
BY DEF Save, SaveMount, SaveMountFails, SaveSkips, SaveBegins, SaveCannotOpen, Segment,
       SaveResumes, SegmentFails, SaveSwaps, SaveRenames, SaveCannotRename, SavePrunes

LEMMA ResetDevice ==
  ASSUME DeviceInv, Reset
  PROVE  DeviceInv'
BY DEF DeviceInv, Reset, device, Device!Annul, Device!Restart, NoBuild

LEMMA OtherDevice ==
  ASSUME DeviceInv, Request \/ NoServer \/ MonitorConfirms \/ GnssPolls \/ GnssGives
                    \/ UserTouchesCard \/ UNCHANGED vars
  PROVE  DeviceInv' /\ current' = current
<1>1. CASE MonitorConfirms
  BY <1>1 DEF MonitorConfirms, Device!Confirm, DeviceInv, NoBuild
<1>2. CASE Request
  <2>1. UNCHANGED device
    BY <1>2 DEF Request, BootSave, UpdateBegins, RestoreBegins, CheckBegins
  <2>2. busy' \in BOOLEAN
    BY <1>2 DEF Request, BootSave, UpdateBegins, RestoreBegins, CheckBegins, DeviceInv
  <2> QED
    BY <2>1, <2>2 DEF DeviceInv, device
<1>3. CASE NoServer \/ GnssPolls \/ GnssGives \/ UserTouchesCard \/ UNCHANGED vars
  <2>1. UNCHANGED device
    BY <1>3 DEF NoServer, GnssPolls, GnssGives, UserTouchesCard, CardEvent, vars
  <2>2. busy' \in BOOLEAN
    BY <1>3 DEF NoServer, GnssPolls, GnssGives, UserTouchesCard, CardEvent, vars, DeviceInv
  <2> QED
    BY <2>1, <2>2 DEF DeviceInv, device
<1> QED
  BY <1>1, <1>2, <1>3

LEMMA DeviceStep == JobInv /\ DeviceInv /\ [Next]_vars => DeviceInv'
<1> SUFFICES ASSUME JobInv, DeviceInv, [Next]_vars PROVE DeviceInv'
  OBVIOUS
<1>1. ASSUME NEW t \in Tasks, Save(t)
      PROVE  DeviceInv'
  BY <1>1, SaveDevice DEF DeviceInv, device
<1>2. ASSUME NEW t \in Tasks, Install(t)
      PROVE  DeviceInv'
  BY <1>2, InstallDevice, ResetDevice DEF Leave
<1> QED
  BY <1>1, <1>2, OtherDevice, ResetDevice DEF Next, PowerLoss
-----------------------------------------------------------------------------
(* The files after a step of t: nobody else works with the temporary file, *)
(* or the files stay as they are.                                          *)
Writes(t) == Copying(t) \/ Renaming(t)

LEMMA AloneFile ==
  ASSUME NEW t \in Tasks, \A u \in Tasks \ {t} : job'[u] = job[u],
         \A u \in Tasks \ {t} : ~Copying(u) /\ ~Renaming(u),
         file' \in [Builds \union {Tmp} -> Contents], spoiled' \subseteq Builds \union {Tmp},
         ListedWhole',
         Writes(t)' => TmpOk(job'[t], file'[Tmp], spoiled') /\ file'[current'] # Whole
  PROVE  FileInv'
<1>1. \A u \in Tasks \ {t} : ~Copying(u)' /\ ~Renaming(u)'
  BY DEF Copying, Renaming
<1>2. \A u \in Tasks : Copying(u)' \/ Renaming(u)' => u = t
  BY <1>1
<1> QED
  BY <1>2, Zenon DEF FileInv, Writes

LEMMA KeepsFile ==
  ASSUME FileInv, NEW t \in Tasks, \A u \in Tasks \ {t} : job'[u] = job[u],
         UNCHANGED <<file, spoiled, current>>,
         Writes(t)' => TmpOk(job'[t], file[Tmp], spoiled) /\ file[current] # Whole
  PROVE  FileInv'
<1>1. \A u \in Tasks \ {t} : Copying(u)' \/ Renaming(u)' => Copying(u) \/ Renaming(u)
  BY DEF Copying, Renaming
<1>2. \A u \in Tasks : Copying(u)' \/ Renaming(u)' =>
                        TmpOk(job'[u], file[Tmp], spoiled) /\ file[current] # Whole
  BY <1>1, Zenon DEF FileInv, Writes
<1>3. ListedWhole' <=> ListedWhole
  BY DEF ListedWhole, Listed
<1> QED
  BY <1>2, <1>3 DEF FileInv

(* Removing a file, or a change of the temporary one, lists nothing new.   *)
LEMMA RemovedFile ==
  ASSUME FileInv, NEW f \in Builds \union {Tmp}, file' = Removed(f), spoiled' = spoiled
  PROVE  /\ file' \in [Builds \union {Tmp} -> Contents]
         /\ spoiled' \subseteq Builds \union {Tmp}
         /\ ListedWhole'
         /\ \A g \in Builds \union {Tmp} : g # f => file'[g] = file[g]
         /\ card => file'[f] = NoFile
         /\ ~card => file'[f] = file[f]
BY DEF FileInv, Removed, ListedWhole, Listed, Contents

LEMMA TmpFile ==
  ASSUME FileInv, NEW s \in Contents, file' = [file EXCEPT ![Tmp] = s],
         spoiled' \in {spoiled, spoiled \ {Tmp}}
  PROVE  /\ file' \in [Builds \union {Tmp} -> Contents]
         /\ spoiled' \subseteq Builds \union {Tmp}
         /\ ListedWhole'
         /\ \A v \in Builds : file'[v] = file[v]
         /\ file'[Tmp] = s
BY TmpApart DEF FileInv, ListedWhole, Listed

LEMMA ReturnFile ==
  ASSUME JobInv, FileInv, NEW t \in Tasks, SaveReturns(t), current' = current
  PROVE  /\ UNCHANGED <<file, spoiled>> => FileInv'
         /\ file' = Removed(Tmp) /\ spoiled' = spoiled
            /\ (\A u \in Tasks \ {t} : ~Copying(u) /\ ~Renaming(u)) => FileInv'
<1>1. job'[t].pc \in {"done", "confirm"} /\ \A u \in Tasks \ {t} : job'[u] = job[u]
  BY Returns
<1>2. ~Writes(t)'
  BY <1>1 DEF Writes, Copying, Renaming
<1>3. ASSUME UNCHANGED <<file, spoiled>> PROVE FileInv'
  BY <1>1, <1>2, <1>3, KeepsFile
<1>4. ASSUME file' = Removed(Tmp), spoiled' = spoiled,
             \A u \in Tasks \ {t} : ~Copying(u) /\ ~Renaming(u)
      PROVE  FileInv'
  BY <1>1, <1>2, <1>4, RemovedFile, AloneFile
<1> QED
  BY <1>3, <1>4

(* The steps of a save, one by one.                                        *)
LEMMA BeginsFile ==
  ASSUME JobInv, LockInv, CopyInv, DeviceInv, FileInv, NEW t \in Tasks, SaveBegins(t)
  PROVE  FileInv'
<1>1. /\ job[t].pc = "begin" /\ ~copyBusy /\ ~Archived /\ card /\ current' = current
      /\ file' = [file EXCEPT ![Tmp] = << >>] /\ spoiled' = spoiled \ {Tmp}
  BY DEF SaveBegins, At, device
<1>2. /\ job'[t].pc = "copy" /\ job'[t].off = 0
      /\ \A u \in Tasks \ {t} : job'[u] = job[u]
  BY <1>1, Goes DEF SaveBegins, JobInv, JobOk
<1>3. \A u \in Tasks \ {t} : ~Copying(u) /\ ~Renaming(u)
  BY <1>1 DEF LockInv, CopyInv, Renaming, Uses, Deep
<1>4. << >> \in Contents
  BY NothingWritten, WrittenContents
<1>5. file[current] # Whole
  BY <1>1, WholePrefix DEF Archived
<1>6. TmpOk(job'[t], file'[Tmp], spoiled')
  BY <1>1, <1>2, <1>4, TmpFile, NothingWritten DEF TmpOk
<1>7. current' \in Builds /\ file'[current'] # Whole
  BY <1>1, <1>4, <1>5, TmpFile DEF DeviceInv
<1> QED
  BY <1>1, <1>2, <1>3, <1>4, <1>6, <1>7, TmpFile, AloneFile

LEMMA SegmentFile ==
  ASSUME JobInv, LockInv, CopyInv, DeviceInv, FileInv, NEW t \in Tasks, Segment(t)
  PROVE  FileInv'
<1> DEFINE n == job[t].off + 1
<1>1. /\ job[t].pc = "copy" /\ job'[t].off = n
      /\ job'[t].pc = IF n = Segments THEN "swap" ELSE IF borrow = 0 THEN "gap" ELSE "copy"
      /\ \A u \in Tasks \ {t} : job'[u] = job[u]
  BY SegmentJob
<1>2. /\ current' = current /\ spoiled' = spoiled
      /\ file' = [file EXCEPT ![Tmp] = Append(file[Tmp], n)]
  BY DEF Segment, device, FileInv
<1>3. job[t].off \in Nat /\ job[t].off < Segments /\ n \in 0 .. Segments
  BY <1>1 DEF JobInv, JobOk, Job
<1>4. /\ TmpOk(job[t], file[Tmp], spoiled) /\ file[current] # Whole
      /\ \A u \in Tasks \ {t} : ~Copying(u) /\ ~Renaming(u)
  BY <1>1, OneWriter DEF FileInv, Copying
<1>5. file[Tmp] \in Written(job[t].off) /\ (Tmp \notin spoiled => file[Tmp] = Prefix(job[t].off))
  BY <1>1, <1>4 DEF TmpOk
<1>6. /\ Append(file[Tmp], n) \in Written(n)
      /\ Tmp \notin spoiled => Append(file[Tmp], n) = Prefix(n)
  BY <1>3, <1>5, OneMore
<1>7. Append(file[Tmp], n) \in Contents
  BY <1>3, <1>6, WrittenContents
<1>8. TmpOk(job'[t], file'[Tmp], spoiled')
  <2>1. file'[Tmp] = Append(file[Tmp], n)
    BY <1>2, <1>7, TmpFile
  <2>2. CASE n = Segments
    BY <1>1, <1>2, <1>6, <2>1, <2>2, WholePrefix DEF TmpOk
  <2>3. CASE n # Segments
    <3> HIDE DEF n
    <3>1. job'[t].pc \in {"gap", "copy"} /\ job'[t].off = n
      BY <1>1, <2>3
    <3>2. file'[Tmp] \in Written(job'[t].off)
      BY <1>6, <2>1, <3>1
    <3>3. Tmp \notin spoiled' => file'[Tmp] = Prefix(job'[t].off)
      BY <1>2, <1>6, <2>1, <3>1
    <3> QED
      BY <3>1, <3>2, <3>3 DEF TmpOk
  <2> QED
    BY <2>2, <2>3
<1>9. file'[current'] # Whole
  BY <1>2, <1>4, <1>7, TmpFile DEF DeviceInv
<1> QED
  BY <1>1, <1>2, <1>4, <1>7, <1>8, <1>9, TmpFile, AloneFile

LEMMA ResumesFile ==
  ASSUME JobInv, LockInv, CopyInv, DeviceInv, FileInv, NEW t \in Tasks, SaveResumes(t)
  PROVE  FileInv'
<1> DEFINE s == IF file[Tmp] = NoFile THEN << >> ELSE file[Tmp]
<1>1. /\ job[t].pc = "gap" /\ current' = current /\ spoiled' = spoiled
      /\ file' = [file EXCEPT ![Tmp] = s]
  BY DEF SaveResumes, At, device, FileInv
<1>2. /\ job'[t].pc = "copy" /\ job'[t].off = job[t].off
      /\ \A u \in Tasks \ {t} : job'[u] = job[u]
  BY Goes DEF SaveResumes
<1>3. job[t].off \in 0 .. Segments /\ job[t].off \in Nat
  BY DEF JobInv, Job
<1>4. /\ TmpOk(job[t], file[Tmp], spoiled) /\ file[current] # Whole
      /\ \A u \in Tasks \ {t} : ~Copying(u) /\ ~Renaming(u)
  BY <1>1, OneWriter DEF FileInv, Copying
<1>5. << >> \in Written(job[t].off)
  BY <1>3 DEF Written
<1>6. s \in Written(job[t].off) /\ (Tmp \notin spoiled => s = Prefix(job[t].off))
  BY <1>1, <1>3, <1>4, <1>5, NoFileUnwritten DEF TmpOk
<1> HIDE DEF s
<1>7. s \in Contents
  BY <1>3, <1>6, WrittenContents
<1>8. TmpOk(job'[t], file'[Tmp], spoiled')
  BY <1>1, <1>2, <1>6, <1>7, TmpFile DEF TmpOk
<1>9. file'[current'] # Whole
  BY <1>1, <1>4, <1>7, TmpFile DEF DeviceInv
<1> QED
  BY <1>1, <1>2, <1>4, <1>7, <1>8, <1>9, TmpFile, AloneFile

LEMMA SwapsFile ==
  ASSUME JobInv, LockInv, CopyInv, DeviceInv, FileInv, NEW t \in Tasks, SaveSwaps(t)
  PROVE  FileInv'
<1>1. /\ job[t].pc = "swap" /\ current' = current /\ spoiled' = spoiled
      /\ file' = Removed(current)
  BY DEF SaveSwaps, At, device
<1>2. /\ job'[t].pc = "rename" /\ \A u \in Tasks \ {t} : job'[u] = job[u]
  BY Goes DEF SaveSwaps
<1>3. /\ TmpOk(job[t], file[Tmp], spoiled) /\ file[current] # Whole
      /\ \A u \in Tasks \ {t} : ~Copying(u) /\ ~Renaming(u)
  BY <1>1, OneWriter DEF FileInv, Renaming
<1>4. file'[Tmp] = file[Tmp] /\ file'[current] # Whole
  <2>1. current \in Builds /\ Tmp # current
    BY TmpApart DEF DeviceInv
  <2>2. /\ \A g \in Builds \union {Tmp} : g # current => file'[g] = file[g]
        /\ card => file'[current] = NoFile
        /\ ~card => file'[current] = file[current]
    BY <1>1, <2>1, RemovedFile
  <2> QED
    BY <1>3, <2>1, <2>2, WholePrefix
<1>5. TmpOk(job'[t], file'[Tmp], spoiled')
  BY <1>1, <1>2, <1>3, <1>4 DEF TmpOk
<1> QED
  BY <1>1, <1>2, <1>3, <1>4, <1>5, RemovedFile, AloneFile DEF DeviceInv

LEMMA RenamesFile ==
  ASSUME JobInv, LockInv, CopyInv, DeviceInv, FileInv, NEW t \in Tasks, SaveRenames(t)
  PROVE  FileInv'
<1>1. /\ job[t].pc = "rename" /\ current' = current /\ current \in Builds
      /\ file' = [file EXCEPT ![current] = file[Tmp], ![Tmp] = NoFile]
      /\ spoiled' = IF Tmp \in spoiled THEN (spoiled \union {current}) \ {Tmp}
                                        ELSE spoiled \ {current}
  BY DEF SaveRenames, At, device, DeviceInv
<1>2. /\ job'[t].pc = "prune" /\ \A u \in Tasks \ {t} : job'[u] = job[u]
  BY Goes DEF SaveRenames
<1>3. /\ Tmp \notin spoiled => file[Tmp] = Whole
      /\ \A u \in Tasks \ {t} : ~Copying(u) /\ ~Renaming(u)
  BY <1>1, OneWriter DEF FileInv, Renaming, TmpOk
<1>4. file' \in [Builds \union {Tmp} -> Contents] /\ spoiled' \subseteq Builds \union {Tmp}
  BY <1>1 DEF FileInv, Contents
<1>5. ListedWhole'
  BY <1>1, <1>3, TmpApart DEF FileInv, ListedWhole, Listed
<1>6. ~Writes(t)'
  BY <1>2 DEF Writes, Copying, Renaming
<1> QED
  BY <1>2, <1>3, <1>4, <1>5, <1>6, AloneFile

LEMMA PrunesFile ==
  ASSUME JobInv, DeviceInv, FileInv, NEW t \in Tasks, SavePrunes(t)
  PROVE  FileInv'
<1>1. /\ current' = current /\ spoiled' = spoiled
      /\ file' \in [Builds \union {Tmp} -> Contents]
      /\ \A v \in Builds : file'[v] \in {NoFile, file[v]}
      /\ file'[Tmp] = file[Tmp]
  BY TmpApart DEF SavePrunes, device, FileInv, Contents
<1>2. /\ job'[t].pc \in {"done", "confirm"} /\ \A u \in Tasks \ {t} : job'[u] = job[u]
  BY Returns DEF SavePrunes
<1>3. ListedWhole'
  BY <1>1 DEF FileInv, ListedWhole, Listed
<1>4. \A u \in Tasks : Copying(u)' \/ Renaming(u)' =>
        (Copying(u) \/ Renaming(u)) /\ job'[u] = job[u]
  BY <1>2 DEF Copying, Renaming
<1>5. file[current] # Whole => file'[current'] # Whole
  BY <1>1, WholePrefix DEF DeviceInv
<1>6. \A u \in Tasks : Copying(u)' \/ Renaming(u)' =>
        TmpOk(job'[u], file'[Tmp], spoiled') /\ file'[current'] # Whole
  BY <1>1, <1>4, <1>5, Zenon DEF FileInv
<1> QED
  BY <1>1, <1>3, <1>6 DEF FileInv
LEMMA SaveFile ==
  ASSUME JobInv, LockInv, CopyInv, DeviceInv, FileInv, NEW t \in Tasks, Save(t)
  PROVE  FileInv'
<1> USE DEF At
<1>1. current' = current
  BY SaveDevice DEF device
<1>2. CASE SaveMount(t)
  <2>1. /\ job'[t].pc = "begin" /\ \A u \in Tasks \ {t} : job'[u] = job[u]
        /\ UNCHANGED <<file, spoiled>>
    BY <1>2, Goes DEF SaveMount
  <2> QED
    BY <1>1, <2>1, KeepsFile DEF Writes, Copying, Renaming
<1>3. CASE SaveMountFails(t) \/ SaveSkips(t)
  BY <1>1, <1>3, ReturnFile DEF SaveMountFails, SaveSkips
<1>4. CASE SaveCannotOpen(t)
  <2>1. \A u \in Tasks \ {t} : ~Copying(u) /\ ~Renaming(u)
    BY <1>4 DEF SaveCannotOpen, LockInv, CopyInv, Renaming, Uses, Deep
  <2> QED
    BY <1>1, <1>4, <2>1, ReturnFile DEF SaveCannotOpen
<1>5. CASE SegmentFails(t) \/ SaveCannotRename(t)
  <2>1. \A u \in Tasks \ {t} : ~Copying(u) /\ ~Renaming(u)
    BY <1>5, OneWriter DEF SegmentFails, SaveCannotRename, Copying, Renaming
  <2> QED
    BY <1>1, <1>5, <2>1, ReturnFile DEF SegmentFails, SaveCannotRename
<1> QED
  BY <1>2, <1>3, <1>4, <1>5, BeginsFile, SegmentFile, ResumesFile, SwapsFile, RenamesFile,
     PrunesFile DEF Save

(* The user's hands: a card that is exchanged or formatted under a copy    *)
(* has none of its segments, and the copy is counted as spoiled.           *)
LEMMA CardFile ==
  ASSUME LockInv, CopyInv, DeviceInv, FileInv, NEW e \in CardEvents, CardEvent(e)
  PROVE  FileInv'
<1>1. UNCHANGED <<job, current>>
  BY DEF CardEvent, device
<1>2. CASE e \in {"out", "in"}
  <2>1. UNCHANGED <<file, spoiled>>
    BY <1>2 DEF CardEvent
  <2> QED
    BY <1>1, <2>1 DEF FileInv, Copying, Renaming, TmpOk, ListedWhole, Listed
<1>3. CASE e \in {"other", "format"}
  <2>1. /\ mount = NoTask /\ file' = Empty
        /\ spoiled' = IF copyBusy THEN {Tmp} ELSE {}
    BY <1>3 DEF CardEvent
  <2>2. \A t \in Tasks : ~Deep(t)
    BY <2>1 DEF LockInv, Held, Uses, Bus, Deep, Unused
  <2>3. \A t \in Tasks : Copying(t) \/ Renaming(t) =>
                          job[t].pc = "gap" /\ Tmp \in spoiled'
    BY <2>1, <2>2 DEF Deep, Copying, Renaming, CopyInv
  <2>4. /\ file' \in [Builds \union {Tmp} -> Contents]
        /\ \A f \in Builds \union {Tmp} : file'[f] = NoFile
        /\ spoiled' \subseteq Builds \union {Tmp}
    BY <2>1 DEF Empty, Contents
  <2>5. \A t \in Tasks : (Copying(t) \/ Renaming(t))' =>
                          TmpOk(job'[t], file'[Tmp], spoiled') /\ file'[current'] # Whole
    BY <1>1, <2>3, <2>4, WholePrefix DEF TmpOk, Copying, Renaming, DeviceInv
  <2>6. ListedWhole'
    BY <2>4 DEF ListedWhole, Listed
  <2> QED
    BY <2>4, <2>5, <2>6 DEF FileInv
<1> QED
  BY <1>2, <1>3 DEF CardEventNames

LEMMA ResetFile ==
  ASSUME FileInv, Reset
  PROVE  FileInv'
<1>1. \A t \in Tasks : ~Copying(t)' /\ ~Renaming(t)'
  BY DEF Reset, Copying, Renaming, Idle
<1>2. /\ file' \in [Builds \union {Tmp} -> Contents] /\ spoiled' = spoiled \ {Tmp}
      /\ \A v \in Builds : file'[v] = file[v]
  BY TmpApart DEF Reset, FileInv, Contents
<1>3. ListedWhole'
  BY <1>2, TmpApart DEF FileInv, ListedWhole, Listed
<1> QED
  BY <1>1, <1>2, <1>3 DEF FileInv

LEMMA FileStep ==
  JobInv /\ LockInv /\ CopyInv /\ DeviceInv /\ FileInv /\ [Next]_vars => FileInv'
<1> SUFFICES ASSUME JobInv, LockInv, CopyInv, DeviceInv, FileInv, [Next]_vars PROVE FileInv'
  OBVIOUS
<1> USE DEF At
<1>1. ASSUME NEW t \in Tasks, \A u \in Tasks \ {t} : job'[u] = job[u],
             UNCHANGED <<file, spoiled, current>>,
             job'[t].pc \in {"mount", "open", "write", "close", "leave", "idle", "bus"}
      PROVE  FileInv'
  BY <1>1, KeepsFile DEF Writes, Copying, Renaming
<1>2. ASSUME NEW t \in Tasks, NEW op, NEW p \in {"mount", "open", "bus"},
             job' = [job EXCEPT ![t] = [Idle EXCEPT !.op = op, !.pc = p]],
             UNCHANGED <<file, spoiled, current>>
      PROVE  FileInv'
  <2> DEFINE r == [Idle EXCEPT !.op = op, !.pc = p]
  <2>1. r.pc = p
    BY DEF Idle
  <2>2. job' = [job EXCEPT ![t] = r]
    BY <1>2
  <2> HIDE DEF r
  <2>3. job'[t] = r /\ \A u \in Tasks \ {t} : job'[u] = job[u]
    BY <2>2, OthersUntouched
  <2> QED
    BY <1>1, <1>2, <2>1, <2>3
<1>3. CASE BootSave
  BY <1>2, <1>3 DEF BootSave, device
<1>4. CASE UpdateBegins("httpd", "upload") \/ UpdateBegins("online", "online")
  BY <1>2, <1>4 DEF UpdateBegins, device
<1>5. ASSUME NEW v \in Builds, RestoreBegins(v)
      PROVE  FileInv'
  <2> DEFINE r == [op |-> "restore", pc |-> "open", build |-> v, off |-> 0]
  <2>1. job' = [job EXCEPT !["httpd"] = r] /\ UNCHANGED <<file, spoiled, current>>
    BY <1>5 DEF RestoreBegins, device
  <2>2. job'["httpd"] = r /\ \A u \in Tasks \ {"httpd"} : job'[u] = job[u]
    BY <2>1, OthersUntouched
  <2> QED
    BY <1>1, <2>1, <2>2
<1>6. CASE CheckBegins
  BY <1>2, <1>6 DEF CheckBegins, device
<1>7. CASE GnssPolls
  BY <1>2, <1>7 DEF GnssPolls, device
<1>8. ASSUME NEW t \in Tasks, Over(t), UNCHANGED <<file, spoiled, current>>
      PROVE  FileInv'
  BY <1>1, <1>8, Ends DEF Idle
<1>9. CASE NoServer \/ GnssGives
  BY <1>8, <1>9 DEF NoServer, GnssGives, device
<1>10. ASSUME NEW t \in Tasks, Install(t)
       PROVE  FileInv'
  <2>1. CASE Leave(t)
    BY <2>1, ResetFile DEF Leave
  <2>2. CASE ~Leave(t)
    <3>1. UNCHANGED <<file, spoiled, current>>
      BY <1>10, <2>2, InstallDevice
      DEF Install, OpenImage, NoImage, MarkValid, WriteImage, WriteFails, CloseImage
    <3>2. CASE NoImage(t) \/ WriteFails(t)
      BY <1>8, <3>1, <3>2 DEF NoImage, WriteFails
    <3>3. CASE OpenImage(t) \/ MarkValid(t) \/ WriteImage(t) \/ CloseImage(t)
      <4>1. PICK p \in {"mount", "write", "close", "leave"} : Goto(t, p)
        BY <3>3 DEF OpenImage, MarkValid, WriteImage, CloseImage
      <4> QED
        BY <1>1, <3>1, <4>1, Goes
    <3> QED
      BY <1>10, <2>2, <3>2, <3>3 DEF Install
  <2> QED
    BY <2>1, <2>2
<1>11. CASE MonitorConfirms \/ UNCHANGED vars
  <2>1. UNCHANGED <<job, file, spoiled, current>>
    BY <1>11 DEF MonitorConfirms, Device!Confirm, vars, device
  <2> QED
    BY <2>1 DEF FileInv, Copying, Renaming, TmpOk, ListedWhole, Listed
<1>12. CASE UserTouchesCard
  BY <1>12, CardFile DEF UserTouchesCard
<1>13. ASSUME NEW t \in Tasks, Save(t)
       PROVE  FileInv'
  BY <1>13, SaveFile
<1> QED
  BY <1>3, <1>4, <1>5, <1>6, <1>7, <1>9, <1>10, <1>11, <1>12, <1>13, ResetFile
  DEF Next, Request, PowerLoss

-----------------------------------------------------------------------------
ArchiveInv == JobInv /\ LockInv /\ CopyInv /\ DeviceInv /\ FileInv

LEMMA InitArchive == Init => ArchiveInv
<1> SUFFICES ASSUME Init PROVE ArchiveInv
  OBVIOUS
<1>1. \A t \in Tasks : job[t] = Idle
  BY DEF Init
<1>2. JobInv
  BY <1>1 DEF Init, JobInv, JobOk, Job, Idle, Steps, NoBuild
<1>3. LockInv
  BY <1>1 DEF Init, SdInit, LockInv, Unused, Uses, Own, Deep, Bus, Idle
<1>4. CopyInv
  BY <1>1 DEF Init, CopyInv, Copying, Renaming, Idle
<1>5. DeviceInv
  BY DEF Init, Device!Init, DeviceInv, NoBuild
<1>6. FileInv
  BY <1>1 DEF Init, FileInv, Empty, Contents, ListedWhole, Listed, Copying, Renaming, Idle
<1> QED
  BY <1>2, <1>3, <1>4, <1>5, <1>6 DEF ArchiveInv

(* The invariant behind the theorems: who has the lock, what the flag of   *)
(* the copy says and what is in the temporary file, from what the tasks    *)
(* are doing (fw_archive.c).                                               *)
THEOREM ArchiveInvariant == Spec => []ArchiveInv
<1>1. ArchiveInv /\ [Next]_vars => ArchiveInv'
  BY JobStep, LockStep, CopyStep, DeviceStep, FileStep DEF ArchiveInv
<1> QED
  BY InitArchive, <1>1, PTL DEF Spec

(* No path of a copy, a restore or a check leaves the lock taken or given  *)
(* once too often, the receiver is not spoken to while a card is mounted,  *)
(* and one task copies at a time.                                          *)
THEOREM CardSharedHolds == Spec => []CardShared
<1> SUFFICES ArchiveInv => CardShared
  BY ArchiveInvariant, PTL
<1> SUFFICES ASSUME ArchiveInv PROVE CardShared
  OBVIOUS
<1> USE DEF ArchiveInv
<1>1. \A t \in Tasks : Own(t) => t # "gnss" /\ ~Bus(t)
  BY DEF JobInv, JobOk, Own, Bus
<1>2. LockBalanced
  BY <1>1 DEF LockInv, LockBalanced, Holds, Held, Uses, Own, Deep, Bus, Free, At
<1>3. GnssApart
  BY DEF LockInv, Held, Unused, GnssApart, At, Uses, Bus
<1>4. OneCopy
  <2> DEFINE C == {t \in Tasks : job[t].pc \in {"copy", "gap"}}
  <2>1. CASE copyBusy
    <3>1. PICK t \in Tasks : C = {t}
      BY <2>1 DEF CopyInv, Copying
    <3> QED
      BY <2>1, <3>1, FS_Singleton DEF OneCopy
  <2>2. CASE ~copyBusy
    <3>1. C = {}
      BY <2>2 DEF CopyInv, Copying
    <3> QED
      BY <2>2, <3>1, FS_EmptySet DEF OneCopy
  <2> QED
    BY <2>1, <2>2
<1>5. TypeOK
  <2>1. SdTypes /\ lock.depth <= 2
    BY DEF LockInv, Held, Unused, SdTypes, Free
  <2>2. borrow \in 0 .. 1 /\ {archMounted, copyBusy} \subseteq BOOLEAN
    BY DEF LockInv, Held, Unused, CopyInv
  <2>3. busy \in BOOLEAN
    BY DEF DeviceInv
  <2> QED
    BY <2>1, <2>2, <2>3 DEF TypeOK, JobInv, Job, DeviceInv, FileInv
<1> QED
  BY <1>2, <1>3, <1>4, <1>5 DEF CardShared

(* A listed version is complete, wherever power, card or write failed      *)
(* (fw_archive.c).                                                         *)
THEOREM ListedWholeHolds == Spec => []ListedWhole
BY ArchiveInvariant, PTL DEF ArchiveInv, FileInv
(* Who takes a complete version away: the prune, when enough newer ones    *)
(* are there, or the user, with all of them.                               *)
LEMMA NewestStep ==
  ASSUME IsFiniteSet(Builds), ArchiveInv, Next, NEW v \in Builds,
         file[v] = Whole, file'[v] # Whole
  PROVE  Cardinality(Newer(v)) >= KeepVersions \/ file' = Empty
<1> USE DEF ArchiveInv
<1>1. v # Tmp /\ v \in DOMAIN file
  BY TmpApart DEF FileInv
<1>2. ASSUME NEW t \in Tasks, SavePrunes(t)
      PROVE  Cardinality(Newer(v)) >= KeepVersions
  <2>1. ~Kept(v)
    BY <1>1, <1>2 DEF SavePrunes
  <2>2. Cardinality(Newer(v)) \in Nat
    BY FS_Subset, FS_CardinalityType DEF Newer
  <2> QED
    BY <2>1, <2>2 DEF Kept, KeepVersions
<1>3. ASSUME NEW t \in Tasks, SaveSwaps(t) \/ SaveRenames(t)
      PROVE  FALSE
  <2>1. file[current] # Whole
    BY <1>3 DEF SaveSwaps, SaveRenames, At, FileInv, Renaming
  <2> QED
    BY <1>1, <1>3, <2>1 DEF SaveSwaps, SaveRenames, Removed
<1>4. ASSUME NEW t \in Tasks, Save(t), ~SavePrunes(t)
      PROVE  FALSE
  <2>1. CASE SaveMount(t) \/ SaveMountFails(t) \/ SaveSkips(t)
    BY <2>1 DEF SaveMount, SaveMountFails, SaveSkips
  <2>2. CASE SaveBegins(t) \/ Segment(t) \/ SaveResumes(t)
    BY <1>1, <2>2 DEF SaveBegins, Segment, SaveResumes
  <2>3. CASE SaveCannotOpen(t) \/ SegmentFails(t) \/ SaveCannotRename(t)
    BY <1>1, <2>3 DEF SaveCannotOpen, SegmentFails, SaveCannotRename, Removed
  <2> QED
    BY <1>3, <1>4, <2>1, <2>2, <2>3 DEF Save
<1>5. Reset => FALSE
  BY <1>1 DEF Reset
<1>6. ASSUME NEW t \in Tasks, Install(t)
      PROVE  FALSE
  BY <1>5, <1>6 DEF Install, OpenImage, NoImage, MarkValid, WriteImage, WriteFails, CloseImage,
                    Leave
<1>7. Request \/ NoServer \/ MonitorConfirms \/ GnssPolls \/ GnssGives => FALSE
  BY DEF Request, BootSave, UpdateBegins, RestoreBegins, CheckBegins, NoServer,
         MonitorConfirms, GnssPolls, GnssGives
<1>8. UserTouchesCard => file' = Empty
  BY DEF UserTouchesCard, CardEvent
<1> QED
  BY <1>2, <1>4, <1>5, <1>6, <1>7, <1>8 DEF Next, PowerLoss

(* Nothing but the user takes a complete version out of the archive while  *)
(* there are not KEEP_VERSIONS newer ones (fw_archive.c).                  *)
THEOREM KeepsNewestHolds == IsFiniteSet(Builds) /\ Spec => KeepsNewest
<1> SUFFICES ASSUME IsFiniteSet(Builds) PROVE Spec => KeepsNewest
  OBVIOUS
<1>1. ArchiveInv /\ [Next]_vars =>
        [\A v \in Builds :
           file[v] = Whole /\ file'[v] # Whole =>
              \/ Cardinality(Newer(v)) >= KeepVersions
              \/ file' = Empty]_vars
  BY NewestStep
<1> QED
  BY <1>1, ArchiveInvariant, PTL DEF Spec, KeepsNewest
==============================================================================
