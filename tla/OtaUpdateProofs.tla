--------------------------- MODULE OtaUpdateProofs ---------------------------
(***************************************************************************)
(* Proofs about OtaUpdate and its history, for every set of builds, of     *)
(* installing tasks and of network states: the types; that a reset or a    *)
(* power loss at any instant finds a complete firmware to start; that the  *)
(* update implements FirmwareTrial; and what is remembered of a rollback   *)
(* and of the network before an update.                                    *)
(***************************************************************************)
EXTENDS OtaHistory, TLAPS

USE BuildsAssumption, ActorsAssumption, LinksAssumption

(* Every variable keeps its type, at every step: one lemma per group of    *)
(* variables, one case per action that writes it.                          *)
LEMMA InitTypes == Init => TypeOK
<1> SUFFICES ASSUME Init PROVE TypeOK
  OBVIOUS
<1> USE DEF Init, Maybe, Slots
<1>1. FlashTypes
  BY DEF FlashTypes, SlotState
<1>2. NvsTypes
  BY DEF NvsTypes, NoKey
<1>3. FlagTypes
  BY DEF FlagTypes
<1>4. TaskTypes
  <2>1. Idle \in [pc : Steps, build : Maybe(Builds)]
    BY DEF Idle, Steps
  <2>2. job \in [Actors -> [pc : Steps, build : Maybe(Builds)]]
    BY <2>1
  <2> QED
    BY <2>2 DEF TaskTypes, Stages
<1> QED
  BY <1>1, <1>2, <1>3, <1>4 DEF TypeOK

(* NVS, written by the notes of an installation and of the boot check, and *)
(* by the microSD check.                                                   *)
LEMMA NvsStep == TypeOK /\ [Next]_vars => NvsTypes'
<1> SUFFICES ASSUME TypeOK, [Next]_vars PROVE NvsTypes'
  OBVIOUS
<1> USE DEF NvsTypes, TypeOK, Maybe
<1>1. CASE UNCHANGED nvs
  BY <1>1
<1>2. CASE CheckRollback
  <2>1. CASE UNCHANGED nvs
    BY <2>1
  <2>2. CASE ~ UNCHANGED nvs
    <3>1. PICK s \in Slots : nvs' = [nvs EXCEPT !.seen = <<s, img[s]>>]
      BY <1>2, <2>2 DEF CheckRollback
    <3>2. <<s, img[s]>> \in Slots \X Maybe(Builds)
      BY DEF FlashTypes
    <3> QED
      BY <3>1, <3>2
  <2> QED
    BY <2>1, <2>2
<1>12. CASE RecordBad
  <2> DEFINE version == IF nvs.seen[2] \in Numbered THEN nvs.seen[2] ELSE nvs.try
  <2>1. nvs' = [nvs EXCEPT !.bad = IF version = NoBuild THEN @ ELSE version]
    BY <1>12 DEF RecordBad
  <2>2. version \in Maybe(Builds)
    OBVIOUS
  <2> HIDE DEF version
  <2> QED
    BY <2>1, <2>2
<1>3. CASE StartConfirm
  BY <1>3 DEF StartConfirm
<1>4. CASE MarkValid
  BY <1>4 DEF MarkValid
<1>5. CASE \E b \in Builds : AutoFound(b)
  BY <1>5 DEF AutoFound
<1>6. CASE \E a \in Actors : NoteNet(a) \/ NoteInstalled(a)
  <2>1. CASE \E a \in Actors : NoteNet(a)
    <3>1. PICK up \in {"down", "up"} : nvs' = [nvs EXCEPT !.netb = up]
      BY <2>1 DEF NoteNet
    <3> QED
      BY <3>1
  <2>2. CASE \E a \in Actors : NoteInstalled(a)
    <3>1. NoKey \in Slots \X Maybe(Builds)
      BY DEF NoKey, Slots
    <3>2. nvs' = [nvs EXCEPT !.seen = NoKey]
      BY <2>2 DEF NoteInstalled
    <3> QED
      BY <3>1, <3>2
  <2> QED
    BY <1>6, <2>1, <2>2
<1>7. CASE SdNoteVersion
  BY <1>7 DEF SdNoteVersion, TaskTypes
<1>8. CASE Boot \/ Tick
  BY <1>8, <1>1, <1>2, <1>3, <1>4, <1>12
  DEF Boot, BootGoesOn, Tick, TickConfirms, TickGivesUp, TickWaits, Reset
<1>9. CASE Start
  BY <1>9, <1>1, <1>5
  DEF Start, HttpdStart, OnlineStart, SdStart, SdRefuse, AutoApply
<1>10. CASE \E a \in Actors : Apply(a)
  BY <1>10, <1>1, <1>4, <1>6
  DEF Apply, Confirm, EspOtaBegin, WriteHeader, EspOtaEnd, SetBootPartition, Fail, Leave
<1>11. CASE Crash \/ PowerLoss \/ SoftRestart
  BY <1>1, <1>11 DEF Crash, PowerLoss, SoftRestart, Reset
<1> QED
  BY <1>1, <1>4, <1>7, <1>8, <1>9, <1>10, <1>11
  DEF Next, TimePasses, UserRestart, NetChanges, InsertCard, vars

(* Both slots and otadata, written by the bootloader, the installation and *)
(* the confirmation.                                                       *)
LEMMA FlashStep == TypeOK /\ [Next]_vars => FlashTypes'
<1> SUFFICES ASSUME TypeOK, [Next]_vars PROVE FlashTypes'
  OBVIOUS
<1> USE DEF FlashTypes, TypeOK, Maybe, SlotState
<1>1. CASE UNCHANGED <<flash, running>>
  BY <1>1 DEF flash
<1>2. CASE Reset
  BY <1>2 DEF Reset, Bootloader, Other, Slots
<1>3. CASE MarkValid /\ UNCHANGED <<img, bootSlot, running>>
  BY <1>3 DEF MarkValid
<1>4. CASE \E a \in Actors : EspOtaBegin(a)
  <2>1. img' = [img EXCEPT ![Target] = NoBuild] /\ UNCHANGED <<st, bootSlot, running>>
    BY <1>4 DEF EspOtaBegin
  <2> QED
    BY <2>1
<1>5. CASE \E a \in Actors : WriteHeader(a)
  <2>1. PICK a \in Actors : WriteHeader(a)
    BY <1>5
  <2>2. job[a].build \in Maybe(Builds)
    BY DEF TaskTypes
  <2>3. img' = [img EXCEPT ![Target] = job[a].build] /\ UNCHANGED <<st, bootSlot, running>>
    BY <2>1 DEF WriteHeader
  <2> QED
    BY <2>2, <2>3
<1>6. CASE \E a \in Actors : EspOtaEnd(a)
  BY <1>6 DEF EspOtaEnd
<1>7. CASE \E a \in Actors : SetBootPartition(a)
  BY <1>7 DEF SetBootPartition, Target, Other, Slots
<1>8. CASE Boot \/ Tick
  BY <1>8, <1>1, <1>2, <1>3
  DEF Boot, CheckRollback, RecordBad, StartConfirm, BootGoesOn,
      Tick, TickConfirms, TickGivesUp, TickWaits
<1>9. CASE Start
  BY <1>9, <1>1
  DEF Start, HttpdStart, OnlineStart, AutoFound, SdStart, SdRefuse, AutoApply
<1>10. CASE \E a \in Actors : Apply(a)
  BY <1>10, <1>1, <1>3, <1>4, <1>5, <1>6, <1>7
  DEF Apply, Confirm, NoteNet, NoteInstalled, Fail, Leave
<1> QED
  BY <1>1, <1>2, <1>3, <1>8, <1>9, <1>10
  DEF Next, TimePasses, UserRestart, SdNoteVersion, Crash, PowerLoss, SoftRestart,
      NetChanges, InsertCard, vars

(* The lock and the flags of the trial.                                    *)
LEMMA FlagStep == TypeOK /\ [Next]_vars => FlagTypes'
<1> SUFFICES ASSUME TypeOK, [Next]_vars PROVE FlagTypes'
  OBVIOUS
<1> USE DEF FlagTypes, TypeOK
<1>1. CASE UNCHANGED <<whole, busy, pending, netBefore, netSeen, leaving, net>>
  BY <1>1
<1>2. CASE Reset
  BY <1>2 DEF Reset, env
<1>3. CASE StartConfirm
  BY <1>3 DEF StartConfirm, flash, env
<1>4. CASE TickConfirms
  BY <1>4 DEF TickConfirms, MarkValid, env
<1>5. CASE TickWaits
  BY <1>5 DEF TickWaits, flash, env
<1>6. CASE pending' = FALSE /\ leaving' = TRUE /\ netBefore' = FALSE
           /\ UNCHANGED <<whole, busy, netSeen, net>>
  BY <1>6
<1>7. CASE /\ busy' \in BOOLEAN
           /\ UNCHANGED <<whole, pending, netBefore, netSeen, leaving, net>>
  BY <1>7
<1>8. CASE \E a \in Actors : Confirm(a)
  BY <1>8 DEF Confirm, MarkValid, env
<1>9. CASE whole' \in [Slots -> BOOLEAN]
           /\ UNCHANGED <<busy, pending, netBefore, netSeen, leaving, net>>
  BY <1>9
<1>10. CASE NetChanges
  BY <1>10 DEF NetChanges, flash, trial
<1>11. CASE Boot \/ Tick
  BY <1>11, <1>1, <1>2, <1>3, <1>4, <1>5
  DEF Boot, CheckRollback, RecordBad, BootGoesOn, Tick, TickGivesUp, flash, trial, env
<1>12. CASE Start
  BY <1>12, <1>1, <1>7
  DEF Start, HttpdStart, OnlineStart, AutoFound, SdStart, SdRefuse, AutoApply,
      TryBegin, flash, trial, env
<1>13. CASE \E a \in Actors : Apply(a)
  BY <1>13, <1>1, <1>6, <1>7, <1>8, <1>9
  DEF Apply, EspOtaBegin, WriteHeader, EspOtaEnd, SetBootPartition, NoteNet, NoteInstalled,
      Fail, Leave, MarkValid, flash, trial, env
<1> QED
  BY <1>1, <1>2, <1>6, <1>10, <1>11, <1>12, <1>13
  DEF Next, TimePasses, UserRestart, MarkValid, SdNoteVersion, Crash, PowerLoss,
      SoftRestart, InsertCard, vars, flash, trial, env

(* The progress of the installing tasks.                                   *)
LEMMA JobStep ==
  TypeOK /\ [Next]_vars => job' \in [Actors -> [pc : Steps, build : Maybe(Builds)]]
<1> SUFFICES ASSUME TypeOK, [Next]_vars
             PROVE  job' \in [Actors -> [pc : Steps, build : Maybe(Builds)]]
  OBVIOUS
<1> USE DEF TaskTypes, TypeOK, Steps, Maybe
<1>0. Idle \in [pc : Steps, build : Maybe(Builds)]
  BY DEF Idle
<1>1. CASE UNCHANGED job
  BY <1>1
<1>2. CASE Reset
  BY <1>0, <1>2 DEF Reset
<1>3. CASE \E a \in Actors, b \in Builds : TryBegin(a, b)
  BY <1>3 DEF TryBegin
<1>4. CASE \E a \in Actors, pc \in Steps : Goto(a, pc)
  BY <1>4 DEF Goto
<1>5. CASE \E a \in Actors : Fail(a)
  BY <1>0, <1>5 DEF Fail
<1>6. CASE SdStart
  BY <1>6, <1>3 DEF SdStart, CardIsNewer
<1>7. CASE AutoApply
  BY <1>7, <1>1, <1>3 DEF AutoApply
<1>8. CASE Boot \/ Tick
  BY <1>8, <1>1, <1>2
  DEF Boot, CheckRollback, RecordBad, StartConfirm, BootGoesOn,
      Tick, TickConfirms, TickGivesUp, TickWaits
<1>9. CASE Start
  BY <1>9, <1>1, <1>3, <1>6, <1>7
  DEF Start, HttpdStart, OnlineStart, AutoFound, SdRefuse
<1>10. CASE \E a \in Actors : Apply(a)
  BY <1>10, <1>1, <1>4, <1>5
  DEF Apply, Confirm, EspOtaBegin, WriteHeader, EspOtaEnd, SetBootPartition,
      NoteNet, NoteInstalled, Leave
<1>11. CASE SdNoteVersion
  BY <1>11, <1>4 DEF SdNoteVersion
<1> QED
  BY <1>1, <1>2, <1>8, <1>9, <1>10, <1>11
  DEF Next, TimePasses, UserRestart, Crash, PowerLoss, SoftRestart,
      NetChanges, InsertCard, vars

(* The automatic update, the card, RTC memory, the boot and the clock.     *)
LEMMA OtherTasksStep ==
  TypeOK /\ [Next]_vars => /\ {auto, card}' \subseteq Maybe(Builds)
                          /\ rtcNet' \in {"lost", "down", "up"}
                          /\ stage' \in Stages
                          /\ age' \in 0 .. 3
<1> SUFFICES ASSUME TypeOK, [Next]_vars
             PROVE  /\ {auto, card}' \subseteq Maybe(Builds)
                    /\ rtcNet' \in {"lost", "down", "up"}
                    /\ stage' \in Stages
                    /\ age' \in 0 .. 3
  OBVIOUS
<1> USE DEF TaskTypes, TypeOK, Stages, Maybe
<1>1. CASE UNCHANGED <<auto, card, rtcNet, stage, age>>
  BY <1>1
<1>2. CASE Boot
  BY <1>1, <1>2 DEF Boot, CheckRollback, RecordBad, StartConfirm, BootGoesOn, trial, env
<1>7. CASE Reset /\ rtcNet' \in {"lost", rtcNet}
  BY <1>7 DEF Reset, env
<1>8. CASE TickConfirms \/ TickWaits
  <2>1. rtcNet' \in {"down", "up"}
    BY <1>8 DEF TickConfirms, TickWaits
  <2>2. UNCHANGED <<auto, card, stage, age>>
    BY <1>8 DEF TickConfirms, TickWaits, env
  <2> QED
    BY <2>1, <2>2
<1>9. CASE TickGivesUp \/ TimePasses \/ UserRestart
  BY <1>1, <1>7, <1>9 DEF TickGivesUp, TimePasses, UserRestart, env
<1>3. CASE Start
  BY <1>3
  DEF Start, HttpdStart, OnlineStart, AutoFound, SdStart, SdRefuse, AutoApply,
      CardIsNewer, trial, env
<1>4. CASE \E a \in Actors : Apply(a)
  BY <1>4, <1>1
  DEF Apply, Confirm, EspOtaBegin, WriteHeader, EspOtaEnd, SetBootPartition,
      NoteNet, NoteInstalled, Fail, Leave, trial, env
<1>5. CASE SdNoteVersion \/ NetChanges \/ \E b \in Maybe(Builds) : InsertCard(b)
  BY <1>5 DEF SdNoteVersion, NetChanges, InsertCard, trial
<1>6. CASE Crash \/ PowerLoss \/ SoftRestart
  BY <1>7, <1>6 DEF Crash, PowerLoss, SoftRestart
<1> QED
  BY <1>1, <1>2, <1>8, <1>9, <1>3, <1>4, <1>5, <1>6 DEF Next, Tick, vars, trial, env

(* Type correctness: slots, NVS strings, RTC flag and the progress of      *)
(* every installation only take the values the code gives them.            *)
THEOREM TypeCorrect == Spec => []TypeOK
<1>1. Init => TypeOK
  BY InitTypes
<1>2. TypeOK /\ [Next]_vars => TypeOK'
  <2> SUFFICES ASSUME TypeOK, [Next]_vars PROVE TypeOK'
    OBVIOUS
  <2>1. TaskTypes'
    BY JobStep, OtherTasksStep DEF TaskTypes
  <2> QED
    BY <2>1, NvsStep, FlashStep, FlagStep DEF TypeOK
<1> QED
  BY <1>1, <1>2, PTL DEF Spec

-----------------------------------------------------------------------------
(* The inductive invariant.  One lemma for the resets, one for each kind   *)
(* of step that touches the lock, the slots or the trial.                  *)

(* The first boot: the factory image in slot 0, nobody installing.         *)
LEMMA InitInv == Init => UpdateInv
<1> SUFFICES ASSUME Init PROVE UpdateInv
  OBVIOUS
<1> USE DEF Init
<1>1. \A a \in Actors : job[a] = Idle
  OBVIOUS
<1>2. LockInv /\ JobInv
  BY <1>1 DEF LockInv, JobInv, Idle, Installed
<1>3. SlotInv
  <2>1. \A s \in Slots : whole[s] => img[s] \in Builds
    <3>1. PICK b \in Builds : img = [s \in Slots |-> IF s = 0 THEN b ELSE NoBuild]
      OBVIOUS
    <3>2. \A s \in Slots : whole[s] => s = 0
      BY Zenon
    <3>3. \A s \in Slots : s = 0 => img[s] = b
      BY <3>1, Zenon
    <3> QED
      BY <3>2, <3>3, Zenon
  <2>2. whole[running] /\ bootSlot = running
    <3>1. 0 \in Slots /\ running = 0 /\ bootSlot = running
      BY DEF Slots
    <3> QED
      BY <3>1, Zenon
  <2>3. st[running] \in Settled /\ st[Target] \in Settled
    BY DEF Slots, Settled, Target, Other
  <2> QED
    BY <2>1, <2>2, <2>3 DEF SlotInv
<1>4. TrialInv
  BY DEF TrialInv, Slots
<1> QED
  BY <1>2, <1>3, <1>4 DEF UpdateInv

(* A step that leaves slots, lock and installations alone.                 *)
LEMMA QuietInv ==
  UpdateInv /\ UNCHANGED <<img, whole, st, bootSlot, running, job, busy>> => UpdateInv'
<1> SUFFICES ASSUME UpdateInv, UNCHANGED <<img, whole, st, bootSlot, running, job, busy>>
             PROVE  UpdateInv'
  OBVIOUS
<1> USE DEF UpdateInv
<1>1. LockInv'
  BY DEF LockInv
<1>2. SlotInv'
  BY DEF SlotInv, Target
<1>3. TrialInv'
  BY DEF TrialInv, Target
<1>4. JobInv'
  BY DEF JobInv, Target
<1> QED
  BY <1>1, <1>2, <1>3, <1>4

(* A reset at any instant: the bootloader finds the invariant's complete   *)
(* slot, whichever it selects.                                             *)
LEMMA ResetInv == TypeOK /\ UpdateInv /\ Reset => UpdateInv'
<1> SUFFICES ASSUME TypeOK, UpdateInv, Reset PROVE UpdateInv'
  OBVIOUS
<1> USE DEF Reset, Bootloader, UpdateInv, TypeOK, FlashTypes, Slots, Target, Other,
            Settled, Installed
<1>1. \A a \in Actors : job'[a] = Idle
  OBVIOUS
<1>2. LockInv' /\ JobInv'
  BY <1>1 DEF LockInv, JobInv, Idle
<1>3. CASE bootSlot = running
  <2>1. CASE st[running] = "PENDING"
    <3>1. /\ bootSlot' = 1 - running /\ running' = 1 - running
          /\ st'[running] = "ABORTED" /\ st'[1 - running] = st[1 - running]
      BY <1>3, <2>1 DEF TrialInv
    <3> QED
      BY <1>1, <1>2, <1>3, <2>1, <3>1 DEF SlotInv, TrialInv, Idle
  <2>2. CASE st[running] # "PENDING"
    <3>1. bootSlot' = running /\ running' = running /\ st' = st
      BY <1>3, <2>2 DEF SlotInv
    <3> QED
      BY <1>1, <1>2, <1>3, <2>2, <3>1 DEF SlotInv, TrialInv, Idle
  <2> QED
    BY <2>1, <2>2
<1>4. CASE bootSlot # running
  <2>1. /\ bootSlot = 1 - running /\ whole[bootSlot] /\ st[bootSlot] = "NEW"
        /\ st[running] \in Settled
    BY <1>4 DEF SlotInv, TrialInv, JobInv
  <2> QED
    BY <1>1, <1>2, <2>1 DEF SlotInv, TrialInv, Idle
<1> QED
  BY <1>3, <1>4

(* Confirming the running image.                                           *)
LEMMA MarkValidInv ==
  TypeOK /\ UpdateInv /\ MarkValid
    /\ UNCHANGED <<img, whole, bootSlot, running, job, busy>> => UpdateInv'
BY DEF MarkValid, TypeOK, FlashTypes, Slots, UpdateInv, LockInv, SlotInv, TrialInv,
       JobInv, Target, Other, Settled, Installed

(* Taking the lock.                                                        *)
LEMMA TryBeginInv ==
  ASSUME TypeOK, UpdateInv, NEW a \in Actors, NEW b \in Builds, TryBegin(a, b),
         UNCHANGED <<img, whole, st, bootSlot, running>>
  PROVE  UpdateInv'
<1> USE DEF TryBegin, UpdateInv, TypeOK, TaskTypes
<1>1. \A c \in Actors : job[c].pc = "idle"
  BY DEF LockInv
<1>2. /\ job'[a] = [pc |-> "locked", build |-> b]
      /\ \A c \in Actors \ {a} : job'[c] = job[c]
  OBVIOUS
<1>3. LockInv'
  BY <1>1, <1>2 DEF LockInv, Idle
<1>4. SlotInv'
  BY <1>1, <1>2 DEF SlotInv, Installed, Target
<1>5. TrialInv'
  BY <1>1, <1>2 DEF TrialInv, Target
<1>6. JobInv'
  BY <1>1, <1>2 DEF JobInv, Installed, Target
<1> QED
  BY <1>3, <1>4, <1>5, <1>6

(* What an installation may assume of itself: it alone holds the lock.     *)
LEMMA Alone ==
  ASSUME UpdateInv, NEW a \in Actors, job[a].pc # "idle"
  PROVE  /\ busy
         /\ job[a].build \in Builds
         /\ \A c \in Actors \ {a} : job[c] = Idle
BY DEF UpdateInv, LockInv

(* A step of installation a that moves on to pc.                           *)
LEMMA GotoLock ==
  ASSUME TypeOK, UpdateInv, NEW a \in Actors, job[a].pc # "idle",
         NEW pc \in Steps \ {"idle"}, Goto(a, pc), UNCHANGED busy
  PROVE  /\ LockInv'
         /\ job'[a].pc = pc /\ job'[a].build = job[a].build
         /\ \A c \in Actors \ {a} : job'[c] = Idle
<1> USE DEF Goto, TypeOK, TaskTypes
<1>1. /\ busy /\ job[a].build \in Builds
      /\ \A c \in Actors \ {a} : job[c] = Idle
  BY Alone
<1>2. /\ job'[a].pc = pc /\ job'[a].build = job[a].build
      /\ \A c \in Actors \ {a} : job'[c] = Idle
  BY <1>1
<1>3. LockInv'
  BY <1>1, <1>2 DEF LockInv, Idle
<1> QED
  BY <1>2, <1>3

(* The steps of an installation, up to the switch of the boot slot.        *)
LEMMA WritingInv ==
  ASSUME TypeOK, UpdateInv, NEW a \in Actors,
         EspOtaBegin(a) \/ WriteHeader(a) \/ EspOtaEnd(a)
  PROVE  UpdateInv'
<1> USE DEF EspOtaBegin, WriteHeader, EspOtaEnd, At, Steps
<1>1. /\ job[a].pc \in {"marked", "erased", "header"}
      /\ UNCHANGED <<st, bootSlot, running, busy>>
      /\ \E pc \in {"erased", "header", "verified"} : Goto(a, pc)
  OBVIOUS
<1>2. PICK pc \in {"erased", "header", "verified"} : Goto(a, pc)
  BY <1>1
<1>3. /\ LockInv'
      /\ job'[a].pc = pc
      /\ \A c \in Actors \ {a} : job'[c] = Idle
      /\ job[a].build \in Builds
      /\ \A c \in Actors \ {a} : job[c] = Idle
  BY <1>1, <1>2, GotoLock, Alone
<1>4. /\ bootSlot = running /\ st[running] # "PENDING"
      /\ UNCHANGED Target
  <2>1. \A c \in Actors : job[c].pc \notin Installed
    BY <1>1, <1>3 DEF Installed, Idle
  <2>2. bootSlot = running
    BY <2>1 DEF UpdateInv, SlotInv
  <2>3. st[running] # "PENDING"
    BY <1>1 DEF UpdateInv, TrialInv
  <2>4. UNCHANGED Target
    BY <1>1 DEF Target
  <2> QED
    BY <2>2, <2>3, <2>4
<1>5. SlotInv'
  <2>1. \A s \in Slots : whole'[s] => img'[s] \in Builds
    <3>1. CASE EspOtaBegin(a)
      BY <3>1 DEF UpdateInv, SlotInv, TypeOK, FlashTypes, FlagTypes
    <3>2. CASE WriteHeader(a)
      BY <1>3, <3>2 DEF UpdateInv, SlotInv, TypeOK, FlashTypes, FlagTypes
    <3>3. CASE EspOtaEnd(a)
      BY <1>3, <3>3 DEF UpdateInv, SlotInv, JobInv, TypeOK, FlashTypes, FlagTypes
    <3> QED
      BY <3>1, <3>2, <3>3
  <2>2. whole'[running']
    BY <1>4 DEF UpdateInv, SlotInv, TypeOK, FlashTypes, FlagTypes, Target, Other, Slots
  <2> QED
    BY <1>1, <1>4, <2>1, <2>2 DEF UpdateInv, SlotInv
<1>6. TrialInv'
  BY <1>1, <1>4 DEF TrialInv
<1>7. JobInv'
  <2>1. pc \in {"header", "verified"} => img'[Target] = job'[a].build
    <3>1. CASE EspOtaBegin(a)
      <4>1. job'[a].pc = "erased"
        BY <3>1, GotoLock
      <4> QED
        BY <1>3, <4>1
    <3>2. CASE WriteHeader(a)
      <4>1. job'[a].build = job[a].build
        BY <3>2, GotoLock
      <4>2. Target \in DOMAIN img
        BY DEF TypeOK, FlashTypes, Target, Other, Slots
      <4> QED
        BY <3>2, <4>1, <4>2 DEF TypeOK, FlashTypes
    <3>3. CASE EspOtaEnd(a)
      <4>1. job'[a].build = job[a].build
        BY <3>3, GotoLock
      <4> QED
        BY <3>3, <4>1 DEF UpdateInv, JobInv
    <3> QED
      BY <3>1, <3>2, <3>3
  <2>2. pc = "verified" => whole'[Target]
    <3>1. CASE EspOtaEnd(a)
      <4>1. Target \in DOMAIN whole
        BY DEF TypeOK, FlashTypes, FlagTypes, Target, Other, Slots
      <4> QED
        BY <3>1, <4>1 DEF TypeOK, FlagTypes
    <3>2. CASE ~ EspOtaEnd(a)
      <4>1. pc # "verified"
        BY <1>3, <3>2, GotoLock
      <4> QED
        BY <4>1
    <3> QED
      BY <3>1, <3>2
  <2> QED
    BY <1>3, <1>4, <2>1, <2>2 DEF JobInv, Installed, Idle
<1> QED
  BY <1>3, <1>5, <1>6, <1>7 DEF UpdateInv

(* The steps that only move an installation on: those after the switch,    *)
(* and giving up before it.                                                *)
LEMMA NotedInv ==
  ASSUME TypeOK, UpdateInv, NEW a \in Actors, job[a].pc \in {"bootset", "netnoted", "noted"},
         NEW pc \in {"netnoted", "noted", "sdnoted"}, Goto(a, pc),
         UNCHANGED <<img, whole, st, bootSlot, running, busy>>
  PROVE  UpdateInv'
<1>1. /\ LockInv'
      /\ job'[a].pc = pc /\ job'[a].build = job[a].build
      /\ \A c \in Actors \ {a} : job'[c] = Idle
  BY GotoLock DEF Steps
<1> USE DEF UpdateInv, Installed, Target
<1>2. SlotInv'
  BY <1>1 DEF SlotInv
<1>3. TrialInv'
  BY <1>1 DEF TrialInv
<1>4. JobInv'
  BY <1>1 DEF JobInv, Idle
<1> QED
  BY <1>1, <1>2, <1>3, <1>4

(* An installation that fails releases the lock and leaves the boot slot   *)
(* alone.                                                                  *)
LEMMA FailInv ==
  ASSUME TypeOK, UpdateInv, NEW a \in Actors, Fail(a)
  PROVE  UpdateInv'
<1> USE DEF Fail, flash, UpdateInv, Installed, Target
<1>1. \A c \in Actors \ {a} : job[c] = Idle
  BY Alone
<1>2. \A c \in Actors : job'[c] = Idle
  BY <1>1 DEF TypeOK, TaskTypes
<1>3. bootSlot = running
  BY <1>1 DEF SlotInv, Idle
<1>4. LockInv' /\ JobInv'
  BY <1>2 DEF LockInv, JobInv, Idle
<1>5. SlotInv'
  BY <1>3 DEF SlotInv
<1>6. TrialInv'
  BY <1>2 DEF TrialInv, Idle
<1> QED
  BY <1>4, <1>5, <1>6

(* The running image is confirmed before anything is erased.               *)
LEMMA ConfirmInv ==
  ASSUME TypeOK, UpdateInv, NEW a \in Actors, Confirm(a)
  PROVE  UpdateInv'
<1> USE DEF Confirm, At, UpdateInv, Installed, Target
<1>1. /\ LockInv'
      /\ job'[a].pc = "marked"
      /\ \A c \in Actors \ {a} : job'[c] = Idle /\ job[c] = Idle
  BY GotoLock, Alone DEF Steps
<1>2. bootSlot = running
  BY <1>1 DEF SlotInv, Idle
<1>3. /\ st'[running] # "PENDING"
      /\ st'[running] \in Settled
      /\ st'[Other(running)] = st[Other(running)]
  BY DEF MarkValid, SlotInv, Settled, TypeOK, FlashTypes, Other, Slots
<1>4. SlotInv'
  BY <1>2, <1>3 DEF SlotInv
<1>5. TrialInv'
  BY <1>3 DEF TrialInv
<1>6. JobInv'
  BY <1>1 DEF JobInv, Idle
<1> QED
  BY <1>1, <1>4, <1>5, <1>6

(* The switch itself.                                                      *)
LEMMA SwitchInv ==
  ASSUME TypeOK, UpdateInv, NEW a \in Actors, SetBootPartition(a)
  PROVE  UpdateInv'
<1> USE DEF SetBootPartition, At, UpdateInv, Installed, Target
<1>1. /\ LockInv'
      /\ job'[a].pc = "bootset" /\ job'[a].build = job[a].build
      /\ \A c \in Actors \ {a} : job'[c] = Idle /\ job[c] = Idle
  BY GotoLock, Alone DEF Steps
<1>2. /\ Other(running) \in Slots /\ Other(running) # running
      /\ st'[Other(running)] = "NEW" /\ st'[running] = st[running]
      /\ st[running] \in Settled
  BY DEF TypeOK, FlashTypes, Slots, Other, SlotInv, TrialInv
<1>3. SlotInv'
  BY <1>1, <1>2 DEF SlotInv
<1>4. TrialInv'
  BY <1>2 DEF TrialInv, Settled
<1>5. JobInv'
  BY <1>1, <1>2 DEF JobInv, Idle
<1> QED
  BY <1>1, <1>3, <1>4, <1>5

(* The invariant is inductive.                                             *)
LEMMA StepInv == TypeOK /\ UpdateInv /\ [Next]_vars => UpdateInv'
<1> SUFFICES ASSUME TypeOK, UpdateInv, [Next]_vars PROVE UpdateInv'
  OBVIOUS
<1> DEFINE Slotwise == <<img, whole, bootSlot, running, job, busy>>
<1>1. CASE UNCHANGED <<Slotwise, st>>
  BY <1>1, QuietInv
<1>2. CASE Reset
  BY <1>2, ResetInv
<1>3. CASE MarkValid /\ UNCHANGED Slotwise
  BY <1>3, MarkValidInv
<1>4. CASE \E a \in Actors, b \in Builds :
             TryBegin(a, b) /\ UNCHANGED <<flash, running>>
  BY <1>4, TryBeginInv DEF flash
<1>5. CASE Boot \/ Tick
  BY <1>5, <1>1, <1>2, <1>3
  DEF Boot, CheckRollback, RecordBad, StartConfirm, BootGoesOn,
      Tick, TickConfirms, TickGivesUp, TickWaits, flash
<1>6. CASE Start
  <2>1. TypeOK => card \in Maybe(Builds) /\ auto \in Maybe(Builds)
    BY DEF TypeOK, TaskTypes
  <2> QED
    BY <1>6, <1>1, <1>4, <2>1
    DEF Start, HttpdStart, OnlineStart, AutoFound, SdStart, SdRefuse, AutoApply,
        CardIsNewer, Maybe, flash
<1>7. ASSUME NEW a \in Actors, Apply(a)
      PROVE  UpdateInv'
  <2>1. CASE NoteNet(a) \/ NoteInstalled(a)
    BY <2>1, NotedInv DEF NoteNet, NoteInstalled, At, flash
  <2>2. CASE Leave(a)
    BY <2>2, <1>3 DEF Leave
  <2> QED
    BY <1>7, <2>1, <2>2, WritingInv, ConfirmInv, SwitchInv, FailInv DEF Apply
<1>8. CASE SdNoteVersion
  BY <1>8, NotedInv DEF SdNoteVersion, At, flash
<1>9. CASE Crash \/ PowerLoss \/ SoftRestart
  BY <1>2, <1>9 DEF Crash, PowerLoss, SoftRestart
<1> QED
  BY <1>1, <1>3, <1>5, <1>6, <1>7, <1>8, <1>9
  DEF Next, TimePasses, UserRestart, NetChanges, InsertCard, vars, flash

(* The inductive invariant holds in every run.                             *)
THEOREM UpdateInvariant == Spec => []UpdateInv
<1>1. Init => UpdateInv
  BY InitInv
<1>2. TypeOK /\ UpdateInv /\ [Next]_vars => UpdateInv'
  BY StepInv
<1> QED
  BY <1>1, <1>2, TypeCorrect, PTL DEF Spec

(* Whatever instant a reset or a power loss comes, there is a complete     *)
(* firmware to start, and a complete one to go back to.                    *)
THEOREM AlwaysBootableHolds == Spec => []AlwaysBootable
<1>1. TypeOK /\ UpdateInv => AlwaysBootable
  <2> SUFFICES ASSUME TypeOK, UpdateInv PROVE AlwaysBootable
    OBVIOUS
  <2> USE DEF UpdateInv, SlotInv, JobInv, TrialInv, TypeOK, FlashTypes, Slots,
              Settled, Installed, Target, Other
  <2>1. CASE bootSlot = running
    BY <2>1 DEF AlwaysBootable
  <2>2. CASE bootSlot # running
    BY <2>2 DEF AlwaysBootable
  <2> QED
    BY <2>1, <2>2
<1> QED
  BY <1>1, TypeCorrect, UpdateInvariant, PTL

(* One installation at a time, and none once the boot slot has changed.    *)
THEOREM OneUpdaterHolds == Spec => []OneUpdater
<1>1. UpdateInv => OneUpdater
  BY DEF UpdateInv, LockInv, SlotInv, OneUpdater, Idle, Installed
<1> QED
  BY <1>1, UpdateInvariant, PTL

-----------------------------------------------------------------------------
(* The update implements FirmwareTrial: every step installs, restarts into *)
(* the installed image, confirms, annuls, or changes nothing an observer   *)
(* sees.                                                                   *)

Seen == <<img, bootSlot, running, st>>

(* What an observer of FirmwareTrial sees are the slots and the running    *)
(* one.                                                                    *)
LEMMA SeenStutters == UNCHANGED Seen => UNCHANGED Device!vars
BY DEF Seen, Device!vars, OnTrial, Other

(* A reset starts the installed image, annuls the one on trial, or changes *)
(* nothing.                                                                *)
LEMMA ResetRefines ==
  ASSUME TypeOK, UpdateInv, Reset
  PROVE  Device!Restart \/ Device!Annul \/ UNCHANGED Device!vars
<1> USE DEF Reset, Bootloader, UpdateInv, TypeOK, FlashTypes, Slots, Target, Other,
            Settled, Installed, OnTrial
<1>1. CASE bootSlot = running /\ OnTrial
  <2>1. /\ bootSlot' = 1 - running /\ running' = 1 - running
        /\ st'[1 - running] \in Settled
    BY <1>1 DEF TrialInv
  <2> QED
    BY <1>1, <2>1 DEF Device!Annul
<1>2. CASE bootSlot = running /\ ~OnTrial
  <2>1. UNCHANGED Seen
    BY <1>2 DEF SlotInv, Seen
  <2> QED
    BY <2>1, SeenStutters
<1>3. CASE bootSlot # running
  <2>1. /\ bootSlot = 1 - running /\ whole[bootSlot] /\ st[bootSlot] = "NEW"
        /\ ~OnTrial /\ img[bootSlot] \in Builds
    BY <1>3 DEF SlotInv, TrialInv, JobInv
  <2>2. /\ bootSlot' = 1 - running /\ running' = 1 - running
        /\ st'[1 - running] = "PENDING"
    BY <2>1
  <2>3. UNCHANGED img
    OBVIOUS
  <2>4. 1 - bootSlot' = running
    BY <2>2
  <2>5. img[bootSlot] # NoBuild
    BY <2>1
  <2> HIDE DEF Reset, UpdateInv, TypeOK
  <2> QED
    BY <1>3, <2>1, <2>2, <2>3, <2>4, <2>5 DEF Device!Restart
<1> QED
  BY <1>1, <1>2, <1>3

(* mark_valid confirms the image on trial, or finds none.                  *)
LEMMA MarkValidRefines ==
  ASSUME TypeOK, UpdateInv, MarkValid, UNCHANGED <<img, bootSlot, running>>
  PROVE  Device!Confirm \/ UNCHANGED Device!vars
<1>1. CASE OnTrial
  BY <1>1 DEF MarkValid, OnTrial, Device!Confirm, TypeOK, FlashTypes, Slots, Other
<1>2. CASE ~OnTrial
  BY <1>2, SeenStutters DEF MarkValid, OnTrial, Seen
<1> QED
  BY <1>1, <1>2

(* Erasing and writing the free slot is not seen before the switch.        *)
LEMMA WritingRefines ==
  ASSUME TypeOK, UpdateInv, NEW a \in Actors, EspOtaBegin(a) \/ WriteHeader(a)
  PROVE  UNCHANGED Device!vars
<1> USE DEF EspOtaBegin, WriteHeader, At
<1>1. /\ bootSlot = running /\ ~OnTrial /\ UNCHANGED <<bootSlot, running, st>>
  BY Alone DEF UpdateInv, SlotInv, TrialInv, Installed, Idle, OnTrial
<1>2. img'[running] = img[running]
  BY DEF TypeOK, FlashTypes, Target, Other, Slots
<1> QED
  BY <1>1, <1>2 DEF Device!vars, OnTrial

(* esp_ota_set_boot_partition is the installation.                         *)
LEMMA SwitchRefines ==
  ASSUME TypeOK, UpdateInv, NEW a \in Actors, SetBootPartition(a)
  PROVE  \E b \in Builds : Device!Install(b)
<1> USE DEF SetBootPartition, At
<1>1. /\ bootSlot = running /\ ~OnTrial /\ img[Target] \in Builds
      /\ Target \in Slots /\ Target # running
  BY Alone DEF UpdateInv, SlotInv, TrialInv, JobInv, Installed, Idle, OnTrial,
               Target, Other, Slots, TypeOK, FlashTypes
<1>2. /\ UNCHANGED <<img, running>> /\ bootSlot' = Target /\ ~OnTrial'
  BY <1>1 DEF OnTrial, TypeOK, FlashTypes
<1>3. Device!Install(img[Target])
  <2> HIDE DEF SetBootPartition
  <2> QED
    BY <1>1, <1>2 DEF Device!Install, OnTrial
<1> QED
  BY <1>1, <1>3

(* The first boot has no trial and nothing installed.                      *)
LEMMA InitRefines == Init => Device!Init
<1> SUFFICES ASSUME Init PROVE Device!Init
  OBVIOUS
<1>1. PICK b \in Builds : img = [s \in Slots |-> IF s = 0 THEN b ELSE NoBuild]
  BY DEF Init
<1>2. /\ running = 0 /\ bootSlot = 0 /\ st = [s \in Slots |-> "UNDEFINED"]
  BY DEF Init
<1>3. img[0] \in Builds
  BY <1>1 DEF Slots
<1>4. st[0] # "PENDING"
  BY <1>2 DEF Slots
<1> QED
  BY <1>2, <1>3, <1>4 DEF Device!Init, OnTrial

(* Every step of the update is a step of FirmwareTrial or a stutter.       *)
LEMMA StepRefines == TypeOK /\ UpdateInv /\ [Next]_vars => [Device!Next]_(Device!vars)
<1> SUFFICES ASSUME TypeOK, UpdateInv, [Next]_vars PROVE [Device!Next]_(Device!vars)
  OBVIOUS
<1> USE DEF Device!Next
<1>1. CASE UNCHANGED Seen
  BY <1>1, SeenStutters
<1>2. CASE Reset
  BY <1>2, ResetRefines
<1>3. CASE MarkValid /\ UNCHANGED <<img, bootSlot, running>>
  BY <1>3, MarkValidRefines
<1>4. CASE Boot \/ Tick
  BY <1>4, <1>1, <1>2, <1>3
  DEF Boot, CheckRollback, RecordBad, StartConfirm, BootGoesOn,
      Tick, TickConfirms, TickGivesUp, TickWaits, flash, Seen
<1>5. CASE Start
  BY <1>5, <1>1
  DEF Start, HttpdStart, OnlineStart, AutoFound, SdStart, SdRefuse, AutoApply, flash, Seen
<1>6. ASSUME NEW a \in Actors, Apply(a)
      PROVE  [Device!Next]_(Device!vars)
  BY <1>6, <1>1, <1>3, WritingRefines, SwitchRefines
  DEF Apply, Confirm, EspOtaEnd, NoteNet, NoteInstalled, Fail, Leave, flash, Seen
<1> QED
  BY <1>1, <1>2, <1>3, <1>4, <1>5, <1>6
  DEF Next, TimePasses, UserRestart, SdNoteVersion, Crash, PowerLoss, SoftRestart,
      NetChanges, InsertCard, vars, flash, Seen

(* The update implements FirmwareTrial: every behaviour of the update is,  *)
(* seen from outside, one of install, restart on trial, confirm and annul. *)
THEOREM TrialRefinement == Spec => ImplementsTrial
<1>1. Init => Device!Init
  BY InitRefines
<1>2. TypeOK /\ UpdateInv /\ [Next]_vars => [Device!Next]_(Device!vars)
  BY StepRefines
<1> QED
  BY <1>1, <1>2, TypeCorrect, UpdateInvariant, PTL DEF Spec, ImplementsTrial, Device!Spec

-----------------------------------------------------------------------------
(* What the update remembers of a rollback (OtaHistory): from here on the  *)
(* history observes the steps.                                             *)

Writing == \E a \in Actors : job[a].pc \in {"header", "verified"}

Booting == stage \in {"check", "record", "confirm"}

(* Nothing is installed before the boot has checked and set up the trial.  *)
EarlyInv ==
    Booting => auto = NoBuild /\ \A a \in Actors : job[a].pc = "idle"

(* An annulled slot holds what the bootloader annulled, the last one if    *)
(* nothing was torn, until an update writes over it.                       *)
AbortedInv ==
    ~Writing => \A s \in Slots : st[s] = "ABORTED" /\ img[s] # NoBuild =>
                    /\ img[s] \in annulled \union torn
                    /\ torn = {} => last = <<s, img[s]>>

(* Between its two writes the check has noted an aborted slot.             *)
RecordInv ==
    stage = "record" =>
        \E s \in Slots : st[s] = "ABORTED" /\ img[s] # NoBuild /\ nvs.seen = <<s, img[s]>>

(* A rollback already reported is the one refused, or about to be, or was  *)
(* kept from it by a reset.                                                *)
SeenInv ==
    nvs.seen[2] # NoBuild =>
        \/ nvs.bad = nvs.seen[2]
        \/ stage = "record"
        \/ unrecorded = nvs.seen

(* The last rollback is refused, or was kept from it by a reset, or is     *)
(* still there for the check to find, or found and about to be refused.    *)
LastInv ==
    torn = {} /\ last[2] # NoBuild =>
        \/ nvs.bad = last[2]
        \/ unrecorded = last
        \/ stage = "record" /\ nvs.seen = last
        \/ stage = "check" /\ st[last[1]] = "ABORTED" /\ img[last[1]] = last[2]

(* What an image installed with the network up is measured against.        *)
NoteInv ==
    /\ pending => st[running] = "PENDING"
    /\ netAtNote /\ st[bootSlot] = "NEW" => nvs.netb = "up"
    /\ netAtNote /\ st[bootSlot] = "PENDING" =>
          IF Booting THEN nvs.netb = "up" ELSE netBefore

(* A step of the rest of the program: it leaves the slots alone, but for   *)
(* confirming the image on trial, and what NVS notes of rollbacks.         *)
Plain ==
    /\ UNCHANGED <<img, bootSlot, running>>
    /\ netBefore' = netBefore \/ st'[running] # "PENDING"
    /\ nvs'.bad = nvs.bad /\ nvs'.seen = nvs.seen /\ nvs'.netb = nvs.netb
    /\ \A s \in Slots : st'[s] = st[s] \/ st'[s] = "VALID"
    /\ pending' => pending /\ UNCHANGED st
    /\ Writing => Writing'
    /\ Booting \/ Booting' => UNCHANGED <<stage, st>>

Writes(a) == EspOtaBegin(a) \/ WriteHeader(a) \/ EspOtaEnd(a)
Notes(a)  == NoteNet(a) \/ NoteInstalled(a)

(* Before the start of the application nothing is installing.              *)
LEMMA EarlyStep ==
  ASSUME TypeOK, UpdateInv, EarlyInv, [Next]_vars
  PROVE  EarlyInv'
<1> USE DEF EarlyInv, Booting
<1>1. CASE UNCHANGED <<stage, auto, job>>
  BY <1>1
<1>2. CASE Reset
  BY <1>2 DEF Reset, Idle
<1>3. CASE Boot
  BY <1>3 DEF Boot, CheckRollback, RecordBad, StartConfirm, BootGoesOn
<1>4. CASE Tick
  BY <1>4, <1>2 DEF Tick, TickConfirms, TickGivesUp, TickWaits
<1>5. CASE Start
  BY <1>5 DEF Start, HttpdStart, OnlineStart, AutoFound, SdStart, SdRefuse, AutoApply, Serving
<1>6. ASSUME NEW a \in Actors, Apply(a) PROVE EarlyInv'
  BY <1>6 DEF Apply, Confirm, EspOtaBegin, WriteHeader, EspOtaEnd, SetBootPartition,
              NoteNet, NoteInstalled, Fail, Leave, At
<1>7. CASE SdNoteVersion
  BY <1>7 DEF SdNoteVersion, At
<1>8. CASE Crash \/ PowerLoss \/ SoftRestart
  BY <1>2, <1>8 DEF Crash, PowerLoss, SoftRestart
<1> QED
  BY <1>1, <1>3, <1>4, <1>5, <1>6, <1>7, <1>8
  DEF Next, TimePasses, UserRestart, NetChanges, InsertCard, vars

(* Confirming leaves the other parts of NVS and the annulled slots alone.  *)
LEMMA MarkValidPlain ==
  ASSUME TypeOK, MarkValid
  PROVE  /\ nvs'.bad = nvs.bad /\ nvs'.seen = nvs.seen /\ nvs'.netb = nvs.netb /\ ~pending'
         /\ st'[running] # "PENDING"
         /\ \A s \in Slots : st'[s] = st[s] \/ st'[s] = "VALID"
BY DEF MarkValid, TypeOK, NvsTypes, FlashTypes

(* A step of installation a to pc writes no less than before.              *)
LEMMA StillWriting ==
  ASSUME TypeOK, NEW a \in Actors, NEW v,
         job[a].pc \notin {"header", "verified"}, job' = [job EXCEPT ![a] = v]
  PROVE  Writing => Writing'
BY DEF Writing, TypeOK, TaskTypes

(* The steps as far as the history tells them apart.                       *)
LEMMA StepKinds ==
  ASSUME TypeOK, UpdateInv, EarlyInv, [Next]_vars
  PROVE  \/ Reset \/ CheckRollback \/ RecordBad \/ StartConfirm \/ Plain
         \/ \E a \in Actors : Writes(a) \/ SetBootPartition(a) \/ Notes(a) \/ Fail(a)
<1> USE DEF Booting
<1>1. Booting => auto = NoBuild /\ \A a \in Actors : job[a].pc = "idle"
  BY DEF EarlyInv
<1>2. CASE /\ UNCHANGED <<flash, running, job, netBefore, pending>>
           /\ nvs'.bad = nvs.bad /\ nvs'.seen = nvs.seen /\ nvs'.netb = nvs.netb
           /\ (Booting \/ Booting' => UNCHANGED stage)
  BY <1>2 DEF Plain, flash, Writing
<1>3. CASE /\ MarkValid /\ UNCHANGED <<img, bootSlot, running, stage, job>>
           /\ ~Booting
  BY <1>3, MarkValidPlain DEF Plain, Writing
<1>4. CASE /\ UNCHANGED <<flash, nvs, running, netBefore, pending>>
           /\ \E a \in Actors, b \in Maybe(Builds) : ~busy /\ TryBegin(a, b)
           /\ ~Booting /\ ~Booting'
  BY <1>4, StillWriting DEF TryBegin, Plain, flash, UpdateInv, LockInv
<1>5. CASE Boot
  BY <1>5, <1>2 DEF Boot, BootGoesOn, trial
<1>6. CASE Tick
  BY <1>6, <1>2, <1>3 DEF Tick, TickConfirms, TickGivesUp, TickWaits
<1>7. CASE Start
  <2>1. CASE \E b \in Builds : AutoFound(b)
    <3>1. \A b \in Builds : AutoFound(b) =>
            nvs'.bad = nvs.bad /\ nvs'.seen = nvs.seen /\ nvs'.netb = nvs.netb
      BY DEF AutoFound, TypeOK, NvsTypes
    <3> QED
      BY <1>2, <2>1, <3>1 DEF AutoFound, trial
  <2>2. CASE SdRefuse
    BY <1>2, <2>2 DEF SdRefuse, trial
  <2>3. CASE AutoApply
    <3>1. ~Booting /\ auto \in Maybe(Builds)
      BY <1>1, <2>3 DEF AutoApply, TypeOK, TaskTypes
    <3> QED
      BY <1>2, <1>4, <2>3, <3>1 DEF AutoApply, TryBegin, trial
  <2>4. CASE SdStart \/ \E b \in Builds : HttpdStart(b) \/ OnlineStart(b)
    <3>1. card \in Maybe(Builds) /\ Builds \subseteq Maybe(Builds)
      BY DEF TypeOK, TaskTypes, Maybe
    <3>2. CASE SdStart
      <4>1. ~Booting
        BY <1>1, <3>2 DEF SdStart, EarlyInv
      <4>2. ~Booting'
        BY <3>2 DEF SdStart
      <4> QED
        BY <1>4, <3>1, <3>2, <4>1, <4>2 DEF SdStart, TryBegin, trial
    <3> QED
      BY <1>4, <2>4, <3>1, <3>2 DEF HttpdStart, OnlineStart, TryBegin, Serving, trial
  <2> QED
    BY <1>7, <2>1, <2>2, <2>3, <2>4 DEF Start
<1>8. ASSUME NEW a \in Actors, Apply(a)
      PROVE  \/ Plain
             \/ Writes(a) \/ SetBootPartition(a) \/ Notes(a) \/ Fail(a)
  <2>1. CASE Confirm(a)
    <3>1. ~Booting /\ (Writing => Writing')
      BY <1>1, <2>1, StillWriting DEF Confirm, At, Goto, Writing, TypeOK, TaskTypes
    <3> QED
      BY <2>1, <3>1, MarkValidPlain DEF Confirm, Plain
  <2>2. CASE Leave(a)
    <3>1. ~Booting
      BY <1>1, <2>2 DEF Leave, At
    <3> QED
      BY <1>3, <2>2, <3>1, MarkValidPlain DEF Leave, Plain, Writing
  <2> QED
    BY <1>8, <2>1, <2>2 DEF Apply, Writes, Notes
<1>9. CASE SdNoteVersion
  <2>1. /\ ~Booting /\ (Writing => Writing')
    BY <1>1, <1>9 DEF SdNoteVersion, At, Goto, Writing, TypeOK, TaskTypes
  <2>2. nvs'.bad = nvs.bad /\ nvs'.seen = nvs.seen /\ nvs'.netb = nvs.netb
    BY <1>9 DEF SdNoteVersion, TypeOK, NvsTypes
  <2> QED
    BY <1>9, <2>1, <2>2 DEF SdNoteVersion, Plain, flash, trial
<1>10. CASE Crash \/ PowerLoss \/ SoftRestart
  BY <1>10 DEF Crash, PowerLoss, SoftRestart
<1>11. CASE TimePasses \/ NetChanges \/ (\E b \in Maybe(Builds) : InsertCard(b)) \/ UNCHANGED vars
  BY <1>2, <1>11 DEF TimePasses, NetChanges, InsertCard, vars, trial
<1>12. CASE UserRestart
  BY <1>3, <1>12 DEF UserRestart, Serving
<1> QED
  BY <1>5, <1>6, <1>7, <1>8, <1>9, <1>10, <1>11, <1>12 DEF Next

-----------------------------------------------------------------------------
(* The history, kind of step by kind of step.                              *)

(* The history only grows, and knows a rollback when it sees one.          *)
LEMMA HistoryGrows ==
  ASSUME Observe
  PROVE  /\ annulled \subseteq annulled' /\ torn \subseteq torn'
         /\ ~Rollback => last' = last
         /\ Rollback => last' = <<bootSlot, img[bootSlot]>> /\ img[bootSlot] \in annulled'
BY DEF Observe

(* What a reset kept from being recorded changes only while recording.     *)
LEMMA UnrecordedStep ==
  ASSUME Observe
  PROVE  /\ stage # "record" \/ stage' = stage => unrecorded' = unrecorded
         /\ stage = "record" /\ stage' = "check" => unrecorded' = nvs.seen
BY DEF Observe, RecordBad

(* The bootloader annuls only the image on trial; writing cut short shows. *)
LEMMA ResetHistory ==
  ASSUME TypeOK, UpdateInv, Reset, Observe
  PROVE  /\ \A s \in Slots : st'[s] = "ABORTED" =>
               st[s] = "ABORTED" \/ (Rollback /\ s = bootSlot)
         /\ \A s \in Slots : st[s] = "ABORTED" => st'[s] = "ABORTED" /\ s = Target /\ ~Rollback
         /\ Rollback <=> st[bootSlot] = "PENDING"
         /\ Writing => img[Target] \in torn'
         /\ ~Writing' /\ UNCHANGED img /\ stage' = "check"
<1> USE DEF Slots
<1>1. /\ bootSlot \in Slots /\ running \in Slots /\ st \in [Slots -> SlotState]
  BY DEF TypeOK, FlashTypes
<1>2. Rollback <=> st[bootSlot] = "PENDING"
  BY <1>1 DEF Reset, Bootloader, Rollback
<1>3. \A s \in Slots : st'[s] = "ABORTED" => st[s] = "ABORTED" \/ (Rollback /\ s = bootSlot)
  BY <1>1, <1>2 DEF Reset, Bootloader
<1>4. \A s \in Slots : st[s] = "ABORTED" => st'[s] = "ABORTED"
  BY <1>1 DEF Reset, Bootloader
<1>5. \A s \in Slots : st[s] = "ABORTED" => s = Target
  BY <1>1 DEF UpdateInv, SlotInv, Settled, Target, Other
<1>6. Rollback => st[Target] # "ABORTED"
  <2>1. bootSlot # running => st[bootSlot] = "NEW"
    BY <1>1 DEF UpdateInv, SlotInv, JobInv
  <2> QED
    BY <1>2, <2>1 DEF UpdateInv, TrialInv, Settled
<1>7. ASSUME Writing PROVE img[Target] \in torn'
  <2>1. PICK a \in Actors : job[a].pc \in {"header", "verified"}
    BY <1>7 DEF Writing
  <2>2. img[Target] = job[a].build
    BY <2>1 DEF UpdateInv, JobInv
  <2>3. Tears(a)
    BY <2>1 DEF Tears, Reset
  <2> QED
    BY <2>2, <2>3 DEF Observe
<1>8. ~Writing'
  BY DEF Reset, Writing, Idle
<1> QED
  BY <1>2, <1>3, <1>4, <1>5, <1>6, <1>7, <1>8 DEF Reset

(* An aborted slot holds what the bootloader annulled.                     *)
LEMMA AbortedStep ==
  ASSUME TypeOK, UpdateInv, EarlyInv, AbortedInv, [Next]_vars, Observe
  PROVE  AbortedInv'
<1> USE DEF AbortedInv
<1>1. CASE Reset
  <2> SUFFICES ASSUME NEW s \in Slots, st'[s] = "ABORTED", img[s] # NoBuild
               PROVE  /\ img[s] \in annulled' \union torn'
                      /\ torn' = {} => last' = <<s, img[s]>>
    BY <1>1, ResetHistory
  <2>1. CASE Rollback /\ s = bootSlot
    BY <2>1, HistoryGrows
  <2>2. CASE st[s] = "ABORTED"
    <3>1. s = Target /\ ~Rollback
      BY <1>1, <2>2, ResetHistory
    <3>2. CASE Writing
      BY <1>1, <3>1, <3>2, ResetHistory
    <3>3. CASE ~Writing
      BY <2>2, <3>1, <3>3, HistoryGrows
    <3> QED
      BY <3>2, <3>3
  <2> QED
    BY <1>1, <2>1, <2>2, ResetHistory
<1>2. ASSUME UNCHANGED img, \A s \in Slots : st'[s] = "ABORTED" => st[s] = "ABORTED",
             Writing => Writing'
      PROVE  AbortedInv'
  <2>1. ~Rollback
    BY <1>2 DEF Rollback, TypeOK, FlashTypes
  <2> QED
    BY <1>2, <2>1, HistoryGrows
<1>3. CASE CheckRollback \/ RecordBad
  BY <1>2, <1>3 DEF CheckRollback, RecordBad, flash, Writing
<1>4. CASE StartConfirm
  BY <1>2, <1>4 DEF StartConfirm, flash, Writing
<1>5. CASE Plain
  BY <1>2, <1>5 DEF Plain
<1>6. ASSUME NEW a \in Actors, Notes(a) PROVE AbortedInv'
  BY <1>2, <1>6, StillWriting DEF Notes, NoteNet, NoteInstalled, At, Goto, flash, Writing, TypeOK, TaskTypes
<1>7. \A s \in Slots : st[s] = "ABORTED" => s = Target
  BY DEF UpdateInv, SlotInv, Settled, Target, Other, Slots, TypeOK, FlashTypes
<1>8. ASSUME NEW a \in Actors, Fail(a) PROVE AbortedInv'
  <2>1. UNCHANGED <<img, st>> /\ job' = [job EXCEPT ![a] = Idle]
    BY <1>8 DEF Fail, flash
  <2>2. CASE job[a].pc \in {"header", "verified"}
    <3>1. img[Target] = job[a].build
      BY <2>2 DEF UpdateInv, JobInv
    <3>2. Tears(a)
      BY <2>1, <2>2 DEF Tears, TypeOK, TaskTypes
    <3>3. img[Target] \in torn'
      BY <3>1, <3>2 DEF Observe
    <3> QED
      BY <1>7, <2>1, <3>3
  <2>3. CASE job[a].pc \notin {"header", "verified"}
    BY <1>2, <2>1, <2>3, StillWriting
  <2> QED
    BY <2>2, <2>3
<1>9. ASSUME NEW a \in Actors, EspOtaBegin(a) PROVE AbortedInv'
  BY <1>7, <1>9 DEF EspOtaBegin, Target, TypeOK, FlashTypes
<1>10. ASSUME NEW a \in Actors, WriteHeader(a) \/ EspOtaEnd(a) PROVE AbortedInv'
  <2>1. Writing'
    BY <1>10 DEF WriteHeader, EspOtaEnd, Goto, Writing, TypeOK, TaskTypes
  <2> QED
    BY <2>1
<1>11. ASSUME NEW a \in Actors, SetBootPartition(a) PROVE AbortedInv'
  BY <1>7, <1>11 DEF SetBootPartition, TypeOK, FlashTypes
<1> QED
  BY StepKinds, <1>1, <1>3, <1>4, <1>5, <1>6, <1>8, <1>9, <1>10, <1>11 DEF Writes

(* The first half of the check of the boot.                                *)
LEMMA CheckFinds ==
  ASSUME TypeOK, CheckRollback
  PROVE  \/ /\ UNCHANGED nvs /\ stage' = "confirm"
            /\ \A s \in Slots : st[s] = "ABORTED" /\ img[s] # NoBuild => nvs.seen = <<s, img[s]>>
         \/ \E s \in Slots : /\ st[s] = "ABORTED" /\ img[s] # NoBuild
                             /\ nvs'.seen = <<s, img[s]>> /\ nvs'.bad = nvs.bad
                             /\ stage' = "record"
BY DEF CheckRollback, TypeOK, NvsTypes

(* Its second half when every image says its version: for one that does    *)
(* not, the code takes the version noted last, which may be that of        *)
(* another (ota_update.c:342).                                             *)
LEMMA RecordsSeen ==
  ASSUME Numbered = Builds, TypeOK, RecordInv, RecordBad
  PROVE  nvs'.seen = nvs.seen /\ nvs'.bad = nvs.seen[2] /\ nvs.seen[2] # NoBuild
<1>1. nvs.seen[2] # NoBuild
  BY DEF RecordInv, RecordBad
<1>2. nvs.seen[2] \in Numbered
  BY <1>1 DEF TypeOK, NvsTypes, Maybe
<1>3. nvs' = [nvs EXCEPT !.bad = nvs.seen[2]]
  BY <1>1, <1>2 DEF RecordBad
<1> QED
  BY <1>1, <1>3 DEF TypeOK, NvsTypes

(* While it records, the check has an aborted slot in hand.                *)
LEMMA RecordStep ==
  ASSUME TypeOK, UpdateInv, EarlyInv, RecordInv, [Next]_vars
  PROVE  RecordInv'
<1> USE DEF RecordInv
<1>1. CASE Reset \/ RecordBad \/ StartConfirm
  BY <1>1 DEF Reset, RecordBad, StartConfirm
<1>2. CASE CheckRollback
  BY <1>2, CheckFinds DEF CheckRollback, flash
<1>3. CASE Plain
  BY <1>3 DEF Plain, Booting
<1>4. ASSUME NEW a \in Actors, Writes(a) \/ SetBootPartition(a) \/ Notes(a) \/ Fail(a)
      PROVE  RecordInv'
  BY <1>4 DEF EarlyInv, Booting, Writes, EspOtaBegin, WriteHeader, EspOtaEnd, SetBootPartition,
              Notes, NoteNet, NoteInstalled, Fail, At
<1> QED
  BY StepKinds, <1>1, <1>2, <1>3, <1>4

(* What the history keeps of a step that is not of the check.              *)
LEMMA OtherNotes ==
  ASSUME TypeOK, EarlyInv, Observe, NEW a \in Actors,
         Writes(a) \/ SetBootPartition(a) \/ Notes(a) \/ Fail(a)
  PROVE  /\ ~Booting /\ stage' = stage /\ nvs'.bad = nvs.bad /\ unrecorded' = unrecorded
         /\ nvs'.seen \in {nvs.seen, NoKey}
         /\ ~Rollback
<1> USE DEF Writes, EspOtaBegin, WriteHeader, EspOtaEnd, SetBootPartition,
            Notes, NoteNet, NoteInstalled, Fail
<1>1. ~Booting
  BY DEF EarlyInv, At
<1>2. stage' = stage
  OBVIOUS
<1>3. nvs'.bad = nvs.bad /\ nvs'.seen \in {nvs.seen, NoKey}
  BY DEF TypeOK, NvsTypes
<1>4. ~Rollback
  BY DEF Rollback, TypeOK, FlashTypes, flash
<1>5. unrecorded' = unrecorded
  BY <1>2, UnrecordedStep
<1> QED
  BY <1>1, <1>2, <1>3, <1>4, <1>5

(* A rollback noted as seen is refused, but for a reset in between.        *)
LEMMA SeenStep ==
  ASSUME Numbered = Builds, TypeOK, UpdateInv, EarlyInv, RecordInv, SeenInv, [Next]_vars, Observe
  PROVE  SeenInv'
<1> USE DEF SeenInv
<1>1. CASE Reset
  BY <1>1, UnrecordedStep DEF Reset
<1>2. CASE CheckRollback
  <2>1. unrecorded' = unrecorded /\ stage = "check"
    BY <1>2, UnrecordedStep DEF CheckRollback
  <2> QED
    BY <1>2, <2>1, CheckFinds
<1>3. CASE RecordBad
  BY <1>3, RecordsSeen
<1>4. CASE StartConfirm
  <2>1. unrecorded' = unrecorded /\ stage = "confirm"
    BY <1>4, UnrecordedStep DEF StartConfirm
  <2>2. nvs'.bad = nvs.bad /\ nvs'.seen = nvs.seen
    BY <1>4 DEF StartConfirm, TypeOK, NvsTypes
  <2> QED
    BY <2>1, <2>2
<1>5. CASE Plain
  <2>1. unrecorded' = unrecorded /\ (stage = "record" => stage' = stage)
    BY <1>5, UnrecordedStep DEF Plain, Booting
  <2> QED
    BY <1>5, <2>1 DEF Plain
<1>6. ASSUME NEW a \in Actors, Writes(a) \/ SetBootPartition(a) \/ Notes(a) \/ Fail(a)
      PROVE  SeenInv'
  BY <1>6, OtherNotes DEF NoKey
<1> QED
  BY StepKinds, <1>1, <1>2, <1>3, <1>4, <1>5, <1>6

(* A version is refused only because it was annulled, or may have been.    *)
LEMMA ReasonStep ==
  ASSUME Numbered = Builds, TypeOK, UpdateInv, EarlyInv, AbortedInv, RecordInv,
         RejectedHasReason, [Next]_vars, Observe
  PROVE  RejectedHasReason'
<1> USE DEF RejectedHasReason
<1>1. CASE nvs'.bad = nvs.bad
  BY <1>1, HistoryGrows
<1>2. CASE RecordBad
  <2>1. ~Writing
    BY <1>2 DEF RecordBad, EarlyInv, Booting, Writing
  <2>2. \E s \in Slots : st[s] = "ABORTED" /\ img[s] # NoBuild /\ nvs'.bad = img[s]
    BY <1>2, RecordsSeen DEF RecordInv, RecordBad
  <2> QED
    BY <2>1, <2>2, HistoryGrows DEF AbortedInv
<1>3. CASE CheckRollback
  BY <1>1, <1>3, CheckFinds
<1>4. CASE Reset \/ StartConfirm \/ Plain
  BY <1>1, <1>4 DEF Reset, StartConfirm, Plain, TypeOK, NvsTypes
<1>5. ASSUME NEW a \in Actors, Writes(a) \/ SetBootPartition(a) \/ Notes(a) \/ Fail(a)
      PROVE  RejectedHasReason'
  BY <1>1, <1>5, OtherNotes
<1> QED
  BY StepKinds, <1>2, <1>3, <1>4, <1>5

(* The last rollback has a slot and a version.                             *)
LEMMA LastTypeStep ==
  ASSUME TypeOK, last \in Slots \X Maybe(Builds), Observe
  PROVE  last' \in Slots \X Maybe(Builds)
BY DEF Observe, TypeOK, FlashTypes

(* What the check is recording is the last rollback.                       *)
LEMMA RecordedIsLast ==
  ASSUME EarlyInv, AbortedInv, RecordInv, torn = {}, stage = "record"
  PROVE  nvs.seen = last
<1>1. ~Writing
  BY DEF EarlyInv, Booting, Writing
<1> QED
  BY <1>1 DEF AbortedInv, RecordInv

(* The last rollback is refused, or still there for the check to find, or  *)
(* a reset kept it from being refused.                                     *)
LEMMA LastStep ==
  ASSUME Numbered = Builds, TypeOK, UpdateInv, EarlyInv, AbortedInv, RecordInv, SeenInv, LastInv,
         last \in Slots \X Maybe(Builds), [Next]_vars, Observe
  PROVE  LastInv'
<1> USE DEF LastInv
<1> SUFFICES ASSUME torn' = {}, last'[2] # NoBuild PROVE LastInv'
  OBVIOUS
<1>1. torn = {}
  BY HistoryGrows
<1>2. CASE Reset
  <2>1. stage' = "check" /\ UNCHANGED <<img, nvs>>
    BY <1>2 DEF Reset
  <2>2. CASE Rollback
    <3>1. bootSlot \in Slots /\ st'[bootSlot] = "ABORTED"
      BY <1>2, <2>2 DEF Reset, Bootloader, Rollback, TypeOK, FlashTypes
    <3> QED
      BY <2>1, <2>2, <3>1, HistoryGrows
  <2>3. CASE ~Rollback
    <3>1. last[1] \in Slots /\ st[last[1]] = "ABORTED" => st'[last[1]] = "ABORTED"
      BY <1>2, ResetHistory
    <3>2. last' = last
      BY <2>3, HistoryGrows
    <3>3. CASE stage = "record"
      BY <1>1, <2>1, <3>2, <3>3, RecordedIsLast, UnrecordedStep
    <3>4. CASE stage # "record"
      BY <1>1, <2>1, <3>1, <3>2, <3>4, UnrecordedStep
    <3> QED
      BY <3>3, <3>4
  <2> QED
    BY <2>2, <2>3
<1>3. ASSUME UNCHANGED st PROVE last' = last
  BY <1>3, HistoryGrows DEF Rollback
<1>4. CASE CheckRollback
  <2>1. ~Writing /\ last' = last /\ UNCHANGED <<img, st>> /\ stage = "check"
    BY <1>3, <1>4 DEF CheckRollback, EarlyInv, Booting, Writing, flash
  <2>2. \A s \in Slots : st[s] = "ABORTED" /\ img[s] # NoBuild => last = <<s, img[s]>>
    BY <1>1, <2>1 DEF AbortedInv
  <2>3. CASE \E s \in Slots : /\ st[s] = "ABORTED" /\ img[s] # NoBuild
                              /\ nvs'.seen = <<s, img[s]>> /\ stage' = "record"
    BY <2>1, <2>2, <2>3
  <2>4. CASE /\ UNCHANGED nvs
             /\ \A s \in Slots : st[s] = "ABORTED" /\ img[s] # NoBuild => nvs.seen = <<s, img[s]>>
    <3>0. unrecorded' = unrecorded
      BY <2>1, UnrecordedStep
    <3>1. CASE nvs.bad = last[2] \/ unrecorded = last
      BY <2>1, <2>4, <3>0, <3>1
    <3>2. CASE st[last[1]] = "ABORTED" /\ img[last[1]] = last[2]
      <4>1. last[1] \in Slots /\ last[2] # NoBuild /\ last = <<last[1], last[2]>>
        BY <2>1
      <4>2. nvs.seen = last
        BY <2>4, <3>2, <4>1
      <4> QED
        BY <2>1, <2>4, <3>0, <4>1, <4>2 DEF SeenInv
    <3> QED
      BY <1>1, <2>1, <3>1, <3>2
  <2> QED
    BY <1>4, <2>3, <2>4, CheckFinds
<1>5. CASE RecordBad
  <2>1. last' = last /\ stage = "record"
    BY <1>3, <1>5 DEF RecordBad, flash
  <2> QED
    BY <1>1, <1>5, <2>1, RecordedIsLast, RecordsSeen
<1>6. ASSUME last' = last, nvs'.bad = nvs.bad, stage \notin {"check", "record"} PROVE LastInv'
  BY <1>1, <1>6, UnrecordedStep
<1>7. CASE Plain
  <2>1. last' = last
    BY <1>7, HistoryGrows DEF Plain, Rollback, TypeOK, FlashTypes
  <2>2. CASE Booting
    <3>1. UNCHANGED <<stage, st, img>> /\ nvs'.bad = nvs.bad /\ nvs'.seen = nvs.seen
      BY <1>7, <2>2 DEF Plain
    <3>2. unrecorded' = unrecorded
      BY <3>1, UnrecordedStep
    <3> QED
      BY <1>1, <2>1, <3>1, <3>2
  <2>3. CASE ~Booting
    BY <1>6, <1>7, <2>1, <2>3 DEF Plain, Booting
  <2> QED
    BY <2>2, <2>3
<1>8. CASE StartConfirm
  BY <1>3, <1>6, <1>8 DEF StartConfirm, flash, TypeOK, NvsTypes
<1>9. ASSUME NEW a \in Actors, Writes(a) \/ SetBootPartition(a) \/ Notes(a) \/ Fail(a)
      PROVE  LastInv'
  BY <1>6, <1>9, OtherNotes, HistoryGrows DEF Booting
<1> QED
  BY StepKinds, <1>2, <1>4, <1>5, <1>7, <1>8, <1>9

(* An image on trial is measured against the network it was installed with.*)
LEMMA NoteStep ==
  ASSUME TypeOK, UpdateInv, EarlyInv, NoteInv, netAtNote \in BOOLEAN, [Next]_vars, Observe
  PROVE  NoteInv'
<1> USE DEF NoteInv
<1>1. /\ bootSlot \in Slots /\ running \in Slots /\ st \in [Slots -> SlotState]
      /\ \A s \in Slots : s = running \/ s = Target
      /\ Target \in Slots /\ Target # running
  BY DEF TypeOK, FlashTypes, Slots, Target, Other
<1>2. netAtNote' => \/ netAtNote /\ bootSlot' = bootSlot
                    \/ \E a \in Actors : NoteNet(a)
  BY Zenon DEF Observe
<1>3. ASSUME NEW a \in Actors, NoteNet(a) PROVE NoteInv'
  <2>1. bootSlot = Target /\ st[bootSlot] = "NEW"
    BY <1>3 DEF NoteNet, At, UpdateInv, JobInv, Installed
  <2>2. net \in BOOLEAN /\ netAtNote' = net /\ UNCHANGED <<st, bootSlot, running, pending>>
    BY <1>3 DEF NoteNet, Observe, flash, trial, TypeOK, FlagTypes
  <2>3. net => nvs'.netb = "up"
    BY <1>3 DEF NoteNet, TypeOK, NvsTypes
  <2> QED
    BY <2>1, <2>2, <2>3
<1> SUFFICES ASSUME netAtNote' => netAtNote /\ bootSlot' = bootSlot PROVE NoteInv'
  BY <1>2, <1>3
<1>4. CASE Reset
  <2>1. ~pending' /\ stage' = "check" /\ UNCHANGED nvs
    BY <1>4 DEF Reset
  <2>2. ASSUME bootSlot' = bootSlot
        PROVE  st'[bootSlot] # "NEW" /\ (st'[bootSlot] = "PENDING" => st[bootSlot] = "NEW")
    BY <1>1, <1>4, <2>2 DEF Reset, Bootloader, Other, Slots
  <2> QED
    BY <2>1, <2>2 DEF Booting
<1>5. CASE CheckRollback \/ RecordBad
  <2>1. /\ UNCHANGED <<st, bootSlot, running, pending, netBefore>> /\ Booting /\ Booting'
        /\ nvs'.netb = nvs.netb
    BY <1>5 DEF CheckRollback, RecordBad, Booting, flash, trial, TypeOK, NvsTypes
  <2> QED
    BY <2>1
<1>6. CASE StartConfirm
  <2>1. \A a \in Actors : job[a].pc = "idle"
    BY <1>6 DEF StartConfirm, EarlyInv, Booting
  <2>2. bootSlot = running /\ st[bootSlot] # "NEW"
    BY <2>1 DEF UpdateInv, SlotInv, Installed, Settled
  <2>3. /\ stage = "confirm" /\ stage' = "sdcheck" /\ UNCHANGED <<st, running, bootSlot>>
        /\ netBefore' = (pending' /\ (rtcNet = "up" \/ nvs.netb = "up"))
        /\ pending' = (st[running] = "PENDING" \/ pending)
    BY <1>6 DEF StartConfirm, flash
  <2>4. netAtNote' /\ st'[bootSlot'] = "PENDING" => netBefore'
    BY <2>2, <2>3 DEF Booting
  <2>5. pending' => st'[running'] = "PENDING"
    BY <2>3
  <2> QED
    BY <2>2, <2>3, <2>4, <2>5 DEF Booting
<1>7. CASE Plain
  <2>1. Booting <=> Booting'
    BY <1>7 DEF Plain, Booting
  <2>2. st[bootSlot] = "PENDING" => bootSlot = running
    BY DEF UpdateInv, SlotInv, JobInv, TypeOK, FlashTypes
  <2>3. st'[bootSlot'] \in {"NEW", "PENDING"} => st'[bootSlot'] = st[bootSlot]
    BY <1>7 DEF Plain, TypeOK, FlashTypes
  <2>4. netAtNote' /\ st'[bootSlot'] = "PENDING"
        => IF Booting' THEN nvs'.netb = "up" ELSE netBefore'
    BY <1>1, <1>7, <2>1, <2>2, <2>3 DEF Plain
  <2> QED
    BY <1>1, <1>7, <2>3, <2>4 DEF Plain
<1>8. ASSUME NEW a \in Actors, Writes(a) \/ Fail(a) \/ NoteInstalled(a) PROVE NoteInv'
  <2>1. /\ UNCHANGED <<st, bootSlot, running, pending, netBefore, stage>>
        /\ nvs'.netb = nvs.netb
    BY <1>8 DEF Writes, EspOtaBegin, WriteHeader, EspOtaEnd, NoteInstalled, Fail, flash, trial,
                TypeOK, NvsTypes
  <2> QED
    BY <2>1 DEF Booting
<1>9. ASSUME NEW a \in Actors, SetBootPartition(a) PROVE NoteInv'
  <2>1. \A b \in Actors : job[b].pc \notin Installed
    BY <1>9 DEF SetBootPartition, At, Installed, UpdateInv, LockInv, Idle
  <2>2. bootSlot = running
    BY <2>1 DEF UpdateInv, SlotInv
  <2>3. /\ bootSlot' = Target /\ UNCHANGED <<running, pending>>
        /\ st'[running] = st[running]
    BY <1>1, <1>9 DEF SetBootPartition, trial
  <2> QED
    BY <1>1, <2>2, <2>3
<1> QED
  BY StepKinds, <1>3, <1>4, <1>5, <1>6, <1>7, <1>8, <1>9 DEF Notes

(* Every history starts right and stays so.                                *)
HistTypes == last \in Slots \X Maybe(Builds) /\ netAtNote \in BOOLEAN

(* A device as it is delivered has no history.                             *)
LEMMA InitHistory ==
  ASSUME HInit
  PROVE  /\ HistTypes /\ EarlyInv /\ NoteInv
         /\ AbortedInv /\ RecordInv /\ SeenInv /\ LastInv /\ RejectedHasReason
<1> USE DEF HInit, Init, NoKey
<1>1. HistTypes
  <2>1. <<0, NoBuild>> \in Slots \X Maybe(Builds)
    BY DEF Slots, Maybe
  <2> QED
    BY <2>1 DEF HistTypes
<1>2. EarlyInv /\ NoteInv
  BY DEF EarlyInv, Booting, NoteInv, Idle
<1>3. AbortedInv /\ RecordInv /\ SeenInv /\ LastInv /\ RejectedHasReason
  BY DEF AbortedInv, RecordInv, SeenInv, LastInv, RejectedHasReason
<1> QED
  BY <1>1, <1>2, <1>3

(* With the history, the update makes the steps it makes without.          *)
LEMMA HistoryObserves == HSpec => [](TypeOK /\ UpdateInv)
<1>1. HInit => Init
  BY DEF HInit
<1>2. [HNext]_hvars => [Next]_vars
  BY DEF HNext, hvars
<1> QED
  BY <1>1, <1>2, TypeCorrect, UpdateInvariant, PTL DEF HSpec, Spec

(* The notes of the trial, along every behaviour.                          *)
LEMMA TrialHistory == HSpec => [](TypeOK /\ UpdateInv /\ HistTypes /\ EarlyInv /\ NoteInv)
<1> DEFINE I == HistTypes /\ EarlyInv /\ NoteInv
<1>1. HInit => I
  BY InitHistory
<1>2. TypeOK /\ UpdateInv /\ I /\ [HNext]_hvars => I'
  <2> SUFFICES ASSUME TypeOK, UpdateInv, I, [HNext]_hvars PROVE I'
    OBVIOUS
  <2>1. CASE HNext
    <3>1. HistTypes'
      BY <2>1, LastTypeStep DEF HNext, HistTypes, Observe, TypeOK, FlagTypes
    <3>2. EarlyInv' /\ NoteInv'
      BY <2>1, EarlyStep, NoteStep DEF HNext, HistTypes
    <3> QED
      BY <3>1, <3>2
  <2>2. CASE UNCHANGED hvars
    <3>1. EarlyInv'
      BY <2>2, EarlyStep DEF hvars
    <3> QED
      BY <2>2, <3>1 DEF hvars, vars, history, flash, trial, HistTypes, NoteInv, Booting
  <2> QED
    BY <2>1, <2>2
<1> QED
  BY <1>1, <1>2, HistoryObserves, PTL DEF HSpec

(* The rollbacks, along every behaviour with numbered images.              *)
LEMMA RollbackHistory ==
  ASSUME Numbered = Builds
  PROVE  HSpec => [](AbortedInv /\ RecordInv /\ SeenInv /\ LastInv /\ RejectedHasReason)
<1> DEFINE I == AbortedInv /\ RecordInv /\ SeenInv /\ LastInv /\ RejectedHasReason
           J == TypeOK /\ UpdateInv /\ HistTypes /\ EarlyInv /\ NoteInv
<1>1. HInit => I
  BY InitHistory
<1>2. J /\ I /\ [HNext]_hvars => I'
  <2> SUFFICES ASSUME J, I, [HNext]_hvars PROVE I'
    OBVIOUS
  <2>1. CASE HNext
    BY <2>1, AbortedStep, RecordStep, SeenStep, LastStep, ReasonStep DEF HNext, HistTypes
  <2>2. CASE UNCHANGED hvars
    BY <2>2 DEF hvars, vars, history, flash, AbortedInv, RecordInv, SeenInv, LastInv,
                RejectedHasReason, Writing
  <2> QED
    BY <2>1, <2>2
<1> QED
  BY <1>1, <1>2, TrialHistory, PTL DEF HSpec

(* Where every image says its version, as from 1.35.14 on, the version the *)
(* automatic update refuses was annulled or torn, and once the boot has    *)
(* checked it is the one of the last rollback (ota_update_check_rollback), *)
(* unless an update was torn or a reset fell between the two writes of the *)
(* check.                                                                  *)
THEOREM RollbackRememberedHolds ==
  ASSUME Numbered = Builds
  PROVE  HSpec => []RollbackRemembered
<1>1. LastInv /\ RejectedHasReason => RollbackRemembered
  <2> SUFFICES ASSUME LastInv, RejectedHasReason, last[2] \in Numbered,
                      stage \notin {"check", "record"}, torn = {}, last # unrecorded
               PROVE  nvs.bad = last[2]
    BY DEF RollbackRemembered
  <2> QED
    BY DEF LastInv
<1> QED
  BY <1>1, RollbackHistory, PTL

(* ... and the automatic update never installs that one again on its own   *)
(* (auto_update_task), with the same two exceptions: a torn update, and a  *)
(* reset between the writes of "seen" and "bad".                           *)
THEOREM AutoSkipsAnnulledHolds ==
  ASSUME Numbered = Builds
  PROVE  HSpec => AutoSkipsAnnulled
<1>1. ASSUME TypeOK, UpdateInv, EarlyInv, LastInv, [HNext]_hvars,
             auto = NoBuild, auto' # NoBuild, torn = {}, last # unrecorded
      PROVE  auto' # last[2]
  <2>1. [Next]_vars /\ auto' # auto
    BY <1>1 DEF HNext, hvars
  <2>2. PICK v \in Builds : AutoFound(v)
    <3>1. CASE Reset
      BY <1>1, <3>1 DEF Reset
    <3>2. CASE Boot \/ Tick
      BY <2>1, <3>1, <3>2 DEF Boot, CheckRollback, RecordBad, StartConfirm, BootGoesOn,
                              Tick, TickConfirms, TickGivesUp, TickWaits
    <3>3. ASSUME NEW a \in Actors, Apply(a) PROVE FALSE
      BY <2>1, <3>3 DEF Apply, Confirm, EspOtaBegin, WriteHeader, EspOtaEnd, SetBootPartition,
                        NoteNet, NoteInstalled, Fail, Leave
    <3>4. CASE Start
      BY <1>1, <2>1, <3>4 DEF Start, HttpdStart, OnlineStart, SdStart, SdRefuse, AutoApply
    <3> QED
      BY <2>1, <3>1, <3>2, <3>3, <3>4
      DEF Next, TimePasses, UserRestart, SdNoteVersion, Crash, PowerLoss, SoftRestart,
          NetChanges, InsertCard, vars
  <2> QED
    BY <1>1, <2>2 DEF AutoFound, LastInv
<1>2. [](AbortedInv /\ RecordInv /\ SeenInv /\ LastInv /\ RejectedHasReason)
      /\ [](TypeOK /\ UpdateInv /\ HistTypes /\ EarlyInv /\ NoteInv) /\ [][HNext]_hvars
      => AutoSkipsAnnulled
  BY <1>1, PTL DEF AutoSkipsAnnulled
<1> QED
  BY <1>2, RollbackHistory, TrialHistory, PTL DEF HSpec

(* An image installed with the network up is confirmed because it has seen *)
(* the network, or because somebody used the panel: never by time alone    *)
(* (ota_update_confirm_tick).                                              *)
THEOREM ConfirmedOnlineHolds == HSpec => ConfirmedOnline
<1>1. ASSUME TypeOK, UpdateInv, EarlyInv, NoteInv, [HNext]_hvars,
             pending, ~pending', st'[running] = "VALID", netAtNote
      PROVE  netSeen' \/ leaving' \/ \E a \in Actors : At(a, "locked")
  <2>1. [Next]_vars /\ (pending' # pending) /\ st[running] = "PENDING" /\ bootSlot = running
    BY <1>1 DEF HNext, hvars, NoteInv, UpdateInv, TrialInv
  <2>2. CASE Reset
    <3>1. running \in Slots /\ st[bootSlot] = "PENDING"
      BY <1>1, <2>1 DEF TypeOK, FlashTypes
    <3>2. \A s \in Slots : s = bootSlot => st'[s] = "ABORTED"
      BY <2>2, <3>1 DEF Reset, Bootloader
    <3> QED
      BY <1>1, <2>1, <3>1, <3>2
  <2>3. CASE Boot
    BY <1>1, <2>1, <2>3 DEF Boot, CheckRollback, RecordBad, StartConfirm, BootGoesOn, trial
  <2>4. CASE Tick
    <3>1. CASE TickConfirms
      <4>1. PICK connected \in BOOLEAN : (connected => net) /\ Stable(connected, netSeen \/ net)
        BY <3>1 DEF TickConfirms
      <4>2. netBefore
        BY <1>1, <2>1, <3>1 DEF NoteInv, Booting, TickConfirms
      <4>3. netSeen \/ net
        BY <4>1, <4>2 DEF Stable
      <4>4. netSeen' = (netSeen \/ net)
        BY <3>1 DEF TickConfirms
      <4> QED
        BY <4>3, <4>4
    <3> QED
      BY <2>1, <2>2, <2>4, <3>1 DEF Tick, TickGivesUp, TickWaits
  <2>5. CASE Start
    BY <2>1, <2>5 DEF Start, HttpdStart, OnlineStart, AutoFound, SdStart, SdRefuse, AutoApply,
                      trial
  <2>6. ASSUME NEW a \in Actors, Apply(a) PROVE leaving' \/ At(a, "locked")
    BY <2>1, <2>6 DEF Apply, Confirm, EspOtaBegin, WriteHeader, EspOtaEnd, SetBootPartition,
                      NoteNet, NoteInstalled, Fail, Leave, trial
  <2> QED
    BY <2>1, <2>2, <2>3, <2>4, <2>5, <2>6
    DEF Next, TimePasses, UserRestart, SdNoteVersion, Crash, PowerLoss, SoftRestart,
        NetChanges, InsertCard, vars, trial
<1>2. [](TypeOK /\ UpdateInv /\ HistTypes /\ EarlyInv /\ NoteInv) /\ [][HNext]_hvars
      => ConfirmedOnline
  BY <1>1, PTL DEF ConfirmedOnline
<1> QED
  BY <1>2, TrialHistory, PTL DEF HSpec
=============================================================================
