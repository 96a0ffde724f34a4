----------------------------- MODULE ConfigProofs -----------------------------
(***************************************************************************)
(* Proofs about ConfigBackup, for every set of configurations, of requests *)
(* and of faults of the card: the types; that without the factory serial   *)
(* number as a second proof of origin neither another receiver's           *)
(* configuration nor a cut one is ever in use; and that a copy on the card *)
(* outlives one interruption of the next.                                  *)
(***************************************************************************)
EXTENDS ConfigBackup, TLAPS

USE ConfigsAssumption

(* One lemma for each group of variables: a step keeps its types.          *)
LEMMA InitTypes == Init => TypeOK
<1> SUFFICES ASSUME Init PROVE TypeOK
  OBVIOUS
<1> USE DEF Init
<1>1. MemoryTypes
  BY DEF MemoryTypes
<1>2. FileTypes
  BY DEF FileTypes, NoFile, File
<1>3. FlagTypes
  BY DEF FlagTypes
<1>4. TaskTypes
  BY DEF TaskTypes, NoSave, Resting, Service, Copies
<1> QED
  BY <1>1, <1>2, <1>3, <1>4 DEF TypeOK

(* A configuration is imported from a file with a configuration in it.     *)
LEMMA ImportTypes ==
  ASSUME FileTypes, NEW c \in Copies
  PROVE  ReadCopy(c) \in File
BY DEF FileTypes, ReadCopy, Names

(* What the operations of write_file leave in the files, card or not.      *)
LEMMA FileOps ==
  /\ OpenTmp => files' = [files EXCEPT ![<<svc.which, "tmp">>] = Empty] \/ files' = files
  /\ WriteTmp =>
       \/ files' = [files EXCEPT ![<<svc.which, "tmp">>] = [is |-> "whole", cfg |-> svc.blob]]
       \/ files' = [files EXCEPT ![<<svc.which, "tmp">>] = [is |-> "cut", cfg |-> svc.blob]]
       \/ files' = files
  /\ Unlink => files' = [files EXCEPT ![<<svc.which, "file">>] = NoFile] \/ files' = files
  /\ Rename =>
       \/ files' = [files EXCEPT ![<<svc.which, "file">>] = files[<<svc.which, "tmp">>],
                                ![<<svc.which, "tmp">>] = NoFile]
       \/ files' = files
<1>1. OpenTmp => files' = [files EXCEPT ![<<svc.which, "tmp">>] = Empty] \/ files' = files
  BY Zenon DEF OpenTmp, FileOp
<1>2. WriteTmp =>
       \/ files' = [files EXCEPT ![<<svc.which, "tmp">>] = [is |-> "whole", cfg |-> svc.blob]]
       \/ files' = [files EXCEPT ![<<svc.which, "tmp">>] = [is |-> "cut", cfg |-> svc.blob]]
       \/ files' = files
  BY Zenon DEF WriteTmp, FileOp
<1>3. Unlink => files' = [files EXCEPT ![<<svc.which, "file">>] = NoFile] \/ files' = files
  BY Zenon DEF Unlink, FileOp
<1>4. Rename =>
       \/ files' = [files EXCEPT ![<<svc.which, "file">>] = files[<<svc.which, "tmp">>],
                                ![<<svc.which, "tmp">>] = NoFile]
       \/ files' = files
  BY Zenon DEF Rename, FileOp
<1> QED
  BY <1>1, <1>2, <1>3, <1>4

(* ... file by file ...                                                    *)
LEMMA FileAfter ==
  ASSUME FileTypes, svc.which \in Copies, NEW n \in Names,
         OpenTmp \/ WriteTmp \/ Unlink \/ Rename
  PROVE  \/ files'[n] \in {files[n], Empty, NoFile, files[<<svc.which, "tmp">>]}
         \/ files'[n] = [is |-> "whole", cfg |-> svc.blob]
         \/ files'[n] = [is |-> "cut", cfg |-> svc.blob]
<1>1. CASE OpenTmp
  BY <1>1, FileOps DEF FileTypes
<1>2. CASE WriteTmp
  BY <1>2, FileOps DEF FileTypes
<1>3. CASE Unlink
  BY <1>3, FileOps DEF FileTypes
<1>4. CASE Rename
  BY <1>4, FileOps DEF FileTypes
<1> QED
  BY <1>1, <1>2, <1>3, <1>4

(* ... which stay the four of them ...                                     *)
LEMMA FilesDomain ==
  FileTypes /\ (OpenTmp \/ WriteTmp \/ Unlink \/ Rename) =>
    files' = [n \in Names |-> files'[n]]
BY FileOps DEF FileTypes

(* ... and that they leave the rest alone.                                 *)
LEMMA FileOpsFrame ==
  OpenTmp \/ WriteTmp \/ Unlink \/ Rename =>
    UNCHANGED <<nvs, skip, card, faults, ending, stage, ram, up, requested, goodDue, save, reset>>
BY Zenon DEF OpenTmp, WriteTmp, Unlink, Rename, FileOp

(* NVS and RAM: the saves, the copies and what a reset leaves.             *)
LEMMA MemoryStep == TypeOK /\ [Next]_vars => MemoryTypes'
<1> SUFFICES ASSUME TypeOK, [Next]_vars PROVE MemoryTypes'
  OBVIOUS
<1> USE DEF TypeOK, MemoryTypes
<1>1. CASE UNCHANGED <<nvs, ram>>
  BY <1>1
<1>2. ASSUME NEW how, Reset(how) PROVE MemoryTypes'
  BY <1>2 DEF Reset, Survives, TaskTypes, Contents
<1>3. ASSUME NEW c \in Copies, Import(ReadCopy(c)) PROVE MemoryTypes'
  BY <1>3, ImportTypes DEF Import, File, Contents
<1>4. CASE RestoreIfMissing
  BY <1>4, <1>1, <1>3 DEF RestoreIfMissing, NoImport, Copies
<1>5. CASE CrashGuard
  BY <1>5, <1>1, <1>3 DEF CrashGuard, NoImport, Copies
<1>6. CASE Save \/ FactoryErase
  BY <1>6
  DEF Save, SaveBegin, SaveWrite, SaveRequest, ImportBegin, ImportWrite, FactoryErase,
      TaskTypes, Contents
<1>7. CASE Fault \/ PowerLoss \/ Restart
  BY <1>7, <1>2 DEF Fault, PowerLoss, Restart
<1>8. CASE Serve
  BY <1>8, <1>1
  DEF Serve, ServeRequest, CheckDue, ClaimDue, Export, Mount, FileOp, OpenTmp, WriteTmp,
      Unlink, Rename
<1> QED
  BY <1>1, <1>4, <1>5, <1>6, <1>7, <1>8
  DEF Next, Boot, Start, FactoryFlag, SaveGoodNow, TenMinutes, TwoHours, CardComesAndGoes,
      ForeignCard, vars

(* The files: the four operations of write_file and the foreign card.      *)
LEMMA FileStep == TypeOK /\ [Next]_vars => FileTypes'
<1> SUFFICES ASSUME FileTypes, TaskTypes, [Next]_vars PROVE FileTypes'
  BY DEF TypeOK
<1> USE DEF FileTypes
<1>1. CASE UNCHANGED files
  BY <1>1
<1>2. svc.which \in Copies /\ svc.blob \in Contents \union {None}
  BY DEF TaskTypes
<1>3. CASE OpenTmp \/ WriteTmp \/ Unlink \/ Rename
  <2>1. {Empty, NoFile, files[<<svc.which, "tmp">>], [is |-> "whole", cfg |-> svc.blob],
         [is |-> "cut", cfg |-> svc.blob]} \subseteq File
    <3>1. <<svc.which, "tmp">> \in Names
      BY <1>2 DEF Names
    <3> QED
      BY <1>2, <3>1 DEF File, Empty, NoFile
  <2>2. \A n \in Names : files'[n] \in File
    BY <1>2, <1>3, <2>1, FileAfter
  <2> QED
    BY <1>3, <2>2, FilesDomain
<1>4. CASE ForeignCard
  BY <1>4 DEF ForeignCard, NoFile, File, Contents
<1>5. CASE Serve
  BY <1>5, <1>1, <1>3 DEF Serve, ServeRequest, CheckDue, ClaimDue, Export, Mount, disk
<1>6. CASE Boot \/ Save
  BY <1>6, <1>1
  DEF Boot, RestoreIfMissing, CrashGuard, Start, Save, SaveBegin, SaveWrite, SaveRequest,
      ImportBegin, ImportWrite, disk
<1>7. CASE Fault \/ PowerLoss \/ Restart
  BY <1>7, <1>1 DEF Fault, PowerLoss, Restart, Reset, disk
<1> QED
  BY <1>1, <1>4, <1>5, <1>6, <1>7
  DEF Next, FactoryErase, FactoryFlag, SaveGoodNow, TenMinutes, TwoHours,
      CardComesAndGoes, disk, vars

(* The flags; the fault count returns to zero at the limit.                *)
LEMMA FlagStep == TypeOK /\ [Next]_vars => FlagTypes'
<1> SUFFICES ASSUME TypeOK, [Next]_vars PROVE FlagTypes'
  OBVIOUS
<1> USE DEF TypeOK, FlagTypes
<1>1. CASE UNCHANGED <<skip, card, requested, faults, up, ending, stage, goodDue, reset>>
  BY <1>1
<1>2. ASSUME NEW how \in {"fault", "other"}, Reset(how) PROVE FlagTypes'
  BY <1>2 DEF Reset, disk
<1>3. CASE Boot
  <2>1. CASE CrashGuard
    <3>1. faults' \in {0, 1, 2}
      BY <2>1 DEF CrashGuard, MaxFaults
    <3> QED
      BY <2>1, <3>1 DEF CrashGuard, disk
  <2>2. CASE RestoreIfMissing
    BY <2>2 DEF RestoreIfMissing, disk
  <2> QED
    BY <1>3, <2>1, <2>2 DEF Boot, Start, disk
<1>4. CASE Serve
  <2>1. CASE CheckDue
    BY <2>1 DEF CheckDue, disk
  <2>2. CASE Mount
    BY <2>2 DEF Mount, disk
  <2>3. CASE OpenTmp \/ WriteTmp \/ Unlink \/ Rename
    BY <2>3, <1>1, FileOpsFrame
  <2>4. CASE ServeRequest
    BY <2>4 DEF ServeRequest, disk
  <2>5. CASE ClaimDue
    BY <2>5 DEF ClaimDue, disk
  <2>6. CASE Export
    BY <2>6, <1>1 DEF Export, disk
  <2> QED
    BY <1>4, <2>1, <2>2, <2>3, <2>4, <2>5, <2>6 DEF Serve
<1>5. CASE Save \/ FactoryErase \/ FactoryFlag \/ SaveGoodNow
  <2>1. CASE Save
    <3>1. \/ UNCHANGED <<skip, card, requested, faults, up, ending, stage, goodDue, reset>>
          \/ SaveRequest
      BY <2>1, Zenon DEF Save, SaveBegin, SaveWrite, ImportBegin, ImportWrite, disk
    <3> QED
      BY <1>1, <3>1 DEF SaveRequest, disk
  <2>2. CASE FactoryErase \/ FactoryFlag \/ SaveGoodNow
    BY <2>2 DEF FactoryErase, FactoryFlag, SaveGoodNow, disk
  <2> QED
    BY <1>5, <2>1, <2>2
<1>6. CASE TenMinutes \/ TwoHours \/ CardComesAndGoes \/ ForeignCard
  <2>1. CASE TenMinutes \/ TwoHours
    BY <2>1 DEF TenMinutes, TwoHours, disk
  <2>2. CASE CardComesAndGoes \/ ForeignCard
    <3>1. UNCHANGED <<skip, requested, faults, up, ending, stage, goodDue, reset>>
      BY <2>2 DEF CardComesAndGoes, ForeignCard
    <3>2. card' \in BOOLEAN
      BY <2>2 DEF CardComesAndGoes, ForeignCard
    <3> QED
      BY <3>1, <3>2
  <2> QED
    BY <1>6, <2>1, <2>2
<1>7. CASE Fault \/ PowerLoss \/ Restart
  BY <1>7, <1>2 DEF Fault, PowerLoss, Restart
<1> QED
  BY <1>1, <1>3, <1>4, <1>5, <1>6, <1>7 DEF Next, disk, vars

(* The progress of the saving task and of the log task.                    *)
LEMMA TaskStep == TypeOK /\ [Next]_vars => TaskTypes'
<1> SUFFICES ASSUME TypeOK, [Next]_vars PROVE TaskTypes'
  OBVIOUS
<1> USE DEF TypeOK, TaskTypes
<1>1. CASE UNCHANGED <<save, svc>>
  BY <1>1
<1>2. ASSUME NEW how, Reset(how) PROVE TaskTypes'
  BY <1>2 DEF Reset, NoSave, Resting, Service, Copies
<1>3. CASE Save
  BY <1>3
  DEF Save, SaveBegin, SaveWrite, SaveRequest, ImportBegin, ImportWrite, NoSave
<1>4. CASE Serve
  BY <1>4
  DEF Serve, ServeRequest, CheckDue, ClaimDue, Export, Mount, FileOp, OpenTmp, WriteTmp,
      Unlink, Rename, Done, Service, Resting, Copies, MemoryTypes
<1>5. CASE Fault \/ PowerLoss \/ Restart
  BY <1>5, <1>2 DEF Fault, PowerLoss, Restart
<1> QED
  BY <1>1, <1>3, <1>4, <1>5
  DEF Next, Boot, RestoreIfMissing, CrashGuard, Start, FactoryErase, FactoryFlag,
      SaveGoodNow, TenMinutes, TwoHours, CardComesAndGoes, ForeignCard, vars

(* The groups together: a step keeps every type.                           *)
LEMMA TypeStep == TypeOK /\ [Next]_vars => TypeOK'
BY MemoryStep, FileStep, FlagStep, TaskStep DEF TypeOK

(* Every reachable state has the types of TypeOK; in particular the count  *)
(* of faults in RTC memory never reaches its limit.                        *)
THEOREM ConfigTypes == Spec => []TypeOK
<1>1. Init => TypeOK
  BY InitTypes
<1>2. TypeOK /\ [Next]_vars => TypeOK'
  BY TypeStep
<1> QED
  BY <1>1, <1>2, PTL DEF Spec

-----------------------------------------------------------------------------
(* NVS and RAM take a configuration from themselves, from the saving task  *)
(* or from a whole file of this receiver.                                  *)
LEMMA OwnMemory ==
  ASSUME TypeOK, OwnInv, ~FactorySerial, Next
  PROVE  {nvs', ram'} \subseteq Configs \union {None}
<1> USE DEF OwnInv
<1>1. CASE UNCHANGED <<nvs, ram>>
  BY <1>1
<1>2. ASSUME NEW how, Reset(how) PROVE {nvs', ram'} \subseteq Configs \union {None}
  BY <1>2 DEF Reset, Survives
<1>3. ASSUME NEW c \in Copies, Import(ReadCopy(c))
      PROVE  {nvs', ram'} \subseteq Configs \union {None}
  <2>1. ReadCopy(c).is = "whole" /\ ReadCopy(c).cfg # Foreign
    BY <1>3 DEF Import, IsMine
  <2>2. ReadCopy(c).cfg \in Configs \union {None}
    BY <2>1 DEF ReadCopy, Names
  <2> QED
    BY <1>3, <2>1, <2>2 DEF Import
<1>4. CASE RestoreIfMissing
  BY <1>4, <1>1, <1>3 DEF RestoreIfMissing, NoImport, Copies
<1>5. CASE CrashGuard
  BY <1>5, <1>1, <1>3 DEF CrashGuard, NoImport, Copies
<1>6. CASE Save \/ FactoryErase
  BY <1>6
  DEF Save, SaveBegin, SaveWrite, SaveRequest, ImportBegin, ImportWrite, FactoryErase
<1>7. CASE Fault \/ PowerLoss \/ Restart
  BY <1>7, <1>2 DEF Fault, PowerLoss, Restart
<1>8. CASE Serve
  BY <1>8, <1>1
  DEF Serve, ServeRequest, CheckDue, ClaimDue, Export, Mount, FileOp, OpenTmp, WriteTmp,
      Unlink, Rename
<1> QED
  BY <1>1, <1>4, <1>5, <1>6, <1>7, <1>8
  DEF Next, Boot, Start, FactoryFlag, SaveGoodNow, TenMinutes, TwoHours, CardComesAndGoes,
      ForeignCard

(* The log task carries a configuration it read from NVS.                  *)
LEMMA OwnBlob ==
  ASSUME TypeOK, OwnInv, Next
  PROVE  svc'.blob \in Configs \union {None}
<1> USE DEF OwnInv
<1>1. CASE svc'.blob = svc.blob
  BY <1>1
<1>2. CASE svc' = Resting
  BY <1>2 DEF Resting, Service
<1>3. CASE Serve
  BY <1>3, <1>1, <1>2
  DEF Serve, ServeRequest, CheckDue, ClaimDue, Export, Mount, FileOp, OpenTmp, WriteTmp,
      Unlink, Rename, Done, Service, Resting, TypeOK, TaskTypes
<1>4. CASE Fault \/ PowerLoss \/ Restart
  BY <1>4, <1>2 DEF Fault, PowerLoss, Restart, Reset
<1> QED
  BY <1>1, <1>3, <1>4
  DEF Next, Boot, RestoreIfMissing, CrashGuard, Start, Save, SaveBegin, SaveWrite,
      SaveRequest, ImportBegin, ImportWrite, FactoryErase, FactoryFlag, SaveGoodNow,
      TenMinutes, TwoHours, CardComesAndGoes, ForeignCard

(* A whole file holds what the log task carries, or comes from elsewhere.  *)
LEMMA OwnFiles ==
  ASSUME TypeOK, OwnInv, Next, NEW n \in Names, files'[n].is = "whole"
  PROVE  files'[n].cfg \in Configs \union {None, Foreign}
<1> USE DEF TypeOK
<1>1. CASE UNCHANGED files
  BY <1>1 DEF OwnInv
<1>2. CASE OpenTmp \/ WriteTmp \/ Unlink \/ Rename
  <2>1. svc.which \in Copies /\ svc.blob \in Configs \union {None}
    BY DEF TaskTypes, OwnInv
  <2>2. \A k \in {n, <<svc.which, "tmp">>} :
          files[k].is = "whole" => files[k].cfg \in Configs \union {None, Foreign}
    BY <2>1 DEF OwnInv, Names
  <2>3. \/ files'[n] \in {files[n], files[<<svc.which, "tmp">>]}
        \/ files'[n] = [is |-> "whole", cfg |-> svc.blob]
    BY <1>2, <2>1, FileAfter DEF Empty, NoFile
  <2> QED
    BY <2>1, <2>2, <2>3
<1>6. CASE ForeignCard
  BY <1>6 DEF ForeignCard, NoFile
<1>7. CASE Serve
  BY <1>7, <1>1, <1>2
  DEF Serve, ServeRequest, CheckDue, ClaimDue, Export, Mount, disk
<1>8. CASE Boot \/ Save
  BY <1>8, <1>1
  DEF Boot, RestoreIfMissing, CrashGuard, Start, Save, SaveBegin, SaveWrite, SaveRequest,
      ImportBegin, ImportWrite, disk
<1>9. CASE Fault \/ PowerLoss \/ Restart
  BY <1>9, <1>1 DEF Fault, PowerLoss, Restart, Reset, disk
<1> QED
  BY <1>1, <1>6, <1>7, <1>8, <1>9
  DEF Next, FactoryErase, FactoryFlag, SaveGoodNow, TenMinutes, TwoHours,
      CardComesAndGoes, disk

(* Without the serial number as a proof of origin, whatever the card goes  *)
(* through and wherever a run ends, the configuration in use is a whole    *)
(* one of this receiver (or the factory defaults).                         *)
THEOREM OnlyOwnHolds == ~FactorySerial /\ Spec => []OnlyOwn
<1>1. Init => OwnInv
  BY DEF Init, OwnInv, NoSave, Resting, Service, NoFile
<1>2. ~FactorySerial /\ TypeOK /\ OwnInv /\ [Next]_vars => OwnInv'
  <2> SUFFICES ASSUME ~FactorySerial, TypeOK, OwnInv, [Next]_vars PROVE OwnInv'
    OBVIOUS
  <2>1. CASE UNCHANGED vars
    BY <2>1 DEF vars, disk, OwnInv
  <2>2. CASE Next
    <3>1. save'.cfg \in Configs \union {None}
      BY <2>2, TypeStep DEF TypeOK, TaskTypes
    <3>2. {nvs, ram, save.cfg, svc.blob}' \subseteq Configs \union {None}
      BY <2>2, <3>1, OwnMemory, OwnBlob
    <3>3. \A n \in Names :
            files'[n].is = "whole" => files'[n].cfg \in Configs \union {None, Foreign}
      BY <2>2, OwnFiles
    <3> QED
      BY <3>2, <3>3 DEF OwnInv
  <2> QED
    BY <2>1, <2>2
<1>3. OwnInv => OnlyOwn
  BY DEF OwnInv, OnlyOwn
<1>4. CASE FactorySerial
  BY <1>4
<1>5. CASE ~FactorySerial
  <2>1. TypeOK /\ OwnInv /\ [Next]_vars => OwnInv'
    BY <1>2, <1>5
  <2> QED
    BY <1>1, <2>1, <1>3, ConfigTypes, PTL DEF Spec
<1> QED
  BY <1>4, <1>5

-----------------------------------------------------------------------------
(* A step of write_file moves svc on only when the card answers.           *)
LEMMA SvcOps ==
  /\ OpenTmp => svc.pc = "open" /\ (card => svc' = [svc EXCEPT !.pc = "write"])
  /\ Unlink => svc.pc = "unlink" /\ (card => svc' = [svc EXCEPT !.pc = "rename"])
  /\ WriteTmp => svc.pc = "write"
  /\ Rename => svc.pc = "rename"
BY Zenon DEF OpenTmp, WriteTmp, Unlink, Rename, FileOp

(* The temporary file is whole from the end of its writing to its renaming,*)
(* and the old file is gone when it takes its name.                        *)
LEMMA SwapStep == TypeOK /\ SwapInv /\ [Next]_vars => SwapInv'
<1> SUFFICES ASSUME TypeOK, SwapInv, [Next]_vars PROVE SwapInv'
  OBVIOUS
<1> USE DEF SwapInv, TypeOK
<1>1. CASE UNCHANGED <<files, svc>> /\ (card' => card)
  BY <1>1
<1>2. CASE svc'.pc \notin {"unlink", "rename"}
  BY <1>2
<1>3. CASE WriteTmp
  <2>1. \/ /\ files' = [files EXCEPT ![<<svc.which, "tmp">>] =
                            [is |-> "whole", cfg |-> svc.blob]]
           /\ svc' = [svc EXCEPT !.pc = "unlink"]
        \/ Done
    BY <1>3, Zenon DEF WriteTmp, FileOp
  <2>2. <<svc.which, "tmp">> \in Names
    BY DEF TaskTypes, Names
  <2>3. CASE Done
    BY <2>3, <1>2 DEF Done, Service, Resting
  <2> QED
    BY <2>1, <2>2, <2>3 DEF FileTypes, TaskTypes
<1>4. CASE Unlink
  <2>1. \/ /\ files' = [files EXCEPT ![<<svc.which, "file">>] = NoFile]
           /\ svc' = [svc EXCEPT !.pc = "rename"]
           /\ card
        \/ Done
    BY <1>4, Zenon DEF Unlink, FileOp
  <2>2. /\ svc.pc = "unlink"
        /\ <<svc.which, "tmp">> \in Names /\ <<svc.which, "file">> \in Names
    BY <1>4, SvcOps DEF TaskTypes, Names
  <2>3. CASE Done
    BY <2>3, <1>2 DEF Done, Service, Resting
  <2> QED
    BY <2>1, <2>2, <2>3 DEF FileTypes, TaskTypes
<1>5. CASE Rename
  <2>1. Done
    BY <1>5, Zenon DEF Rename, FileOp
  <2> QED
    BY <2>1, <1>2 DEF Done, Service, Resting
<1>6. CASE OpenTmp
  <2>1. svc' = [svc EXCEPT !.pc = "write"] \/ Done
    BY <1>6, Zenon DEF OpenTmp, FileOp
  <2> QED
    BY <2>1, <1>2 DEF Done, Service, Resting, TaskTypes
<1>7. CASE ServeRequest \/ CheckDue \/ ClaimDue \/ Export \/ Mount
  BY <1>7, <1>2
  DEF ServeRequest, CheckDue, ClaimDue, Export, Mount, Done, Service, Resting, TaskTypes
<1>8. CASE Fault \/ PowerLoss \/ Restart
  BY <1>8, <1>2 DEF Fault, PowerLoss, Restart, Reset, Service, Resting
<1>9. CASE CardComesAndGoes \/ ForeignCard
  BY <1>9 DEF CardComesAndGoes, ForeignCard, Mounted
<1>10. CASE Boot \/ Save
  BY <1>10, <1>1
  DEF Boot, RestoreIfMissing, CrashGuard, Start, Save, SaveBegin, SaveWrite, SaveRequest,
      ImportBegin, ImportWrite, disk
<1> QED
  BY <1>1, <1>3, <1>4, <1>5, <1>6, <1>7, <1>8, <1>9, <1>10
  DEF Next, Serve, FactoryErase, FactoryFlag, SaveGoodNow, TenMinutes, TwoHours, disk, vars

(* A step that finds a whole file, or the new one about to take its name,  *)
(* leaves one that a boot can read.                                        *)
LEMMA CopyStep ==
  ASSUME TypeOK, SwapInv, [Next]_vars, NEW c \in Copies,
         files[<<c, "file">>].is = "whole" \/ Replacing(c)
  PROVE  ReadCopy(c)'.is = "whole"
<1> USE DEF TypeOK, ReadCopy
<1> <<c, "file">> \in Names /\ <<c, "tmp">> \in Names /\ svc.which \in Copies
  BY DEF Names, TaskTypes
<1>1. ReadCopy(c).is = "whole"
  BY DEF Replacing, SwapInv, NoFile
<1>2. CASE UNCHANGED files
  BY <1>1, <1>2
<1>3. CASE OpenTmp \/ WriteTmp
  <2>1. files[<<c, "file">>].is = "whole"
    BY <1>3, SvcOps DEF Replacing
  <2>2. files'[<<c, "file">>] = files[<<c, "file">>]
    BY <1>3, FileOps DEF FileTypes
  <2> QED
    BY <2>1, <2>2 DEF NoFile
<1>4. CASE Unlink
  <2>1. files[<<c, "file">>].is = "whole" /\ svc.pc = "unlink"
    BY <1>4, SvcOps DEF Replacing
  <2>2. CASE svc.which = c /\ card
    <3>1. files' = [files EXCEPT ![<<c, "file">>] = NoFile]
      BY <1>4, <2>2, Zenon DEF Unlink, FileOp
    <3>2. files[<<c, "tmp">>].is = "whole"
      BY <2>1, <2>2 DEF SwapInv
    <3> QED
      BY <3>1, <3>2 DEF FileTypes
  <2>3. CASE ~card
    BY <1>4, <2>3, <1>2, Zenon DEF Unlink, FileOp
  <2>4. CASE svc.which # c
    BY <1>4, <2>1, <2>4, FileOps DEF FileTypes, NoFile
  <2> QED
    BY <2>2, <2>3, <2>4
<1>5. CASE Rename
  <2>1. svc.pc = "rename"
    BY <1>5, SvcOps
  <2>2. CASE svc.which = c /\ card
    <3>1. files' = [files EXCEPT ![<<c, "file">>] = files[<<c, "tmp">>],
                                ![<<c, "tmp">>] = NoFile]
      BY <1>5, <2>2, Zenon DEF Rename, FileOp
    <3>2. files[<<c, "tmp">>].is = "whole"
      BY <2>1, <2>2 DEF SwapInv
    <3> QED
      BY <3>1, <3>2 DEF FileTypes, NoFile
  <2>3. CASE ~card
    BY <1>5, <2>3, <1>2, Zenon DEF Rename, FileOp
  <2>4. CASE svc.which # c
    <3>1. files[<<c, "file">>].is = "whole"
      BY <2>4 DEF Replacing
    <3> QED
      BY <1>5, <3>1, <2>4, FileOps DEF FileTypes, NoFile
  <2> QED
    BY <2>2, <2>3, <2>4
<1>6. CASE ForeignCard
  BY <1>6 DEF ForeignCard, NoFile
<1>7. CASE Boot \/ Save
  BY <1>7, <1>2
  DEF Boot, RestoreIfMissing, CrashGuard, Start, Save, SaveBegin, SaveWrite, SaveRequest,
      ImportBegin, ImportWrite, disk
<1>8. CASE Fault \/ PowerLoss \/ Restart
  BY <1>8, <1>2 DEF Fault, PowerLoss, Restart, Reset, disk
<1> QED
  BY <1>2, <1>3, <1>4, <1>5, <1>6, <1>7, <1>8
  DEF Next, Serve, ServeRequest, CheckDue, ClaimDue, Export, Mount, FactoryErase,
      FactoryFlag, SaveGoodNow, TenMinutes, TwoHours, CardComesAndGoes, disk, vars

(* A copy on the card outlives one interruption of the next: at every step *)
(* from a whole file to the next one a boot finds a whole copy.            *)
THEOREM CopySurvivesACutHolds == Spec => CopySurvivesACut
<1>1. Init => SwapInv
  BY DEF Init, SwapInv, Resting, Service
<1>2. TypeOK /\ SwapInv /\ [Next]_vars =>
        [\A c \in Copies : files[<<c, "file">>].is = "whole" \/ Replacing(c)
                             => ReadCopy(c)'.is = "whole"]_vars
  BY CopyStep
<1> QED
  BY <1>1, <1>2, SwapStep, ConfigTypes, PTL DEF Spec, CopySurvivesACut
=============================================================================
