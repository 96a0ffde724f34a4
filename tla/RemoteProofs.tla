---------------------------- MODULE RemoteProofs ----------------------------
(***************************************************************************)
(* Proofs about the parts of Remote, each with its own invariant: the      *)
(* others leave its variables alone.                                       *)
(***************************************************************************)
EXTENDS Remote, Sequences, FiniteSetTheorems, WellFoundedInduction, TLAPS

(* The instances have their own copy of the size of a set.                 *)
LEMMA SizeIs == \A S : PJ!Cardinality(S) = Cardinality(S) /\ VP!Cardinality(S) = Cardinality(S)
BY Zenon DEF PJ!Cardinality, VP!Cardinality, Cardinality

-----------------------------------------------------------------------------
(* The alarms: what was told is a set of flags, in RAM and in the RTC.     *)

AlInv ==
    /\ caster \in [up : -1 .. FirstThreshold, down : -1 .. FirstThreshold, count : 0 .. 1]
    /\ reach \in BOOLEAN
    /\ rtc \in {"noise", "told", "fine"} /\ latch \in [AL!Watches \union {"caster"} -> BOOLEAN]
    /\ alPart \in {"wait", "notice", "caster", "note"} \union AL!Watches

LEMMA NoLatchType ==
    AL!NoLatch \in [AL!Watches \union {"caster"} -> BOOLEAN]
BY DEF AL!NoLatch

LEMMA AlInitInv == AL!AlInit => AlInv
<1> SUFFICES ASSUME AL!AlInit PROVE AlInv
  OBVIOUS
<1>1. caster = [up |-> -1, down |-> -1, count |-> 0] /\ rtc = "noise" /\ latch = AL!NoLatch
      /\ alPart = "wait" /\ reach \in BOOLEAN
  BY DEF AL!AlInit, AL!Never
<1> QED
  BY <1>1, NoLatchType, MinutesAssumption DEF AlInv

(* The counters of the caster stop at their threshold.                     *)
LEMMA NotedTypes ==
    ASSUME NEW c \in [up : -1 .. FirstThreshold, down : -1 .. FirstThreshold, count : 0 .. 1]
    PROVE  /\ AL!NotedConnected(c) \in
                 [up : -1 .. FirstThreshold, down : -1 .. FirstThreshold, count : 0 .. 1]
           /\ AL!NotedDisconnected(c) \in
                 [up : -1 .. FirstThreshold, down : -1 .. FirstThreshold, count : 0 .. 1]
<1>1. AL!NotedConnected(c) \in
         [up : -1 .. FirstThreshold, down : -1 .. FirstThreshold, count : 0 .. 1]
  <2>1. AL!NotedConnected(c) = [up |-> 0, down |-> c.down, count |-> 1]
    <3>1. AL!NotedConnected(c) = [c EXCEPT !.up = 0, !.count = 1]
      BY DEF AL!NotedConnected
    <3> QED
      BY <3>1
  <2>2. 0 \in -1 .. FirstThreshold /\ 1 \in 0 .. 1
    BY MinutesAssumption
  <2> QED
    BY <2>1, <2>2
<1>2. AL!NotedDisconnected(c) \in
         [up : -1 .. FirstThreshold, down : -1 .. FirstThreshold, count : 0 .. 1]
  <2> DEFINE d == IF c.up >= 1 \/ c.down = -1 THEN 0 ELSE c.down
  <2>1. d \in -1 .. FirstThreshold
    BY MinutesAssumption
  <2>2. AL!NotedDisconnected(c) = [c EXCEPT !.up = -1, !.down = d]
    BY DEF AL!NotedDisconnected, AL!Never
  <2> HIDE DEF d
  <2>3. AL!NotedDisconnected(c) = [up |-> -1, down |-> d, count |-> c.count]
    BY <2>2
  <2>4. -1 \in -1 .. FirstThreshold
    BY MinutesAssumption
  <2> QED
    BY <2>1, <2>3, <2>4
<1> QED
  BY <1>1, <1>2

LEMMA AlStep == AlInv /\ [AL!AlNext]_al => AlInv'
<1> SUFFICES ASSUME AlInv, [AL!AlNext]_al PROVE AlInv'
  OBVIOUS
<1> DEFINE Minutes == [up : -1 .. FirstThreshold, down : -1 .. FirstThreshold, count : 0 .. 1]
<1>1. CASE AL!CasterChanges \/ AL!CasterFlaps
  <2>1. caster' \in Minutes
    <3>1. CASE AL!CasterChanges
      BY <3>1, NotedTypes DEF AlInv, AL!CasterChanges
    <3>2. CASE AL!CasterFlaps
      <4>1. caster' = AL!NotedDisconnected(AL!NotedConnected(caster)) /\ caster \in Minutes
        BY <3>2 DEF AlInv, AL!CasterFlaps
      <4> HIDE DEF Minutes
      <4> QED
        BY <4>1, NotedTypes DEF Minutes
    <3> QED
      BY <1>1, <3>1, <3>2
  <2>2. UNCHANGED <<reach, rtc, latch, alPart>>
    BY <1>1 DEF AL!CasterChanges, AL!CasterFlaps
  <2> QED
    BY <2>1, <2>2 DEF AlInv
<1>2. CASE AL!WatchChanges \/ AL!ReachChanges \/ AL!NoticeDue \/ AL!Switches
  <2>1. UNCHANGED <<caster, rtc, latch, alPart>>
    BY <1>2 DEF AL!WatchChanges, AL!ReachChanges, AL!NoticeDue, AL!Switches
  <2>2. reach' \in BOOLEAN
    BY <1>2 DEF AlInv, AL!WatchChanges, AL!ReachChanges, AL!NoticeDue, AL!Switches
  <2> QED
    BY <2>1, <2>2 DEF AlInv
<1>3. CASE AL!Restarts
  <2>1. PICK r \in {rtc, "noise"} :
           rtc' = r /\ latch' = [AL!NoLatch EXCEPT !["caster"] = (r = "told")]
    BY <1>3 DEF AL!Restarts
  <2>2. caster' = [up |-> -1, down |-> -1, count |-> 0] /\ alPart' = "wait" /\ reach' = reach
    BY <1>3 DEF AL!Restarts, AL!Never
  <2>3. latch' \in [AL!Watches \union {"caster"} -> BOOLEAN]
    BY <2>1, NoLatchType
  <2>4. caster' \in Minutes
    BY <2>2, MinutesAssumption
  <2> QED
    BY <2>1, <2>2, <2>3, <2>4 DEF AlInv
<1>4. CASE AL!MinutePasses
  <2> DEFINE c == IF AL!Connected THEN caster ELSE AL!NotedDisconnected(caster)
  <2>1. caster' = [c EXCEPT !.up = AL!Older(@), !.down = AL!Older(@)]
        /\ UNCHANGED <<reach, rtc, latch>> /\ alPart' = "notice"
    BY <1>4 DEF AL!MinutePasses, AL!AtPart
  <2>2. c \in Minutes
    BY NotedTypes DEF AlInv
  <2> HIDE DEF c
  <2>3. \A m \in -1 .. FirstThreshold : AL!Older(m) \in -1 .. FirstThreshold
    BY MinutesAssumption DEF AL!Older, AL!Never, AL!Cap
  <2>4. caster' \in Minutes
    <3> DEFINE u == AL!Older(c.up)
               d == AL!Older(c.down)
    <3>1. caster' = [c EXCEPT !.up = u, !.down = d]
      BY <2>1, <2>2
    <3>2. u \in -1 .. FirstThreshold /\ d \in -1 .. FirstThreshold
      BY <2>2, <2>3
    <3> HIDE DEF u, d
    <3> QED
      BY <2>2, <3>1, <3>2
  <2> QED
    BY <2>1, <2>4 DEF AlInv
<1>5. CASE AL!TellsNotice \/ AL!TellsCaster \/ AL!CasterAsItWas
  <2>1. UNCHANGED <<caster, reach, rtc, latch>> /\ alPart' \in {"caster", "note", "drift"}
    BY <1>5 DEF AL!TellsNotice, AL!TellsCaster, AL!CasterAsItWas, AL!AtPart, AL!KeepsWorld,
                AL!KeepsAll
  <2> QED
    BY <2>1 DEF AlInv, AL!Watches
<1>6. CASE AL!Forgets
  <2>1. /\ caster' = caster /\ reach' = reach
        /\ rtc' = "fine" /\ latch' = AL!NoLatch /\ alPart' = "wait"
    BY <1>6 DEF AL!Forgets, AL!KeepsWorld
  <2> QED
    BY <2>1, NoLatchType DEF AlInv
<1>7. CASE AL!NoPackage
  <2>1. /\ caster' = caster /\ reach' = reach /\ rtc' = "fine" /\ alPart' = "drift"
        /\ latch' = [latch EXCEPT !["caster"] = FALSE]
    BY <1>7 DEF AL!NoPackage, AL!KeepsWorld, AL!AtPart
  <2> QED
    BY <2>1 DEF AlInv, AL!Watches
<1>8. CASE AL!NotesCaster
  <2>1. /\ caster' = caster /\ reach' = reach
        /\ rtc' \in {"told", "fine"} /\ alPart' = "drift"
        /\ latch' = [latch EXCEPT !["caster"] = ~@]
    BY <1>8 DEF AL!NotesCaster, AL!KeepsWorld, AL!AtPart
  <2> QED
    BY <2>1 DEF AlInv, AL!Watches
<1>9. ASSUME NEW w \in AL!Watches, AL!LooksAt(w) PROVE AlInv'
  <2>1. /\ caster' = caster /\ reach' = reach /\ rtc' = rtc /\ alPart' = AL!AfterWatch[w]
        /\ \/ latch' = [latch EXCEPT !["drift"] = FALSE]
           \/ \E b \in BOOLEAN : latch' = [latch EXCEPT ![w] = b]
    BY <1>9 DEF AL!LooksAt, AL!KeepsWorld, AL!AtPart
  <2>2. AL!AfterWatch[w] \in {"wait"} \union AL!Watches
    BY DEF AL!AfterWatch, AL!Watches
  <2>3. latch' \in [AL!Watches \union {"caster"} -> BOOLEAN]
    BY <2>1 DEF AlInv
  <2> QED
    BY <2>1, <2>2, <2>3 DEF AlInv
<1>10. CASE UNCHANGED al
  BY <1>10 DEF al, AlInv
<1> QED
  BY <1>1, <1>2, <1>3, <1>4, <1>5, <1>6, <1>7, <1>8, <1>9, <1>10 DEF AL!AlNext, AL!AlTask

LEMMA AlHolds == AlInv => AL!AlTypeOK
<1>1. DOMAIN AL!NoLatch = AL!Watches \union {"caster"}
  BY DEF AL!NoLatch
<1> QED
  BY <1>1 DEF AlInv, AL!AlTypeOK, AL!Never, AL!Cap

-----------------------------------------------------------------------------
(* The panel: one heavy operation at a time.                               *)

PjInv ==
    /\ jobTask \in [PJ!Kinds -> {"none", "works", "answered"}] /\ waiting \subseteq PJ!Kinds
    /\ \A k \in PJ!Heavy : jobTask[k] # "none" =>
         bgBusy /\ \A o \in PJ!Heavy : jobTask[o] # "none" => o = k

LEMMA PjInitInv == PJ!PjInit => PjInv
BY DEF PJ!PjInit, PjInv, PJ!Heavy, PJ!Kinds

LEMMA PjStep == PjInv /\ [PJ!PjNext]_pj => PjInv'
<1> SUFFICES ASSUME PjInv, [PJ!PjNext]_pj PROVE PjInv'
  OBVIOUS
<1> USE DEF PjInv
<1>0. PJ!Heavy \subseteq PJ!Kinds /\ "alerts" \notin PJ!Heavy
      /\ \A k \in PJ!Kinds : k # "alerts" => k \in PJ!Heavy
  BY DEF PJ!Heavy, PJ!Kinds
<1>1. ASSUME NEW k \in PJ!Kinds, PJ!StartJob(k) PROVE PjInv'
  <2>1. /\ jobTask' = [jobTask EXCEPT ![k] = "works"] /\ waiting' = waiting \union {k}
        /\ k # "alerts" => ~bgBusy /\ bgBusy' = TRUE
        /\ k = "alerts" => bgBusy' = bgBusy
    BY <1>1 DEF PJ!StartJob, PJ!MayAsk, PJ!Claims, PJ!Taken
  <2> QED
    BY <1>0, <2>1
<1>2. CASE PJ!SpeedTest \/ PJ!Mountpoints \/ PJ!CasterTest \/ PJ!Format \/ PJ!AlertsTest
  BY <1>1, <1>2 DEF PJ!SpeedTest, PJ!Mountpoints, PJ!CasterTest, PJ!Format, PJ!AlertsTest,
                    PJ!Kinds, PJ!Heavy
<1>3. CASE PJ!JobNotStarted
  BY <1>3 DEF PJ!JobNotStarted, PJ!GivesBack
<1>4. ASSUME NEW k \in PJ!Kinds, PJ!AnswersJob(k) PROVE PjInv'
  <2>1. /\ jobTask[k] = "works" /\ jobTask' = [jobTask EXCEPT ![k] = "answered"]
        /\ waiting' = waiting \ {k} /\ bgBusy' = bgBusy
    BY <1>4 DEF PJ!AnswersJob
  <2> QED
    BY <1>0, <2>1
<1>5. ASSUME NEW k \in PJ!Kinds, PJ!EndsJob(k) PROVE PjInv'
  <2>1. /\ jobTask[k] = "answered" /\ jobTask' = [jobTask EXCEPT ![k] = "none"]
        /\ waiting' = waiting /\ (k = "alerts" => bgBusy' = bgBusy)
    BY <1>5 DEF PJ!EndsJob
  <2> QED
    BY <1>0, <2>1
<1>6. CASE PJ!UpdateGoes
  BY <1>6 DEF PJ!UpdateGoes
<1>7. CASE UNCHANGED pj
  BY <1>7 DEF pj
<1> QED
  BY <1>2, <1>3, <1>4, <1>5, <1>6, <1>7 DEF PJ!PjNext, PJ!Runs

LEMMA PjHolds == PjInv => PJ!PjTypeOK
<1> SUFFICES ASSUME PjInv PROVE PJ!PjTypeOK
  OBVIOUS
<1> DEFINE H == {k \in PJ!Heavy : jobTask[k] # "none"}
<1>1. H = {} \/ \E k : H = {k}
  BY DEF PjInv
<1> HIDE DEF H
<1>2. Cardinality(H) <= 1
  <2>1. CASE H = {}
    BY <2>1, FS_EmptySet
  <2>2. CASE \E k : H = {k}
    BY <2>2, FS_Singleton
  <2> QED
    BY <1>1, <2>1, <2>2
<1>3. PJ!Cardinality(H) <= 1
  BY <1>2, SizeIs
<1> QED
  BY <1>3 DEF H, PjInv, PJ!PjTypeOK

-----------------------------------------------------------------------------
(* The licence: the days are bounded by the wrong clock, and the licence   *)
(* in use is the one in the flash but for the two steps of a job that are  *)
(* between the flash and the RAM.                                          *)

Days     == 0 .. LastDay + Ahead
Licences == [key : Nat, issued : 0 .. LastDay]
Parts    == [dkey : Nat, pack : Licences, contact : Days, lasttime : Days]
Programs ==
    [pc : {"off", "migrate", "start", "key", "up"}, todo : SUBSET LC!Entries, key : Nat,
     lic : Licences, contact : Days, time : Days, stored : BOOLEAN, granted : BOOLEAN,
     suspended : Int, busy : BOOLEAN, tail : BOOLEAN]
JobSteps == {"none", "activate", "renew", "ram", "reset", "contact", "forget", "forget2"}
LcTypes ==
    /\ today \in 1 .. LastDay /\ clock \in [valid : BOOLEAN, ahead : {0, Ahead}]
    /\ nvs \in [main : Parts, part : Parts] /\ twoParts \in BOOLEAN /\ firstKey \in Nat
    /\ lc \in Programs /\ job \in [step : JobSteps, lic : Licences, new : BOOLEAN]

InFlash ==
    /\ lc.busy = (job.step # "none") /\ (job.step # "none" => lc.pc = "up")
    /\ lc.pc = "up" =>
         CASE job.step = "ram"     -> LC!Store.pack = job.lic /\ job.lic.key = lc.key
           [] job.step = "forget2" -> LC!Store.pack = LC!NoLic
           [] OTHER                -> lc.lic = LC!LoadStored
LcInv == LcTypes /\ InFlash

(* The values a start finds.                                               *)
LEMMA Limits ==
    /\ LC!NoLic \in Licences /\ LC!Empty \in Parts /\ 0 \in Days
    /\ today \in 1 .. LastDay => today \in 0 .. LastDay
    /\ \A d \in 0 .. LastDay : d \in Days
BY DaysAssumption DEF LC!NoLic, LC!Empty, Licences, Parts, Days

(* The day the clock shows.                                                *)
LEMMA NowIn == LcTypes => LC!Now \in Days
BY DaysAssumption DEF LcTypes, LC!Now, Days

(* What is read of the flash is a part of it.                              *)
LEMMA StoreIn == LcTypes => LC!Store \in Parts
BY DEF LcTypes, LC!Store

(* The licence a start loads.                                              *)
LEMMA LoadedIn == LcTypes => LC!LoadStored \in Licences
BY StoreIn, Limits DEF LC!LoadStored, LC!Verified, Parts

(* A part of the flash with an entry of the other.                         *)
LEMMA CopiedIn ==
    ASSUME NEW r \in Parts, NEW q \in Parts, NEW e \in LC!Entries
    PROVE  [r EXCEPT ![e] = q[e]] \in Parts
<1>1. CASE e = "dkey"
  BY <1>1 DEF Parts
<1>2. CASE e = "pack"
  BY <1>2 DEF Parts
<1>3. CASE e = "contact"
  BY <1>3 DEF Parts
<1>4. CASE e = "lasttime"
  BY <1>4 DEF Parts
<1> QED
  BY <1>1, <1>2, <1>3, <1>4 DEF LC!Entries

(* What is written is in the partition the program reads.                  *)
LEMMA PutIs ==
    ASSUME LcTypes, NEW e \in LC!Entries, NEW v, LC!Put(e, v), UNCHANGED twoParts,
           [LC!Store EXCEPT ![e] = v] \in Parts
    PROVE  nvs' \in [main : Parts, part : Parts] /\ LC!Store' = [LC!Store EXCEPT ![e] = v]
<1>1. CASE twoParts
  <2>1. nvs' = [nvs EXCEPT !.part[e] = v]
    BY <1>1 DEF LC!Put
  <2>2. nvs \in [main : Parts, part : Parts] /\ LC!Store = nvs.part
    BY <1>1 DEF LcTypes, LC!Store
  <2> DEFINE q == [LC!Store EXCEPT ![e] = v]
  <2>3. nvs' = [nvs EXCEPT !.part = q]
    BY <2>1, <2>2
  <2>4. q \in Parts
    OBVIOUS
  <2> HIDE DEF q
  <2>5. nvs' \in [main : Parts, part : Parts] /\ nvs'.part = q
    BY <2>2, <2>3, <2>4
  <2>6. LC!Store' = nvs'.part
    BY <1>1 DEF LC!Store
  <2> QED
    BY <2>5, <2>6 DEF q
<1>2. CASE ~twoParts
  <2>1. nvs' = [nvs EXCEPT !.main[e] = v]
    BY <1>2 DEF LC!Put
  <2>2. nvs \in [main : Parts, part : Parts] /\ LC!Store = nvs.main
    BY <1>2 DEF LcTypes, LC!Store
  <2> DEFINE q == [LC!Store EXCEPT ![e] = v]
  <2>3. nvs' = [nvs EXCEPT !.main = q]
    BY <2>1, <2>2
  <2>4. q \in Parts
    OBVIOUS
  <2> HIDE DEF q
  <2>5. nvs' \in [main : Parts, part : Parts] /\ nvs'.main = q
    BY <2>2, <2>3, <2>4
  <2>6. LC!Store' = nvs'.main
    BY <1>2 DEF LC!Store
  <2> QED
    BY <2>5, <2>6 DEF q
<1> QED
  BY <1>1, <1>2

(* A write of anything but the licence leaves the licence.                 *)
LEMMA PutKeeps ==
    ASSUME LcTypes, NEW e \in {"contact", "lasttime"}, NEW v \in Days, LC!Put(e, v),
           UNCHANGED twoParts
    PROVE  nvs' \in [main : Parts, part : Parts] /\ LC!Store'.pack = LC!Store.pack
<1>1. LC!Store \in Parts
  BY StoreIn
<1>2. [LC!Store EXCEPT ![e] = v] \in Parts
  <2>1. CASE e = "contact"
    BY <1>1, <2>1 DEF Parts
  <2>2. CASE e = "lasttime"
    BY <1>1, <2>2 DEF Parts
  <2> QED
    BY <2>1, <2>2
<1>3. e \in LC!Entries
  BY DEF LC!Entries
<1>4. nvs' \in [main : Parts, part : Parts] /\ LC!Store' = [LC!Store EXCEPT ![e] = v]
  BY <1>2, <1>3, PutIs
<1> HIDE DEF LC!Store
<1> QED
  BY <1>1, <1>4 DEF Parts

(* The library's maximum, of the sets the licence takes it of.             *)
LEMMA MaxIn ==
    /\ \A a, b \in Int : LC!Max({a, b}) \in Int
    /\ \A a, b, c, d \in Int : /\ LC!Max({a, b, c, d}) \in {a, b, c, d}
                              /\ LC!Max({a, b, c, d}) \in Int
<1>1. ASSUME NEW a \in Int, NEW b \in Int PROVE LC!Max({a, b}) \in Int
  <2>1. \E x \in {a, b} : \A y \in {a, b} : x >= y
    OBVIOUS
  <2>2. LC!Max({a, b}) \in {a, b}
    BY <2>1 DEF LC!Max
  <2> QED
    BY <2>2
<1>2. ASSUME NEW a \in Int, NEW b \in Int, NEW c \in Int, NEW d \in Int
      PROVE  LC!Max({a, b, c, d}) \in {a, b, c, d} /\ LC!Max({a, b, c, d}) \in Int
  <2>1. \E x \in {a, b, c, d} : \A y \in {a, b, c, d} : x >= y
    OBVIOUS
  <2>2. LC!Max({a, b, c, d}) \in {a, b, c, d}
    BY <2>1 DEF LC!Max
  <2> QED
    BY <2>2
<1> QED
  BY <1>1, <1>2

LEMMA LcInitInv == LC!LcInit => LcInv
<1> SUFFICES ASSUME LC!LcInit PROVE LcInv
  OBVIOUS
<1>1. PICK used \in BOOLEAN :
        /\ nvs = [main |-> IF used THEN [dkey |-> 1, pack |-> [key |-> 1, issued |-> 1],
                                         contact |-> 1, lasttime |-> 1] ELSE LC!Empty,
                  part |-> LC!Empty]
        /\ firstKey = IF used THEN 1 ELSE 0
  BY DEF LC!LcInit
<1>2. [dkey |-> 1, pack |-> [key |-> 1, issued |-> 1], contact |-> 1, lasttime |-> 1] \in Parts
  BY DaysAssumption DEF Parts, Licences, Days
<1>3. nvs \in [main : Parts, part : Parts] /\ firstKey \in Nat
  BY <1>1, <1>2, Limits
<1>4. /\ today = 1 /\ clock = [valid |-> FALSE, ahead |-> 0] /\ twoParts \in BOOLEAN
      /\ lc = LC!Off /\ job = LC!Idle
  BY DEF LC!LcInit
<1>5. lc \in Programs
  BY <1>4, Limits DEF LC!Off, Programs
<1>6. job \in [step : JobSteps, lic : Licences, new : BOOLEAN]
  BY <1>4, Limits DEF LC!Idle, JobSteps
<1>7. LcTypes
  BY <1>3, <1>4, <1>5, <1>6, DaysAssumption DEF LcTypes
<1>8. lc.busy = FALSE /\ job.step = "none" /\ lc.pc = "off"
  BY <1>4 DEF LC!Off, LC!Idle
<1> QED
  BY <1>7, <1>8 DEF LcInv, InFlash

(* The start of a job, and its end.                                        *)
LEMMA StartsIs ==
    ASSUME LcInv, NEW step \in JobSteps \ {"none", "ram", "forget2"}, LC!Starts(step),
           lc.pc = "up"
    PROVE  LcInv'
<1>1. /\ lc' = [lc EXCEPT !.busy = TRUE] /\ job' = [LC!Idle EXCEPT !.step = step] /\ ~lc.busy
      /\ UNCHANGED <<today, clock, nvs, twoParts, firstKey>>
  BY DEF LC!Starts
<1>2. lc' \in Programs /\ lc'.pc = lc.pc /\ lc'.busy = TRUE /\ lc'.key = lc.key /\ lc'.lic = lc.lic
  BY <1>1 DEF LcInv, LcTypes, Programs
<1>3. job' = [step |-> step, lic |-> LC!NoLic, new |-> FALSE]
  BY <1>1 DEF LC!Idle
<1>4. job' \in [step : JobSteps, lic : Licences, new : BOOLEAN] /\ job'.step = step
  BY <1>3, Limits
<1>5. LC!Store' = LC!Store
  BY <1>1 DEF LC!Store
<1>6. LC!LoadStored' = LC!LoadStored
  BY <1>2, <1>5 DEF LC!LoadStored
<1>7. lc.lic = LC!LoadStored
  BY <1>1 DEF LcInv, InFlash
<1>8. LcTypes'
  BY <1>1, <1>2, <1>4 DEF LcInv, LcTypes
<1>9. InFlash'
  BY <1>2, <1>4, <1>6, <1>7 DEF InFlash
<1> QED
  BY <1>8, <1>9 DEF LcInv

(* A step that changes neither the program but for its days, nor the       *)
(* licence of the flash, nor the kind of step of the job.                  *)
LEMMA Beside ==
    ASSUME LcInv, LcTypes', lc'.pc = lc.pc, lc'.key = lc.key, lc'.lic = lc.lic,
           lc'.busy = (job'.step # "none"),
           LC!Store'.pack = LC!Store.pack,
           \/ job'.step = job.step /\ job'.lic = job.lic
           \/ job.step \notin {"ram", "forget2"} /\ job'.step \notin {"ram", "forget2"}
              /\ (job'.step # "none" => job.step # "none")
    PROVE  LcInv'
<1>1. LC!LoadStored' = LC!LoadStored
  BY DEF LC!LoadStored
<1> QED
  BY <1>1 DEF LcInv, InFlash

LEMMA LcStep == LcInv /\ [LC!LcNext]_li => LcInv'
<1> SUFFICES ASSUME LcInv, [LC!LcNext]_li PROVE LcInv'
  OBVIOUS
<1>0. LcTypes /\ InFlash /\ LC!Store \in Parts /\ LC!Now \in Days
  BY StoreIn, NowIn DEF LcInv
<1>1. CASE LC!NextDay
  <2>1. today < LastDay /\ today' = today + 1
        /\ UNCHANGED <<clock, nvs, twoParts, lc, job, firstKey>>
    BY <1>1 DEF LC!NextDay
  <2>2. LcTypes'
    BY <2>1, <1>0, DaysAssumption DEF LcTypes
  <2>3. LC!Store' = LC!Store
    BY <2>1 DEF LC!Store
  <2> QED
    BY <2>1, <2>2, <2>3, <1>0, Beside DEF InFlash
<1>2. CASE LC!ClockSet
  <2>1. clock' \in {[valid |-> TRUE, ahead |-> 0], [valid |-> TRUE, ahead |-> Ahead]}
        /\ UNCHANGED <<today, nvs, twoParts, lc, job, firstKey>>
    BY <1>2 DEF LC!ClockSet
  <2>a. clock' \in [valid : BOOLEAN, ahead : {0, Ahead}]
    <3>1. CASE clock' = [valid |-> TRUE, ahead |-> 0]
      BY <3>1
    <3>2. CASE clock' = [valid |-> TRUE, ahead |-> Ahead]
      BY <3>2
    <3> QED
      BY <2>1, <3>1, <3>2
  <2>2. LcTypes'
    BY <2>1, <2>a, <1>0 DEF LcTypes
  <2>3. LC!Store' = LC!Store
    BY <2>1 DEF LC!Store
  <2> QED
    BY <2>1, <2>2, <2>3, <1>0, Beside DEF InFlash
<1>3. CASE LC!PowerCut
  <2>1. /\ lc' = LC!Off /\ job' = LC!Idle /\ clock' \in {clock, [valid |-> FALSE, ahead |-> 0]}
        /\ UNCHANGED <<today, nvs, twoParts, firstKey>>
    BY <1>3 DEF LC!PowerCut
  <2>2. lc' \in Programs /\ lc'.pc = "off" /\ lc'.busy = FALSE
    BY <2>1, Limits DEF LC!Off, Programs
  <2>3. job' \in [step : JobSteps, lic : Licences, new : BOOLEAN] /\ job'.step = "none"
    BY <2>1, Limits DEF LC!Idle, JobSteps
  <2>a. clock' \in [valid : BOOLEAN, ahead : {0, Ahead}]
    <3>1. CASE clock' = [valid |-> FALSE, ahead |-> 0]
      BY <3>1
    <3>2. CASE clock' = clock
      BY <3>2, <1>0 DEF LcTypes
    <3> QED
      BY <2>1, <3>1, <3>2
  <2>4. LcTypes'
    BY <2>1, <2>2, <2>3, <2>a, <1>0 DEF LcTypes
  <2> QED
    BY <2>2, <2>3, <2>4 DEF LcInv, InFlash
<1>4. CASE LC!PowerOn
  <2>1. lc' = [lc EXCEPT !.pc = "migrate", !.todo = LC!Present("main")]
        \/ lc' = [lc EXCEPT !.pc = "start"]
    BY <1>4 DEF LC!PowerOn
  <2>2. LC!Present("main") \subseteq LC!Entries
    BY DEF LC!Present
  <2>3. lc.pc = "off" /\ UNCHANGED <<today, clock, nvs, twoParts, job, firstKey>>
    BY <1>4 DEF LC!PowerOn
  <2>4. lc' \in Programs /\ lc'.pc \in {"migrate", "start"} /\ lc'.busy = lc.busy
    BY <2>1, <2>2, <1>0 DEF LcTypes, Programs
  <2>5. LcTypes'
    BY <2>3, <2>4, <1>0 DEF LcTypes
  <2> QED
    BY <2>3, <2>4, <2>5, <1>0 DEF LcInv, InFlash
<1>5. CASE LC!Migrates
  <2>1. lc.pc = "migrate" /\ UNCHANGED <<today, clock, twoParts, job, firstKey>>
    BY <1>5 DEF LC!Migrates
  <2>2. nvs' \in [main : Parts, part : Parts] /\ lc' \in Programs /\ lc'.pc \in {"migrate", "start"}
        /\ lc'.busy = lc.busy
    <3>1. ASSUME NEW e \in lc.todo, nvs' = [nvs EXCEPT !.part[e] = nvs.main[e]],
                 lc' = [lc EXCEPT !.todo = @ \ {e}]
          PROVE  nvs' \in [main : Parts, part : Parts] /\ lc' \in Programs
                 /\ lc'.pc \in {"migrate", "start"} /\ lc'.busy = lc.busy
      <4> DEFINE q == [nvs.part EXCEPT ![e] = nvs.main[e]]
      <4>1. nvs \in [main : Parts, part : Parts] /\ e \in LC!Entries
        BY <1>0, <3>1 DEF LcTypes, Programs
      <4>2. nvs' = [nvs EXCEPT !.part = q]
        BY <3>1, <4>1
      <4>3. q \in Parts
        BY <4>1, CopiedIn
      <4> HIDE DEF q
      <4>4. nvs' \in [main : Parts, part : Parts]
        BY <4>1, <4>2, <4>3
      <4>5. lc' \in Programs /\ lc'.pc = lc.pc /\ lc'.busy = lc.busy
        BY <3>1, <1>0 DEF LcTypes, Programs
      <4> QED
        BY <4>4, <4>5, <2>1
    <3>2. ASSUME lc' = [lc EXCEPT !.pc = "start"], UNCHANGED nvs
          PROVE  nvs' \in [main : Parts, part : Parts] /\ lc' \in Programs
                 /\ lc'.pc \in {"migrate", "start"} /\ lc'.busy = lc.busy
      BY <3>2, <1>0 DEF LcTypes, Programs
    <3> QED
      BY <1>5, <3>1, <3>2 DEF LC!Migrates
  <2>3. LcTypes'
    BY <2>1, <2>2, <1>0 DEF LcTypes
  <2> QED
    BY <2>1, <2>2, <2>3, <1>0 DEF LcInv, InFlash
<1>6. CASE LC!LoadsKey
  <2> DEFINE k == IF LC!Store.dkey # 0 THEN LC!Store.dkey ELSE firstKey + 1
             cd == LC!Store.contact
             td == LC!Store.lasttime
  <2>1. /\ lc.pc = "start" /\ LC!Put("dkey", k) /\ lc' = LC!LoadTimes([lc EXCEPT !.pc = "key", !.key = k])
        /\ firstKey' \in {k, firstKey} /\ UNCHANGED <<today, clock, twoParts, job>>
    BY <1>6 DEF LC!LoadsKey
  <2>2. k \in Nat
    BY <1>0 DEF Parts, LcTypes
  <2>3. cd \in Days /\ td \in Days
    BY <1>0 DEF Parts
  <2>4. lc' = [[lc EXCEPT !.pc = "key", !.key = k] EXCEPT !.contact = cd, !.time = td]
    BY <2>1 DEF LC!LoadTimes
  <2> HIDE DEF k, cd, td
  <2>5. lc' \in Programs /\ lc'.pc = "key" /\ lc'.busy = lc.busy
    BY <2>2, <2>3, <2>4, <1>0 DEF LcTypes, Programs
  <2>6. [LC!Store EXCEPT !["dkey"] = k] \in Parts
    BY <2>2, <1>0 DEF Parts
  <2>7. nvs' \in [main : Parts, part : Parts]
    BY <2>1, <2>6, <1>0, PutIs DEF LC!Entries
  <2>8. LcTypes'
    BY <2>1, <2>2, <2>5, <2>7, <1>0 DEF LcTypes
  <2> QED
    BY <2>1, <2>5, <2>8, <1>0 DEF LcInv, InFlash
<1>7. CASE LC!Grants
  <2> DEFINE l   == LC!LoadStored
             now == LC!Latest(l, lc.contact, lc.time)
             out == LC!IsSuspended(l, lc.contact, now)
             st  == LC!Store.pack # LC!NoLic
             gr  == LC!Unexpired(l, now) /\ ~out
             su  == IF out THEN LC!Silent(l, lc.contact, now) ELSE 0
  <2>1. /\ lc.pc = "key" /\ lc' = [lc EXCEPT !.pc = "up", !.lic = l, !.stored = st, !.granted = gr,
                                             !.suspended = su]
        /\ UNCHANGED <<today, clock, nvs, twoParts, job, firstKey>>
    BY <1>7 DEF LC!Grants
  <2>2. l \in Licences
    BY <1>0, LoadedIn
  <2>3. su \in Int
    <3>1. l.issued \in Int /\ lc.contact \in Int /\ lc.time \in Int /\ LC!Now \in Int
      BY <2>2, <1>0, DaysAssumption DEF Licences, LcTypes, Programs, Days
    <3> HIDE DEF l
    <3> DEFINE n == IF LC!timeOk THEN LC!Now ELSE 0
    <3>2. n \in Int
      BY <3>1
    <3> HIDE DEF n
    <3>3. LC!Max({n, l.issued, lc.contact, lc.time}) \in Int
      BY <3>1, <3>2, MaxIn
    <3>4. now \in Int
      BY <3>3 DEF n, LC!Latest
    <3> HIDE DEF now
    <3>5. LC!Ref(l, lc.contact) \in Int
      BY <3>1, MaxIn DEF LC!Ref
    <3>6. LC!Silent(l, lc.contact, now) \in Int
      BY <3>4, <3>5 DEF LC!Silent
    <3> QED
      BY <3>6
  <2>4. gr \in BOOLEAN /\ st \in BOOLEAN
    OBVIOUS
  <2>5. LC!Store' = LC!Store
    BY <2>1 DEF LC!Store
  <2> HIDE DEF st, gr, su, l
  <2>6. /\ lc' \in Programs /\ lc'.pc = "up" /\ lc'.busy = lc.busy /\ lc'.key = lc.key /\ lc'.lic = l
    BY <2>1, <2>2, <2>3, <2>4, <1>0 DEF LcTypes, Programs
  <2>7. LC!LoadStored' = l
    BY <2>5, <2>6 DEF LC!LoadStored, l
  <2>8. LcTypes'
    BY <2>1, <2>6, <1>0 DEF LcTypes
  <2>9. job.step = "none"
    BY <2>1, <1>0 DEF InFlash
  <2> QED
    BY <2>1, <2>6, <2>7, <2>8, <2>9, <1>0 DEF LcInv, InFlash
<1>8. CASE LC!TickTime
  <2>1. /\ LC!Now > lc.time /\ UNCHANGED <<today, clock, twoParts, job, firstKey>>
        /\ \/ lc' = [lc EXCEPT !.time = LC!Store.lasttime] /\ UNCHANGED nvs
           \/ lc' = [lc EXCEPT !.time = LC!Now] /\ LC!Put("lasttime", LC!Now)
    BY <1>8 DEF LC!TickTime
  <2>2. /\ nvs' \in [main : Parts, part : Parts] /\ LC!Store'.pack = LC!Store.pack
    <3>1. CASE UNCHANGED nvs
      BY <2>1, <3>1, <1>0 DEF LC!Store, LcTypes
    <3>2. CASE LC!Put("lasttime", LC!Now)
      BY <2>1, <3>2, <1>0, PutKeeps
    <3> QED
      BY <2>1, <3>1, <3>2
  <2>3. PICK d \in Days : lc' = [lc EXCEPT !.time = d]
    BY <2>1, <1>0 DEF Parts
  <2>4. lc' \in Programs /\ lc'.pc = lc.pc /\ lc'.key = lc.key /\ lc'.lic = lc.lic /\ lc'.busy = lc.busy
    BY <2>3, <1>0 DEF LcTypes, Programs
  <2>5. LcTypes'
    BY <2>1, <2>2, <2>4, <1>0 DEF LcTypes
  <2> QED
    BY <2>1, <2>2, <2>4, <2>5, <1>0, Beside DEF InFlash
<1>9. CASE LC!TickRenew \/ LC!PanelRenew \/ LC!Activate \/ LC!Forgets
  BY <1>9, StartsIs DEF LC!TickRenew, LC!PanelRenew, LC!Activate, LC!Forgets, JobSteps
<1>10. CASE LC!Fails
  <2>1. /\ job.step \in {"activate", "renew"} /\ lc' = [lc EXCEPT !.busy = FALSE] /\ job' = LC!Idle
        /\ UNCHANGED <<today, clock, nvs, twoParts, firstKey>>
    BY <1>10 DEF LC!Fails, LC!Asking, LC!JobEnds
  <2>2. lc' \in Programs /\ lc'.pc = lc.pc /\ lc'.key = lc.key /\ lc'.lic = lc.lic /\ lc'.busy = FALSE
    BY <2>1, <1>0 DEF LcTypes, Programs
  <2>3. job' \in [step : JobSteps, lic : Licences, new : BOOLEAN] /\ job'.step = "none"
    BY <2>1, Limits DEF LC!Idle, JobSteps
  <2>4. LC!Store' = LC!Store
    BY <2>1 DEF LC!Store
  <2>5. LcTypes'
    BY <2>1, <2>2, <2>3, <1>0 DEF LcTypes
  <2> QED
    BY <2>1, <2>2, <2>3, <2>4, <2>5, <1>0, Beside
<1>11. CASE LC!Unchanged304
  <2>1. /\ job.step = "renew" /\ job' = [job EXCEPT !.step = "contact"]
        /\ UNCHANGED <<today, clock, nvs, twoParts, lc, firstKey>>
    BY <1>11 DEF LC!Unchanged304
  <2>2. job' \in [step : JobSteps, lic : Licences, new : BOOLEAN] /\ job'.step = "contact"
    BY <2>1, <1>0 DEF LcTypes, JobSteps
  <2>3. LC!Store' = LC!Store
    BY <2>1 DEF LC!Store
  <2>4. LcTypes'
    BY <2>1, <2>2, <1>0 DEF LcTypes
  <2> QED
    BY <2>1, <2>2, <2>3, <2>4, <1>0, Beside DEF InFlash
<1>12. CASE LC!Accepts
  <2> DEFINE l == [key |-> lc.key, issued |-> today]
             n == lc.lic = LC!NoLic \/ today > lc.lic.issued
  <2>1. /\ job.step \in {"activate", "renew"} /\ LC!Put("pack", l)
        /\ job' = [step |-> "ram", lic |-> l, new |-> n]
        /\ UNCHANGED <<today, clock, twoParts, lc, firstKey>>
    BY <1>12 DEF LC!Accepts, LC!Answered, LC!Asking, LC!StoresPack
  <2>2. l \in Licences /\ l.key = lc.key
    BY <1>0, DaysAssumption DEF LcTypes, Programs, Licences
  <2>3. n \in BOOLEAN
    OBVIOUS
  <2> HIDE DEF l, n
  <2>4. [LC!Store EXCEPT !["pack"] = l] \in Parts
    BY <2>2, <1>0 DEF Parts
  <2>5. nvs' \in [main : Parts, part : Parts] /\ LC!Store' = [LC!Store EXCEPT !["pack"] = l]
    BY <2>1, <2>4, <1>0, PutIs DEF LC!Entries
  <2>6. LC!Store'.pack = l
    BY <2>5, <1>0 DEF Parts
  <2>7. job' \in [step : JobSteps, lic : Licences, new : BOOLEAN] /\ job'.step = "ram" /\ job'.lic = l
    BY <2>1, <2>2, <2>3 DEF JobSteps
  <2>8. LcTypes'
    BY <2>1, <2>5, <2>7, <1>0 DEF LcTypes
  <2> QED
    BY <2>1, <2>2, <2>6, <2>7, <2>8, <1>0 DEF LcInv, InFlash
<1>13. CASE LC!TakesOver
  <2> DEFINE st == IF job.new THEN "reset" ELSE "contact"
  <2>1. /\ job.step = "ram" /\ lc' = [lc EXCEPT !.lic = job.lic, !.stored = TRUE]
        /\ job' = [job EXCEPT !.step = st]
        /\ UNCHANGED <<today, clock, nvs, twoParts, firstKey>>
    BY <1>13 DEF LC!TakesOver
  <2>2. st \in {"reset", "contact"}
    OBVIOUS
  <2> HIDE DEF st
  <2>3. /\ lc' \in Programs /\ lc'.pc = lc.pc /\ lc'.key = lc.key /\ lc'.lic = job.lic
        /\ lc'.busy = lc.busy
    BY <2>1, <1>0 DEF LcTypes, Programs
  <2>4. job' \in [step : JobSteps, lic : Licences, new : BOOLEAN] /\ job'.step \in {"reset", "contact"}
    BY <2>1, <2>2, <1>0 DEF LcTypes, JobSteps
  <2>5. LC!Store' = LC!Store
    BY <2>1 DEF LC!Store
  <2>6. LC!LoadStored' = LC!Verified(LC!Store.pack, lc.key)
    BY <2>3, <2>5 DEF LC!LoadStored
  <2>7. lc.pc = "up" /\ LC!Store.pack = job.lic /\ job.lic.key = lc.key
    BY <2>1, <1>0 DEF InFlash
  <2>8. LC!LoadStored' = job.lic
    BY <2>6, <2>7 DEF LC!Verified
  <2>9. LcTypes'
    BY <2>1, <2>3, <2>4, <1>0 DEF LcTypes
  <2> QED
    BY <2>1, <2>3, <2>4, <2>7, <2>8, <2>9, <1>0 DEF LcInv, InFlash
<1>14. CASE LC!ResetsTime
  <2>1. /\ job.step = "reset" /\ job' = [job EXCEPT !.step = "contact"]
        /\ \/ LC!Put("lasttime", job.lic.issued) /\ lc' = [lc EXCEPT !.time = job.lic.issued]
           \/ UNCHANGED <<nvs, lc>>
        /\ UNCHANGED <<today, clock, twoParts, firstKey>>
    BY <1>14 DEF LC!ResetsTime
  <2>2. job' \in [step : JobSteps, lic : Licences, new : BOOLEAN] /\ job'.step = "contact"
    BY <2>1, <1>0 DEF LcTypes, JobSteps
  <2>3. job.lic.issued \in Days
    BY <1>0, Limits DEF LcTypes, Licences
  <2>4. nvs' \in [main : Parts, part : Parts] /\ LC!Store'.pack = LC!Store.pack
    <3>1. CASE UNCHANGED nvs
      BY <2>1, <3>1, <1>0 DEF LC!Store, LcTypes
    <3>2. CASE LC!Put("lasttime", job.lic.issued)
      BY <2>1, <2>3, <3>2, <1>0, PutKeeps
    <3> QED
      BY <2>1, <3>1, <3>2
  <2>5. lc' \in Programs /\ lc'.pc = lc.pc /\ lc'.key = lc.key /\ lc'.lic = lc.lic /\ lc'.busy = lc.busy
    BY <2>1, <2>3, <1>0 DEF LcTypes, Programs
  <2>6. LcTypes'
    BY <2>1, <2>2, <2>4, <2>5, <1>0 DEF LcTypes
  <2> QED
    BY <2>1, <2>2, <2>4, <2>5, <2>6, <1>0, Beside DEF InFlash
<1>15. CASE LC!NotesContact
  <2> DEFINE day == IF job.new THEN job.lic.issued ELSE LC!Now
  <2>1. /\ job.step = "contact" /\ job' = LC!Idle
        /\ \/ LC!Put("contact", day) /\ lc' = [[lc EXCEPT !.contact = day] EXCEPT !.busy = FALSE]
           \/ UNCHANGED nvs /\ lc' = [lc EXCEPT !.busy = FALSE]
        /\ UNCHANGED <<today, clock, twoParts, firstKey>>
    BY <1>15 DEF LC!NotesContact, LC!JobEnds
  <2>2. job' \in [step : JobSteps, lic : Licences, new : BOOLEAN] /\ job'.step = "none"
    BY <2>1, Limits DEF LC!Idle, JobSteps
  <2>3. day \in Days
    BY <1>0, Limits DEF LcTypes, Licences
  <2> HIDE DEF day
  <2>4. nvs' \in [main : Parts, part : Parts] /\ LC!Store'.pack = LC!Store.pack
    <3>1. CASE UNCHANGED nvs
      BY <2>1, <3>1, <1>0 DEF LC!Store, LcTypes
    <3>2. CASE LC!Put("contact", day)
      BY <2>1, <2>3, <3>2, <1>0, PutKeeps
    <3> QED
      BY <2>1, <3>1, <3>2
  <2>5. lc' \in Programs /\ lc'.pc = lc.pc /\ lc'.key = lc.key /\ lc'.lic = lc.lic /\ lc'.busy = FALSE
    BY <2>1, <2>3, <1>0 DEF LcTypes, Programs
  <2>6. LcTypes'
    BY <2>1, <2>2, <2>4, <2>5, <1>0 DEF LcTypes
  <2> QED
    BY <2>1, <2>2, <2>4, <2>5, <2>6, <1>0, Beside
<1>16. CASE LC!ErasesPack
  <2>1. /\ job.step = "forget" /\ LC!Put("pack", LC!NoLic) /\ job' = [job EXCEPT !.step = "forget2"]
        /\ UNCHANGED <<today, clock, twoParts, lc, firstKey>>
    BY <1>16 DEF LC!ErasesPack
  <2>2. job' \in [step : JobSteps, lic : Licences, new : BOOLEAN] /\ job'.step = "forget2"
    BY <2>1, <1>0 DEF LcTypes, JobSteps
  <2>3. [LC!Store EXCEPT !["pack"] = LC!NoLic] \in Parts
    BY <1>0, Limits DEF Parts
  <2>4. nvs' \in [main : Parts, part : Parts] /\ LC!Store' = [LC!Store EXCEPT !["pack"] = LC!NoLic]
    BY <2>1, <2>3, <1>0, PutIs DEF LC!Entries
  <2>5. LC!Store'.pack = LC!NoLic
    BY <2>4, <1>0 DEF Parts
  <2>6. LcTypes'
    BY <2>1, <2>2, <2>4, <1>0 DEF LcTypes
  <2> QED
    BY <2>1, <2>2, <2>5, <2>6, <1>0 DEF LcInv, InFlash
<1>17. CASE LC!ErasesDays
  <2>1. /\ job.step = "forget2" /\ job' = LC!Idle
        /\ lc' = [[lc EXCEPT !.lic = LC!NoLic, !.time = 0, !.tail = TRUE] EXCEPT !.busy = FALSE]
        /\ UNCHANGED <<today, clock, twoParts, firstKey>>
    BY <1>17 DEF LC!ErasesDays, LC!JobEnds
  <2>2. job' \in [step : JobSteps, lic : Licences, new : BOOLEAN] /\ job'.step = "none"
    BY <2>1, Limits DEF LC!Idle, JobSteps
  <2>3. nvs' \in [main : Parts, part : Parts] /\ LC!Store'.pack = LC!Store.pack
    <3> DEFINE p == IF twoParts THEN "part" ELSE "main"
               q == [nvs[p] EXCEPT !.contact = 0, !.lasttime = 0]
    <3>1. nvs' = [nvs EXCEPT ![p].contact = 0, ![p].lasttime = 0]
      BY <1>17 DEF LC!ErasesDays
    <3>2. p \in {"part", "main"} /\ nvs \in [main : Parts, part : Parts]
      BY <1>0 DEF LcTypes
    <3>3. LC!Store = nvs[p] /\ LC!Store' = nvs'[p]
      BY <2>1 DEF LC!Store
    <3> HIDE DEF p
    <3>4. nvs[p] \in Parts
      BY <3>2
    <3>5. q \in Parts /\ q.pack = nvs[p].pack
      BY <3>4, Limits DEF Parts
    <3>6. nvs' = [nvs EXCEPT ![p] = q]
      BY <3>1, <3>2
    <3> HIDE DEF q
    <3>7. nvs' \in [main : Parts, part : Parts] /\ nvs'[p] = q
      BY <3>2, <3>5, <3>6
    <3> QED
      BY <3>3, <3>5, <3>7
  <2>4. /\ lc' \in Programs /\ lc'.pc = lc.pc /\ lc'.key = lc.key /\ lc'.lic = LC!NoLic
        /\ lc'.busy = FALSE
    BY <2>1, <1>0, Limits DEF LcTypes, Programs
  <2>5. lc.pc = "up" /\ LC!Store.pack = LC!NoLic
    BY <2>1, <1>0 DEF InFlash
  <2>6. LC!LoadStored' = LC!NoLic
    BY <2>3, <2>5 DEF LC!LoadStored, LC!Verified
  <2>7. LcTypes'
    BY <2>1, <2>2, <2>3, <2>4, <1>0 DEF LcTypes
  <2> QED
    BY <2>2, <2>4, <2>5, <2>6, <2>7 DEF LcInv, InFlash
<1>18. CASE LC!ForgetEnds
  <2>1. /\ lc' = [lc EXCEPT !.tail = FALSE, !.contact = 0, !.stored = FALSE]
        /\ UNCHANGED <<today, clock, nvs, twoParts, job, firstKey>>
    BY <1>18 DEF LC!ForgetEnds
  <2>2. lc' \in Programs /\ lc'.pc = lc.pc /\ lc'.key = lc.key /\ lc'.lic = lc.lic /\ lc'.busy = lc.busy
    BY <2>1, <1>0, Limits DEF LcTypes, Programs
  <2>3. LC!Store' = LC!Store
    BY <2>1 DEF LC!Store
  <2>4. LcTypes'
    BY <2>1, <2>2, <1>0 DEF LcTypes
  <2> QED
    BY <2>1, <2>2, <2>3, <2>4, <1>0, Beside DEF InFlash
<1>19. CASE UNCHANGED li
  BY <1>19, <1>0 DEF li, LcInv, LcTypes, InFlash, LC!Store, LC!LoadStored
<1> QED
  BY <1>1, <1>2, <1>3, <1>4, <1>5, <1>6, <1>7, <1>8, <1>9, <1>10, <1>11, <1>12, <1>13, <1>14,
     <1>15, <1>16, <1>17, <1>18, <1>19 DEF LC!LcNext

LEMMA LcHolds == LcInv => LC!LcTypeOK /\ LC!LicenceIsStored
<1> SUFFICES ASSUME LcInv PROVE LC!LcTypeOK /\ LC!LicenceIsStored
  OBVIOUS
<1>1. LC!LcTypeOK
  <2>1. \A p \in {"main", "part"} : nvs[p].contact \in Days /\ nvs[p].lasttime \in Days
    BY DEF LcInv, LcTypes, Parts
  <2> QED
    BY <2>1 DEF LcInv, LcTypes, InFlash, Programs, JobSteps, LC!LcTypeOK, Days
<1>2. LC!LicenceIsStored
  BY DEF LcInv, LcTypes, InFlash, LC!LicenceIsStored
<1> QED
  BY <1>1, <1>2

-----------------------------------------------------------------------------
(* The days a start goes by: those in the flash are of the past, or of a   *)
(* clock that was wrong ("bad").                                           *)

Sure(p) == p.contact <= today + 1 /\ p.lasttime <= today + 1
TimesInv ==
    /\ LC!Store.pack.issued <= today /\ (~bad => Sure(LC!Store))
    /\ twoParts => nvs.main.pack.issued <= today /\ Sure(nvs.main)
    /\ job.lic.issued <= today
    /\ lc.pc = "migrate" => twoParts
    /\ lc.pc = "key" => lc.contact = LC!Store.contact /\ lc.time = LC!Store.lasttime
    /\ lc.tail => lc.pc = "up"

(* The types of what TimesInv compares.                                    *)
LEMMA DaysAre ==
    ASSUME LcTypes
    PROVE  /\ today \in Int /\ job.lic.issued \in Int /\ lc.contact \in Int /\ lc.time \in Int
           /\ \A p \in Parts : p.contact \in Int /\ p.lasttime \in Int /\ p.pack.issued \in Int
           /\ LC!Store \in Parts /\ nvs.main \in Parts /\ nvs.part \in Parts
BY StoreIn, DaysAssumption DEF LcTypes, Parts, Licences, Programs, Days

(* A step that writes nothing.                                             *)
LEMMA TimesKeep ==
    ASSUME LcTypes, TimesInv, UNCHANGED <<twoParts, nvs>>, ~bad' => ~bad, today' \in Int, today' >= today,
           job'.lic.issued <= today', lc'.pc = "migrate" => twoParts,
           lc'.pc = "key" => lc'.contact = LC!Store.contact /\ lc'.time = LC!Store.lasttime,
           lc'.tail => lc'.pc = "up"
    PROVE  TimesInv'
<1>1. LC!Store' = LC!Store /\ nvs.main' = nvs.main
  BY DEF LC!Store
<1>2. \A p \in Parts : Sure(p) => p.contact <= today' + 1 /\ p.lasttime <= today' + 1
  BY DaysAre DEF Sure
<1>3. LC!Store.pack.issued <= today' /\ (twoParts => nvs.main.pack.issued <= today')
  BY DaysAre DEF TimesInv
<1> QED
  BY <1>1, <1>2, <1>3, DaysAre DEF TimesInv, Sure

(* A step that writes one entry.                                           *)
LEMMA PutKeepsTimes ==
    ASSUME LcTypes, TimesInv, NEW e \in LC!Entries, NEW v, LC!Put(e, v),
           UNCHANGED <<twoParts, today>>,
           NEW q \in Parts, q = [LC!Store EXCEPT ![e] = v], q.pack.issued <= today,
           ~bad' => Sure(q), job'.lic.issued <= today, lc'.pc # "migrate",
           lc'.pc = "key" => lc'.contact = q.contact /\ lc'.time = q.lasttime,
           lc'.tail => lc'.pc = "up"
    PROVE  TimesInv'
<1>1. LC!Store' = q
  BY PutIs
<1>2. twoParts => nvs'.main = nvs.main
  BY DEF LC!Put, LcTypes
<1> QED
  BY <1>1, <1>2 DEF TimesInv, Sure

LEMMA TimesInit == LC!LcInit => TimesInv
<1> SUFFICES ASSUME LC!LcInit PROVE TimesInv
  OBVIOUS
<1>1. /\ nvs.main.pack.issued <= 1 /\ nvs.main.contact <= 1 /\ nvs.main.lasttime <= 1
      /\ nvs.part.pack.issued <= 1 /\ nvs.part.contact <= 1 /\ nvs.part.lasttime <= 1
  BY DEF LC!LcInit, LC!Empty, LC!NoLic
<1>2. today = 1 /\ lc.pc = "off" /\ lc.tail = FALSE /\ job.lic.issued = 0
  BY DEF LC!LcInit, LC!Off, LC!Idle, LC!NoLic
<1>3. LC!Store = nvs.main \/ LC!Store = nvs.part
  BY DEF LC!Store
<1>4. /\ nvs.main.pack.issued \in Int /\ nvs.main.contact \in Int /\ nvs.main.lasttime \in Int
      /\ nvs.part.pack.issued \in Int /\ nvs.part.contact \in Int /\ nvs.part.lasttime \in Int
  BY DEF LC!LcInit, LC!Empty, LC!NoLic
<1> QED
  BY <1>1, <1>2, <1>3, <1>4 DEF TimesInv, Sure

LEMMA TimesStep == LcInv /\ TimesInv /\ [LC!LcNext]_li => TimesInv'
<1> SUFFICES ASSUME LcInv, TimesInv, [LC!LcNext]_li PROVE TimesInv'
  OBVIOUS
<1>0. /\ LcTypes /\ (job.step # "none" => lc.pc = "up") /\ today \in Int
      /\ job.lic.issued <= today /\ (lc.tail => lc.pc = "up")
  BY DaysAre DEF LcInv, InFlash, TimesInv
<1>00. lc \in Programs /\ job \in [step : JobSteps, lic : Licences, new : BOOLEAN]
       /\ clock.ahead \in Nat /\ LC!Store \in Parts /\ (lc.pc = "migrate" => twoParts)
  BY <1>0, DaysAre, DaysAssumption DEF LcTypes, TimesInv
<1>1. CASE LC!NextDay
  <2>1. today' = today + 1 /\ UNCHANGED <<twoParts, nvs, bad, lc, job>>
    BY <1>1 DEF LC!NextDay
  <2>2. job.lic.issued <= today + 1
    BY <1>0, DaysAre
  <2> QED
    BY <1>0, <2>1, <2>2, TimesKeep DEF TimesInv
<1>2. CASE LC!ClockSet \/ UNCHANGED li
  <2>1. UNCHANGED <<today, twoParts, nvs, bad, lc, job>>
    BY <1>2 DEF LC!ClockSet, li
  <2> QED
    BY <1>0, <2>1, TimesKeep DEF TimesInv
<1>3. CASE LC!PowerCut
  <2>1. /\ UNCHANGED <<today, twoParts, nvs, bad>> /\ lc'.pc = "off" /\ lc'.tail = FALSE
        /\ job'.lic.issued = 0
    BY <1>3 DEF LC!PowerCut, LC!Off, LC!Idle, LC!NoLic
  <2>2. 0 <= today
    BY <1>0 DEF LcTypes
  <2> QED
    BY <1>0, <2>1, <2>2, TimesKeep
<1>4. CASE LC!PowerOn
  <2>1. UNCHANGED <<today, twoParts, nvs, bad, job>> /\ lc.pc = "off"
    BY <1>4 DEF LC!PowerOn
  <2>2. lc'.tail = lc.tail /\ lc'.pc \in {"migrate", "start"} /\ (lc'.pc = "migrate" => twoParts)
    BY <1>4, <1>00 DEF LC!PowerOn, Programs
  <2> QED
    BY <1>0, <2>1, <2>2, TimesKeep
<1>5. CASE LC!Migrates
  <2>1. /\ UNCHANGED <<today, twoParts, bad, job>> /\ lc.pc = "migrate" /\ twoParts
    BY <1>5, <1>00 DEF LC!Migrates
  <2>2. CASE lc' = [lc EXCEPT !.pc = "start"] /\ UNCHANGED nvs
    <3>1. lc'.pc = "start" /\ lc'.tail = lc.tail
      BY <2>2, <1>00 DEF Programs
    <3> QED
      BY <1>0, <2>1, <2>2, <3>1, TimesKeep
  <2>3. ASSUME NEW e \in lc.todo, nvs' = [nvs EXCEPT !.part[e] = nvs.main[e]],
               lc' = [lc EXCEPT !.todo = @ \ {e}]
        PROVE  TimesInv'
    <3> DEFINE q == [nvs.part EXCEPT ![e] = nvs.main[e]]
    <3>1. nvs \in [main : Parts, part : Parts] /\ e \in LC!Entries
      BY <1>0, <2>3 DEF LcTypes, Programs
    <3>2. nvs' = [nvs EXCEPT !.part = q]
      BY <2>3, <3>1
    <3>3. q \in Parts
      BY <3>1, CopiedIn
    <3>4. /\ q.pack = nvs.part.pack \/ q.pack = nvs.main.pack
          /\ q.contact = nvs.part.contact \/ q.contact = nvs.main.contact
          /\ q.lasttime = nvs.part.lasttime \/ q.lasttime = nvs.main.lasttime
      BY <3>1 DEF Parts
    <3>5. nvs.part = LC!Store
      BY <2>1 DEF LC!Store
    <3>6. q.pack.issued <= today /\ (~bad => Sure(q))
      <4> HIDE DEF q
      <4> QED
        BY <2>1, <3>4, <3>5 DEF TimesInv, Sure
    <3> HIDE DEF q
    <3>7. nvs'.main = nvs.main /\ LC!Store' = q
      BY <2>1, <3>1, <3>2 DEF LC!Store
    <3>8. lc'.pc = "migrate" /\ lc'.tail = lc.tail
      BY <2>1, <2>3, <1>00 DEF Programs
    <3> QED
      BY <1>0, <2>1, <3>6, <3>7, <3>8 DEF TimesInv, Sure
  <2> QED
    BY <1>5, <2>2, <2>3 DEF LC!Migrates
<1>6. CASE LC!LoadsKey
  <2> DEFINE k == IF LC!Store.dkey # 0 THEN LC!Store.dkey ELSE firstKey + 1
             q == [LC!Store EXCEPT !["dkey"] = k]
             cd == LC!Store.contact
             td == LC!Store.lasttime
  <2>1. /\ lc.pc = "start" /\ LC!Put("dkey", k)
        /\ lc' = LC!LoadTimes([lc EXCEPT !.pc = "key", !.key = k])
        /\ UNCHANGED <<today, twoParts, job, bad>>
    BY <1>6 DEF LC!LoadsKey
  <2>2. k \in Nat /\ "dkey" \in LC!Entries
    BY <1>00, <1>0 DEF Parts, LcTypes, LC!Entries
  <2>3. lc' = [[lc EXCEPT !.pc = "key", !.key = k] EXCEPT !.contact = cd, !.time = td]
    BY <2>1 DEF LC!LoadTimes
  <2> HIDE DEF k, cd, td
  <2>4. lc'.pc = "key" /\ lc'.tail = lc.tail /\ lc'.contact = cd /\ lc'.time = td
    BY <2>3, <1>00 DEF Programs
  <2>5. q \in Parts /\ q.pack = LC!Store.pack /\ q.contact = cd /\ q.lasttime = td
    BY <2>2, <1>00 DEF Parts, cd, td
  <2>6. q.pack.issued <= today /\ (~bad => Sure(q))
    <3> HIDE DEF q
    <3> QED
      BY <2>5 DEF TimesInv, Sure, cd, td
  <2>7. lc.tail = FALSE
    BY <1>0, <1>00, <2>1 DEF Programs
  <2> QED
    BY <1>0, <2>1, <2>2, <2>4, <2>5, <2>6, <2>7, PutKeepsTimes
<1>7. CASE LC!Grants \/ LC!TakesOver \/ LC!ForgetEnds
  <2>1. UNCHANGED <<today, twoParts, nvs, bad>> /\ job'.lic = job.lic
    BY <1>7, <1>00 DEF LC!Grants, LC!TakesOver, LC!ForgetEnds
  <2>2. lc'.pc = "up"
    BY <1>7, <1>0, <1>00 DEF LC!Grants, LC!TakesOver, LC!ForgetEnds, Programs
  <2> QED
    BY <1>0, <2>1, <2>2, TimesKeep
<1>8. CASE LC!TickRenew \/ LC!PanelRenew \/ LC!Activate \/ LC!Forgets
  <2>1. PICK step \in JobSteps : LC!Starts(step) /\ lc.pc = "up"
    BY <1>8 DEF LC!TickRenew, LC!PanelRenew, LC!Activate, LC!Forgets, JobSteps
  <2>2. /\ UNCHANGED <<today, twoParts, nvs, bad>> /\ job'.lic.issued = 0
        /\ lc' = [lc EXCEPT !.busy = TRUE]
    BY <2>1 DEF LC!Starts, LC!Idle, LC!NoLic
  <2>3. lc'.pc = "up" /\ 0 <= today
    BY <2>1, <2>2, <1>0, <1>00 DEF Programs, LcTypes
  <2> QED
    BY <1>0, <2>2, <2>3, TimesKeep
<1>9. CASE LC!Fails
  <2>1. /\ UNCHANGED <<today, twoParts, nvs, bad>> /\ job'.lic.issued = 0 /\ lc.pc = "up"
        /\ lc' = [lc EXCEPT !.busy = FALSE]
    BY <1>9, <1>0 DEF LC!Fails, LC!JobEnds, LC!Asking, LC!Idle, LC!NoLic
  <2>2. lc'.pc = "up" /\ 0 <= today
    BY <2>1, <1>0, <1>00 DEF Programs, LcTypes
  <2> QED
    BY <1>0, <2>1, <2>2, TimesKeep
<1>10. CASE LC!Unchanged304
  <2>1. UNCHANGED <<today, twoParts, nvs, bad, lc>> /\ job'.lic = job.lic /\ lc.pc = "up"
    BY <1>10, <1>0, <1>00 DEF LC!Unchanged304, LC!Answered, LC!Asking
  <2> QED
    BY <1>0, <2>1, TimesKeep
<1>11. CASE LC!TickTime
  <2> DEFINE now == LC!Now
             q == [LC!Store EXCEPT !["lasttime"] = now]
  <2>1. /\ lc.pc = "up" /\ UNCHANGED <<today, twoParts, job>>
        /\ \/ lc' = [lc EXCEPT !.time = LC!Store.lasttime] /\ UNCHANGED <<nvs, bad>>
           \/ /\ lc' = [lc EXCEPT !.time = now] /\ LC!Put("lasttime", now)
              /\ bad' = (bad \/ clock.ahead > 0)
    BY <1>11 DEF LC!TickTime
  <2>2. lc'.pc = "up" /\ now = today + clock.ahead
    BY <2>1, <1>00 DEF Programs, LC!Now
  <2>3. CASE UNCHANGED <<nvs, bad>>
    BY <1>0, <2>1, <2>2, <2>3, TimesKeep
  <2>4. CASE LC!Put("lasttime", now) /\ bad' = (bad \/ clock.ahead > 0)
    <3>1. now \in Days /\ "lasttime" \in LC!Entries
      BY <1>0, NowIn DEF LC!Entries
    <3> HIDE DEF now
    <3>2. q \in Parts /\ q.pack = LC!Store.pack /\ q.contact = LC!Store.contact /\ q.lasttime = now
      BY <3>1, <1>00 DEF Parts
    <3>3. q.pack.issued <= today /\ (~bad' => Sure(q))
      <4> HIDE DEF q
      <4>0. ~bad' => ~bad /\ ~(clock.ahead > 0)
        BY Zenon, <2>4
      <4>1. ~bad' => ~bad /\ now = today
        BY <4>0, <2>2, <1>0, <1>00
      <4> QED
        BY <3>2, <4>1, <1>0 DEF TimesInv, Sure
    <3> HIDE DEF q
    <3>4. q = [LC!Store EXCEPT !["lasttime"] = now]
      BY DEF q
    <3> QED
      BY <1>0, <2>1, <2>2, <2>4, <3>1, <3>2, <3>3, <3>4, PutKeepsTimes
  <2> QED
    BY <2>1, <2>3, <2>4
<1>12. CASE LC!Accepts
  <2> DEFINE l == [key |-> lc.key, issued |-> today]
             q == [LC!Store EXCEPT !["pack"] = l]
  <2>1. /\ LC!Put("pack", l) /\ UNCHANGED <<today, twoParts, lc, bad>>
        /\ job'.lic = l /\ lc.pc = "up"
    BY <1>12, <1>0 DEF LC!Accepts, LC!StoresPack, LC!Answered, LC!Asking
  <2>2. l \in Licences /\ l.issued = today /\ "pack" \in LC!Entries
    BY <1>0, <1>00 DEF LcTypes, Licences, Programs, LC!Entries
  <2> HIDE DEF l
  <2>3. q \in Parts /\ q.pack = l /\ q.contact = LC!Store.contact
        /\ q.lasttime = LC!Store.lasttime
    BY <2>2, <1>00 DEF Parts
  <2>4. q.pack.issued <= today /\ (~bad' => Sure(q)) /\ job'.lic.issued <= today
    <3> HIDE DEF q
    <3> QED
      BY <2>1, <2>2, <2>3, <1>0 DEF TimesInv, Sure
  <2> QED
    BY <1>0, <2>1, <2>2, <2>3, <2>4, PutKeepsTimes
<1>13. CASE LC!ResetsTime
  <2> DEFINE v == job.lic.issued
             q == [LC!Store EXCEPT !["lasttime"] = v]
  <2>1. /\ job.step = "reset" /\ lc.pc = "up" /\ job'.lic = job.lic
        /\ UNCHANGED <<today, twoParts, bad>>
        /\ \/ LC!Put("lasttime", v) /\ lc' = [lc EXCEPT !.time = v]
           \/ UNCHANGED <<nvs, lc>>
    BY <1>13, <1>0, <1>00 DEF LC!ResetsTime
  <2>2. lc'.pc = "up"
    BY <2>1, <1>00 DEF Programs
  <2>3. CASE UNCHANGED <<nvs, lc>>
    BY <1>0, <2>1, <2>2, <2>3, TimesKeep
  <2>4. CASE LC!Put("lasttime", v)
    <3>1. v \in Days /\ "lasttime" \in LC!Entries /\ v <= today /\ v \in Int
      BY <1>0, <1>00, Limits, DaysAre DEF Licences, LC!Entries
    <3> HIDE DEF v
    <3>2. q \in Parts /\ q.pack = LC!Store.pack /\ q.contact = LC!Store.contact /\ q.lasttime = v
      BY <3>1, <1>00 DEF Parts
    <3>3. q.pack.issued <= today /\ (~bad' => Sure(q))
      <4> HIDE DEF q
      <4> QED
        BY <2>1, <3>1, <3>2, <1>0 DEF TimesInv, Sure
    <3> QED
      BY <1>0, <2>1, <2>2, <2>4, <3>1, <3>2, <3>3, PutKeepsTimes
  <2> QED
    BY <2>1, <2>3, <2>4
<1>14. CASE LC!NotesContact
  <2> DEFINE day == IF job.new THEN job.lic.issued ELSE LC!Now
             q == [LC!Store EXCEPT !["contact"] = day]
  <2>1. /\ lc.pc = "up" /\ UNCHANGED <<today, twoParts>> /\ job'.lic.issued = 0
        /\ bad' = IF job.new THEN LC!Store.lasttime > today + 1
                  ELSE bad \/ (LC!timeOk /\ clock.ahead > 0)
        /\ \/ /\ job.new \/ LC!timeOk
              /\ LC!Put("contact", day) /\ lc' = [[lc EXCEPT !.contact = day] EXCEPT !.busy = FALSE]
           \/ ~job.new /\ ~LC!timeOk /\ lc' = [lc EXCEPT !.busy = FALSE] /\ UNCHANGED nvs
    BY <1>14, <1>0 DEF LC!NotesContact, LC!JobEnds, LC!Idle, LC!NoLic
  <2>2. lc'.pc = "up" /\ 0 <= today
    <3>1. lc' = [[lc EXCEPT !.contact = day] EXCEPT !.busy = FALSE] \/ lc' = [lc EXCEPT !.busy = FALSE]
      BY Zenon, <2>1
    <3> HIDE DEF day
    <3>2. lc'.pc = lc.pc
      BY <3>1, <1>00 DEF Programs
    <3> QED
      BY <3>2, <2>1, <1>0 DEF LcTypes
  <2>3. CASE ~job.new /\ ~LC!timeOk /\ UNCHANGED nvs
    <3>1. ~bad' => ~bad
      BY Zenon, <2>1, <2>3
    <3> QED
      BY <1>0, <2>1, <2>2, <2>3, <3>1, TimesKeep
  <2>4. CASE (job.new \/ LC!timeOk) /\ LC!Put("contact", day)
    <3>1. day \in Days /\ "contact" \in LC!Entries /\ day \in Int
      BY <1>0, <1>00, Limits, NowIn, DaysAssumption DEF Licences, LC!Entries, Days
    <3>2. ~bad' => day <= today /\ LC!Store.lasttime <= today + 1
      <4>1. LC!Store.lasttime \in Int /\ job.new \in BOOLEAN
        BY <1>0, <1>00, DaysAre
      <4>2. CASE job.new
        <5>1. bad' = (LC!Store.lasttime > today + 1)
          BY Zenon, <2>1, <4>2
        <5>2. day = job.lic.issued
          BY <4>2
        <5> HIDE DEF day
        <5>3. ~bad' => ~(LC!Store.lasttime > today + 1)
          BY Zenon, <5>1
        <5> QED
          BY <5>3, <5>2, <4>1, <1>0
      <4>3. CASE ~job.new
        <5>3. LC!timeOk
          BY <2>4, <4>3
        <5>4. ~bad' => ~bad /\ ~(clock.ahead > 0)
          BY Zenon, <5>3, <2>1, <4>3
        <5>1. ~bad' => ~bad /\ clock.ahead = 0
          BY <5>4, <1>00
        <5>2. day = today + clock.ahead
          BY <4>3 DEF LC!Now
        <5> QED
          BY <5>1, <5>2, <1>0 DEF TimesInv, Sure
      <4> QED
        BY <4>1, <4>2, <4>3
    <3> HIDE DEF day
    <3>3. q \in Parts /\ q.pack = LC!Store.pack /\ q.contact = day
          /\ q.lasttime = LC!Store.lasttime
      BY <3>1, <1>00 DEF Parts
    <3>4. q.pack.issued <= today /\ (~bad' => Sure(q))
      <4> HIDE DEF q
      <4> QED
        BY <3>1, <3>2, <3>3, <1>0 DEF TimesInv, Sure
    <3>5. job'.lic.issued <= today
      BY <2>1, <2>2
    <3> QED
      BY <1>0, <2>1, <2>2, <2>4, <3>1, <3>3, <3>4, <3>5, PutKeepsTimes
  <2> QED
    BY <2>1, <2>3, <2>4
<1>15. CASE LC!ErasesPack
  <2> DEFINE q == [LC!Store EXCEPT !["pack"] = LC!NoLic]
  <2>1. /\ lc.pc = "up" /\ LC!Put("pack", LC!NoLic) /\ UNCHANGED <<today, twoParts, lc, bad>>
        /\ job'.lic = job.lic
    BY <1>15, <1>0, <1>00 DEF LC!ErasesPack
  <2>2. "pack" \in LC!Entries /\ LC!NoLic.issued = 0 /\ 0 <= today
    BY <1>0 DEF LC!Entries, LC!NoLic, LcTypes
  <2>3. q \in Parts /\ q.pack = LC!NoLic /\ q.contact = LC!Store.contact
        /\ q.lasttime = LC!Store.lasttime
    BY Limits, <1>00 DEF Parts
  <2>4. q.pack.issued <= today /\ (~bad => Sure(q))
    <3> HIDE DEF q
    <3> QED
      BY <2>2, <2>3 DEF TimesInv, Sure
  <2> QED
    BY <1>0, <2>1, <2>2, <2>3, <2>4, PutKeepsTimes
<1>16. CASE LC!ErasesDays
  <2>1. /\ UNCHANGED <<today, twoParts, bad>> /\ job'.lic.issued = 0 /\ lc.pc = "up"
        /\ lc' = [[lc EXCEPT !.lic = LC!NoLic, !.time = 0, !.tail = TRUE] EXCEPT !.busy = FALSE]
    BY <1>16, <1>0 DEF LC!ErasesDays, LC!JobEnds, LC!Idle, LC!NoLic
  <2>2. lc'.pc = "up" /\ 0 <= today
    BY <2>1, <1>0, <1>00 DEF Programs, LcTypes
  <2>3. /\ LC!Store'.pack = LC!Store.pack /\ LC!Store'.contact = 0 /\ LC!Store'.lasttime = 0
        /\ twoParts => nvs'.main = nvs.main
    BY <1>16, <1>0 DEF LC!ErasesDays, LC!Store, LcTypes, Parts
  <2> QED
    BY <1>0, <2>1, <2>2, <2>3 DEF TimesInv, Sure
<1> QED
  BY <1>1, <1>2, <1>3, <1>4, <1>5, <1>6, <1>7, <1>8, <1>9, <1>10, <1>11, <1>12, <1>13, <1>14,
     <1>15, <1>16 DEF LC!LcNext

(* Extras that last beyond tomorrow, of a server heard of lately, are      *)
(* granted by the start that reads the days.                               *)
LEMMA GrantsDeserved ==
    ASSUME LcInv, TimesInv, LC!Grants, LC!Deserved, ~bad, clock.ahead = 0
    PROVE  lc'.granted
<1> DEFINE l   == LC!LoadStored
           n   == IF LC!timeOk THEN LC!Now ELSE 0
           now == LC!Latest(l, lc.contact, lc.time)
           ref == LC!Ref(l, lc.contact)
<1>1. LcTypes /\ today \in Int /\ 0 <= today /\ Term \in Int /\ Grace \in Int
  BY DaysAssumption DEF LcInv, LcTypes
<1>2. lc.contact = LC!Store.contact /\ lc.contact <= today + 1 /\ lc.time <= today + 1
      /\ lc.contact \in Int /\ lc.time \in Int
  BY <1>1, DaysAre DEF TimesInv, Sure, LC!Grants
<1>3. l.issued \in Int /\ l.issued <= today
  <2>1. LC!Store.pack.issued <= today /\ LC!NoLic.issued = 0
    BY DEF TimesInv, LC!NoLic
  <2>2. l = LC!Store.pack \/ l = LC!NoLic
    BY DEF LC!LoadStored, LC!Verified
  <2>3. l \in Licences
    BY <1>1, LoadedIn
  <2> HIDE DEF l
  <2> QED
    BY <1>1, <2>1, <2>2, <2>3 DEF Licences
<1>4. n \in Int /\ n <= today + 1
  BY <1>1 DEF LC!Now
<1>5. l # LC!NoLic /\ l.issued + Term > today + 1 /\ today - ref < Grace
  BY <1>2 DEF LC!Deserved, LC!Expiry, LC!Silent, LC!Ref
<1>6. lc'.granted = (LC!Unexpired(l, now) /\ ~LC!IsSuspended(l, lc.contact, now))
  BY <1>1 DEF LC!Grants, LcTypes, Programs
<1>7. now = LC!Max({n, l.issued, lc.contact, lc.time}) /\ ref = LC!Max({lc.contact, l.issued})
  BY DEF LC!Latest, LC!Ref
<1> HIDE DEF l, n
<1>8. now \in {n, l.issued, lc.contact, lc.time} /\ ref \in Int
  <2>1. LC!Max({n, l.issued, lc.contact, lc.time}) \in {n, l.issued, lc.contact, lc.time}
    BY <1>2, <1>3, <1>4, MaxIn
  <2>2. LC!Max({lc.contact, l.issued}) \in Int
    BY <1>2, <1>3, MaxIn
  <2> QED
    BY <1>7, <2>1, <2>2
<1>9. LC!Unexpired(l, now) = (l # LC!NoLic /\ l.issued + Term > now)
      /\ (LC!IsSuspended(l, lc.contact, now) => now - ref > Grace)
  BY DEF LC!Unexpired, LC!IsSuspended, LC!Silent, LC!Expiry
<1> HIDE DEF now, ref
<1>10. now \in Int /\ now <= today + 1
  BY <1>1, <1>2, <1>3, <1>4, <1>8
<1>11. l.issued + Term > now /\ ~(now - ref > Grace)
  BY <1>1, <1>3, <1>5, <1>8, <1>10
<1> QED
  BY <1>5, <1>6, <1>9, <1>11

(* The only step from the key to the extras is the one that decides.       *)
LEMMA GrantsOnly ==
    ASSUME LcInv, TimesInv, LC!LcNext, lc.pc = "key", lc'.pc = "up"
    PROVE  LC!Grants
<1>1. job.step = "none" /\ ~lc.tail
  BY DEF LcInv, InFlash, TimesInv
<1> QED
  BY <1>1 DEF LC!LcNext, LC!NextDay, LC!ClockSet, LC!PowerCut, LC!Off, LC!PowerOn, LC!Migrates,
     LC!LoadsKey, LC!TickTime, LC!TickRenew, LC!PanelRenew, LC!Activate, LC!Forgets, LC!Fails,
     LC!Asking, LC!Answered, LC!Unchanged304, LC!Accepts, LC!TakesOver, LC!ResetsTime,
     LC!NotesContact, LC!ErasesPack, LC!ErasesDays, LC!ForgetEnds

(* A start withholds no extra that has not expired while the server was    *)
(* heard of lately, wherever a power cut falls in the copy of the          *)
(* partition, the jobs and the days that are saved; for every term, grace  *)
(* and error of the clock (license.c:585-588, 731-741).                    *)
THEOREM NothingWithheldHolds == RemoteSpec => LC!NothingWithheld
<1> DEFINE Step == (lc.pc = "key" /\ lc'.pc = "up" /\ LC!Deserved /\ ~bad /\ clock.ahead = 0)
                      => lc'.granted
           Inv == LcInv /\ TimesInv
<1>1. RemoteInit => Inv
  BY LcInitInv, TimesInit DEF RemoteInit
<1>2. [RemoteNext]_remoteVars => [LC!LcNext]_li
  <2>1. CASE UNCHANGED remoteVars
    BY <2>1 DEF remoteVars
  <2>2. CASE RemoteNext
    BY Zenon, <2>2 DEF RemoteNext
  <2> QED
    BY <2>1, <2>2
<1>3. Inv /\ [RemoteNext]_remoteVars => Inv'
  BY <1>2, LcStep, TimesStep
<1>4. Inv /\ [RemoteNext]_remoteVars => [Step]_(LC!licVars)
  <2> SUFFICES ASSUME Inv, [LC!LcNext]_li, ~(UNCHANGED li), lc.pc = "key", lc'.pc = "up",
                      LC!Deserved, ~bad, clock.ahead = 0
               PROVE  lc'.granted
    BY <1>2 DEF li, LC!licVars
  <2>1. LC!Grants
    BY GrantsOnly
  <2> QED
    BY <2>1, GrantsDeserved
<1> QED
  BY <1>1, <1>3, <1>4, PTL DEF RemoteSpec, LC!NothingWithheld

-----------------------------------------------------------------------------
(* The settings: a writer works on the settings as they are, because it   *)
(* has the edit lock.                                                      *)

(* Numbers that have a property have a least one.                          *)
LEMMA LeastNat ==
    ASSUME NEW T \in SUBSET Nat, T # {}
    PROVE  \E m \in T : \A k \in T : m <= k
<1> DEFINE Below(m) == 0 .. (m - 1)
           B == {Below(m) : m \in T}
<1>1. B \subseteq FiniteSubsetsOf(Nat) /\ B # {}
  <2>1. \A m \in T : IsFiniteSet(Below(m)) /\ Below(m) \in SUBSET Nat
    BY FS_Interval
  <2>2. \A m \in T : Below(m) \in FiniteSubsetsOf(Nat)
    BY <2>1 DEF FiniteSubsetsOf
  <2> HIDE DEF Below
  <2> QED
    BY <2>2
<1>2. PICK x \in B : \A y \in B : ~ (<<y, x>> \in StrictSubsetOrdering(Nat))
  BY <1>1, FS_StrictSubsetOrderingWellFounded, WFMin
<1>3. PICK m \in T : x = Below(m)
  BY <1>2
<1>4. ASSUME NEW k \in T, k < m PROVE FALSE
  <2>1. Below(k) \subseteq Below(m) /\ k \in Below(m) /\ k \notin Below(k)
    BY <1>4
  <2>2. <<Below(k), Below(m)>> \in StrictSubsetOrdering(Nat)
    BY <2>1 DEF StrictSubsetOrdering
  <2> QED
    BY <1>2, <1>3, <2>2
<1>5. \A k \in T : m \in Nat /\ k \in Nat /\ ~ (k < m)
  BY <1>4
<1>6. \A k \in T : m <= k
  BY <1>5
<1> QED
  BY <1>6

(* A network taken out of the known ones leaves known ones.                *)
LEMMA WithoutIn ==
    ASSUME NEW s \in Seq(Ssids), NEW x PROVE SE!Without(s, x) \in Seq(Ssids)
<1>1. CASE \E i \in 1 .. Len(s) : s[i] = x
  <2> DEFINE I == {i \in 1 .. Len(s) : s[i] = x}
             m == SE!Min(I)
  <2>1. I \in SUBSET Nat /\ I # {}
    BY <1>1
  <2>2. \E k \in I : \A j \in I : k <= j
    BY <2>1, LeastNat
  <2>3. m \in 1 .. Len(s)
    BY <2>2 DEF SE!Min
  <2>4. SE!SelectInSeq(s, LAMBDA v : v = x) = m
    BY <2>1 DEF SE!SelectInSeq
  <2> HIDE DEF m, I
  <2>5. SE!Without(s, x) = SubSeq(s, 1, m - 1) \o SubSeq(s, m + 1, Len(s))
    BY <1>1, <2>4 DEF SE!Without, SE!RemoveFirst, SE!RemoveAt
  <2>6. SubSeq(s, 1, m - 1) \in Seq(Ssids) /\ SubSeq(s, m + 1, Len(s)) \in Seq(Ssids)
    BY <2>3
  <2> QED
    BY <2>5, <2>6
<1>2. CASE ~ \E i \in 1 .. Len(s) : s[i] = x
  BY <1>2 DEF SE!Without, SE!RemoveFirst
<1> QED
  BY <1>1, <1>2

Known == {s \in Seq(Ssids) : Len(s) <= KnownMax}
LEMMA KnownIs == Known = UNION {[1 .. n -> Ssids] : n \in 0 .. KnownMax}
<1>1. ASSUME NEW s \in Known PROVE s \in UNION {[1 .. n -> Ssids] : n \in 0 .. KnownMax}
  <2>1. Len(s) \in 0 .. KnownMax /\ s \in [1 .. Len(s) -> Ssids]
    BY DEF Known
  <2> QED
    BY <2>1
<1>2. ASSUME NEW n \in 0 .. KnownMax, NEW s \in [1 .. n -> Ssids] PROVE s \in Known
  <2>1. s \in Seq(Ssids) /\ Len(s) = n
    BY FormAssumption
  <2> QED
    BY <2>1, FormAssumption DEF Known
<1> QED
  BY <1>1, <1>2

PinsOf == Pins \union {"1", "2"}
Configs ==
    [ssid : Ssids \union {"none"}, known : Known, plan : Nat, mode : {"auto", "manual"},
     place : {"zero", "set"}, tx : PinsOf, sda : PinsOf, link : {"uart", "i2c"},
     net : {"both", "ethernet"}, serial : Serials]
SoundConfigs == {c \in Configs : ~SE!PinsClash(c) /\ ~SE!NoPlace(c)}

(* What a request asks for.                                                *)
Asks(r) == DOMAIN r \subseteq FormFields /\ \A f \in DOMAIN r : r[f] \in SE!Values[f]

(* The factory settings keep the rules.                                    *)
LEMMA DefaultsSound == SE!Defaults \in SoundConfigs
<1>1. (CHOOSE s \in Serials : TRUE) \in Serials
  BY FormAssumption
<1> DEFINE u == CHOOSE s \in Serials : TRUE
<1>2. << >> \in Known
  BY FormAssumption DEF Known
<1>3. SE!Defaults = [ssid |-> "none", known |-> << >>, plan |-> 0, mode |-> "auto", place |-> "zero",
                     tx |-> "1", sda |-> "2", link |-> "uart", net |-> "both", serial |-> u]
  BY DEF SE!Defaults
<1> HIDE DEF u
<1>4. SE!Defaults \in Configs
  BY <1>1, <1>2, <1>3 DEF Configs, PinsOf, u
<1>5. SE!Defaults.tx = "1" /\ SE!Defaults.sda = "2" /\ SE!Defaults.mode = "auto"
  BY <1>3
<1> QED
  BY <1>4, <1>5 DEF SoundConfigs, SE!PinsClash, SE!NoPlace

(* A field that a request gives has a value of its kind or none.           *)
LEMMA GivenIs ==
    ASSUME NEW r, Asks(r), NEW f \in DOMAIN r, r[f] \notin {"", "bad"}
    PROVE  /\ f = "ssid" => r[f] \in Ssids
           /\ f = "place" => r[f] \in {"zero", "set"}
           /\ f = "mode" => r[f] \in {"auto", "manual"}
           /\ f = "net" => r[f] \in {"both", "ethernet"}
           /\ f \in {"tx", "sda"} => r[f] \in PinsOf
           /\ f = "link" => r[f] \in {"uart", "i2c"}
           /\ f = "serial" => r[f] \in Serials
           /\ f \notin {"known", "plan"}
<1> DEFINE v == r[f]
<1>1. v \in SE!Values[f] /\ f \in FormFields
  BY DEF Asks
<1>2. v \notin {"", "bad"}
  OBVIOUS
<1> HIDE DEF v
<1>3. /\ f = "ssid" => v \in Ssids
      /\ f = "place" => v \in {"zero", "set"}
      /\ f = "mode" => v \in {"auto", "manual"}
      /\ f = "net" => v \in {"both", "ethernet"}
      /\ f \in {"tx", "sda"} => v \in PinsOf
      /\ f = "link" => v \in {"uart", "i2c"}
      /\ f = "serial" => v \in Serials
  <2>1. ASSUME f = "ssid" PROVE v \in Ssids
    <3>1. v \in SE!Values["ssid"]
      BY <1>1, <2>1
    <3> QED
      BY <3>1, <1>2 DEF SE!Values, SE!TextValues
  <2>2. ASSUME f = "place" PROVE v \in {"zero", "set"}
    <3>1. v \in SE!Values["place"]
      BY <1>1, <2>2
    <3> QED
      BY <3>1, <1>2 DEF SE!Values, SE!NumberValues
  <2>3. ASSUME f = "mode" PROVE v \in {"auto", "manual"}
    <3>1. v \in SE!Values["mode"]
      BY <1>1, <2>3
    <3> QED
      BY <3>1, <1>2 DEF SE!Values, SE!ChoiceValues
  <2>4. ASSUME f = "net" PROVE v \in {"both", "ethernet"}
    <3>1. v \in SE!Values["net"]
      BY <1>1, <2>4
    <3> QED
      BY <3>1, <1>2 DEF SE!Values, SE!ChoiceValues
  <2>5. ASSUME f = "tx" PROVE v \in PinsOf
    <3>1. v \in SE!Values["tx"]
      BY <1>1, <2>5
    <3> QED
      BY <3>1, <1>2 DEF SE!Values, SE!PinValues, SE!GivenPins, PinsOf
  <2>6. ASSUME f = "sda" PROVE v \in PinsOf
    <3>1. v \in SE!Values["sda"]
      BY <1>1, <2>6
    <3> QED
      BY <3>1, <1>2 DEF SE!Values, SE!PinValues, PinsOf
  <2>7. ASSUME f = "link" PROVE v \in {"uart", "i2c"}
    <3>1. v \in SE!Values["link"]
      BY <1>1, <2>7
    <3> QED
      BY <3>1, <1>2 DEF SE!Values, SE!PinValues
  <2>8. ASSUME f = "serial" PROVE v \in Serials
    <3>1. v \in SE!Values["serial"]
      BY <1>1, <2>8
    <3> QED
      BY <3>1, <1>2 DEF SE!Values
  <2> QED
    BY <2>1, <2>2, <2>3, <2>4, <2>5, <2>6, <2>7, <2>8
<1>4. f \notin {"known", "plan"}
  BY <1>1, FormAssumption
<1> QED
  BY <1>3, <1>4 DEF v

(* The settings after a form: its valid fields over the old ones.          *)
LEMMA AppliedIs ==
    ASSUME NEW c \in Configs, NEW r, Asks(r)
    PROVE  /\ SE!Applied(c, r) \in Configs
           /\ \A f \in DOMAIN c : f \notin DOMAIN r => SE!Applied(c, r)[f] = c[f]
<1> DEFINE v(f) == IF f \in DOMAIN r /\ r[f] \notin {"", "bad"} THEN r[f] ELSE c[f]
<1>1. DOMAIN c = {"ssid", "known", "plan", "mode", "place", "tx", "sda", "link", "net", "serial"}
  BY DEF Configs
<1>2. SE!Applied(c, r) = [f \in DOMAIN c |-> v(f)]
  BY DEF SE!Applied
<1>3. /\ v("ssid") \in Ssids \union {"none"} /\ v("known") \in Known /\ v("plan") \in Nat
      /\ v("mode") \in {"auto", "manual"} /\ v("place") \in {"zero", "set"}
      /\ v("tx") \in PinsOf /\ v("sda") \in PinsOf /\ v("link") \in {"uart", "i2c"}
      /\ v("net") \in {"both", "ethernet"} /\ v("serial") \in Serials
  <2>1. /\ c.ssid \in Ssids \union {"none"} /\ c.known \in Known /\ c.plan \in Nat
        /\ c.mode \in {"auto", "manual"} /\ c.place \in {"zero", "set"} /\ c.tx \in PinsOf
        /\ c.sda \in PinsOf /\ c.link \in {"uart", "i2c"} /\ c.net \in {"both", "ethernet"}
        /\ c.serial \in Serials
    BY DEF Configs
  <2>2. \A f \in DOMAIN r : r[f] \notin {"", "bad"} => f \notin {"known", "plan"}
    BY GivenIs
  <2>3. v("ssid") \in Ssids \union {"none"}
    BY <2>1, GivenIs
  <2>4. v("known") \in Known
    BY <2>1, <2>2
  <2>5. v("plan") \in Nat
    BY <2>1, <2>2
  <2>6. v("mode") \in {"auto", "manual"}
    BY <2>1, GivenIs
  <2>7. v("place") \in {"zero", "set"}
    BY <2>1, GivenIs
  <2>8. v("tx") \in PinsOf
    BY <2>1, GivenIs
  <2>9. v("sda") \in PinsOf
    BY <2>1, GivenIs
  <2>10. v("link") \in {"uart", "i2c"}
    BY <2>1, GivenIs
  <2>11. v("net") \in {"both", "ethernet"}
    BY <2>1, GivenIs
  <2>12. v("serial") \in Serials
    BY <2>1, GivenIs
  <2> HIDE DEF v
  <2> QED
    BY <2>3, <2>4, <2>5, <2>6, <2>7, <2>8, <2>9, <2>10, <2>11, <2>12
<1>4. \A f \in DOMAIN c : f \notin DOMAIN r => v(f) = c[f]
  OBVIOUS
<1> HIDE DEF v
<1>5. SE!Applied(c, r) = [ssid |-> v("ssid"), known |-> v("known"), plan |-> v("plan"),
          mode |-> v("mode"), place |-> v("place"), tx |-> v("tx"), sda |-> v("sda"),
          link |-> v("link"), net |-> v("net"), serial |-> v("serial")]
  BY <1>1, <1>2
<1>6. SE!Applied(c, r) \in Configs
  BY <1>3, <1>5 DEF Configs
<1> QED
  BY <1>2, <1>4, <1>6

(* What the form checks is enough: the fields it does not check are those  *)
(* the request leaves alone.                                               *)
LEMMA AppliedSound ==
    ASSUME NEW c \in SoundConfigs, NEW r, Asks(r), ~SE!Refused(c, r)
    PROVE  SE!Applied(c, r) \in SoundConfigs
<1> DEFINE a == SE!Applied(c, r)
<1>1. c \in Configs /\ ~SE!PinsClash(c) /\ ~SE!NoPlace(c)
  BY DEF SoundConfigs
<1>2. a \in Configs /\ \A f \in DOMAIN c : f \notin DOMAIN r => a[f] = c[f]
  BY <1>1, AppliedIs
<1>3. {"mode", "place", "tx", "sda", "link"} \subseteq DOMAIN c
  BY <1>1 DEF Configs
<1>4. ~SE!BadPins(c, r) /\ ~SE!BadPlace(c, r)
  BY DEF SE!Refused
<1>5. ~SE!PinsClash(a)
  <2>1. CASE DOMAIN r \cap {"tx", "sda", "link"} # {}
    BY <1>4, <2>1 DEF SE!BadPins
  <2>2. CASE DOMAIN r \cap {"tx", "sda", "link"} = {}
    <3>1. a.tx = c.tx /\ a.sda = c.sda /\ a.link = c.link
      BY <1>2, <1>3, <2>2
    <3> QED
      BY <1>1, <3>1 DEF SE!PinsClash
  <2> QED
    BY <2>1, <2>2
<1>6. ~SE!NoPlace(a)
  <2>1. CASE DOMAIN r \cap {"mode", "place"} # {}
    BY <1>4, <2>1 DEF SE!BadPlace
  <2>2. CASE DOMAIN r \cap {"mode", "place"} = {}
    <3>1. a.mode = c.mode /\ a.place = c.place
      BY <1>2, <1>3, <2>2
    <3> QED
      BY <1>1, <3>1 DEF SE!NoPlace
  <2> QED
    BY <2>1, <2>2
<1> QED
  BY <1>2, <1>5, <1>6 DEF SoundConfigs

(* The settings after a network was added to the known ones.               *)
LEMMA RememberSound ==
    ASSUME NEW c \in SoundConfigs, NEW x \in Ssids PROVE SE!Remember(c, x) \in SoundConfigs
<1>1. CASE c.ssid = x
  BY <1>1 DEF SE!Remember
<1>2. CASE c.ssid # x
  <2> DEFINE rest == SE!Without(c.known, x)
             all  == IF c.ssid = "none" THEN rest ELSE <<c.ssid>> \o rest
             n    == IF Len(all) < KnownMax THEN Len(all) ELSE KnownMax
             kept == SubSeq(all, 1, n)
  <2>1. c \in Configs /\ c.ssid \in Ssids \union {"none"} /\ c.known \in Seq(Ssids)
    BY DEF SoundConfigs, Configs, Known
  <2>2. rest \in Seq(Ssids)
    BY <2>1, WithoutIn
  <2> HIDE DEF rest
  <2>3. all \in Seq(Ssids)
    BY <2>1, <2>2
  <2> HIDE DEF all
  <2>4. n \in Nat /\ n <= Len(all) /\ n <= KnownMax
    BY <2>3, FormAssumption
  <2> HIDE DEF n
  <2>5. kept \in Known
    BY <2>3, <2>4 DEF Known
  <2>6. SE!Remember(c, x) = [c EXCEPT !.ssid = x, !.known = kept]
    BY <1>2 DEF SE!Remember, all, rest, n
  <2> HIDE DEF kept
  <2> DEFINE d == SE!Remember(c, x)
  <2>7. /\ d \in Configs /\ d.tx = c.tx /\ d.sda = c.sda /\ d.link = c.link /\ d.mode = c.mode
        /\ d.place = c.place
    BY <2>1, <2>5, <2>6 DEF Configs
  <2> QED
    BY <2>7 DEF SoundConfigs, SE!PinsClash, SE!NoPlace
<1> QED
  BY <1>1, <1>2

(* The settings after a change of the data plan.                           *)
LEMMA UpdatedSound ==
    ASSUME NEW c \in SoundConfigs, NEW what PROVE SE!Updated(c, what) \in SoundConfigs
<1> DEFINE d == SE!Updated(c, what)
<1>1. c \in Configs
  BY DEF SoundConfigs
<1>2. CASE what = "renewed"
  <2>1. d = [c EXCEPT !.plan = c.plan + 1]
    BY <1>2 DEF SE!Updated
  <2>2. /\ d \in Configs /\ d.tx = c.tx /\ d.sda = c.sda /\ d.link = c.link /\ d.mode = c.mode
        /\ d.place = c.place
    BY <1>1, <2>1 DEF Configs
  <2> QED
    BY <2>2 DEF SoundConfigs, SE!PinsClash, SE!NoPlace
<1>3. CASE what # "renewed"
  <2>1. d = [c EXCEPT !.mode = "manual", !.place = "set"]
    BY <1>3 DEF SE!Updated
  <2>2. d \in Configs /\ d.tx = c.tx /\ d.sda = c.sda /\ d.link = c.link /\ d.place = "set"
    BY <1>1, <2>1 DEF Configs
  <2> QED
    BY <2>2 DEF SoundConfigs, SE!PinsClash, SE!NoPlace
<1> QED
  BY <1>2, <1>3

(* The stages of the writers: a copy is one of the settings as they are,   *)
(* because its writer has the edit lock.                                   *)
FormStages(t) ==
    \/ t = SE!Idle
    \/ \E r : Asks(r) /\ t = [at |-> "wait", new |-> r]
    \/ \E r : Asks(r) /\ t = [at |-> "copied", new |-> r, copy |-> cfg]
    \/ \E r : /\ SE!Applied(cfg, r) \in SoundConfigs
              /\ t = [at |-> "save", new |-> r, copy |-> SE!Applied(cfg, r)]
    \/ t = [at |-> "store", blob |-> cfg]
TestStages(t) ==
    \/ t = SE!Idle
    \/ \E x \in Ssids : t = [at |-> "try", new |-> x]
    \/ \E x \in Ssids : t = [at |-> "save", new |-> x, copy |-> SE!Remember(cfg, x)]
    \/ t = [at |-> "store", blob |-> cfg]
PlanStages(t) ==
    \/ t = SE!Idle
    \/ \E what : t = [at |-> "save", new |-> what]
    \/ t = [at |-> "store", blob |-> cfg]

Locked == {"copied", "save", "store"}
SeLocks ==
    /\ editor \in SE!Writers \union {"none"} /\ saver \in SE!Writers \union {"none"}
    /\ \A w \in SE!Writers : (task[w].at \in Locked) = (editor = w)
    /\ \A w \in SE!Writers : (task[w].at = "store") = (saver = w)
SeTasks ==
    /\ task = [w \in SE!Writers |-> task[w]]
    /\ FormStages(task["form"]) /\ TestStages(task["test"]) /\ PlanStages(task["plan"])
SeConfigs ==
    /\ cfg \in SoundConfigs /\ boot \in SoundConfigs /\ wanted = cfg
    /\ stored = SE!None \/ \E c \in SoundConfigs : stored = SE!Blob(c)
    /\ licence \in Serials \union {"none"} /\ restarting \in BOOLEAN
SeStored ==
    ~restarting /\ saver = "none" =>
        failed \/ stored = SE!Blob(cfg) \/ (stored = SE!None /\ cfg = SE!Defaults)
SeInv == SeLocks /\ SeTasks /\ SeConfigs /\ SeStored

LEMMA SeInitInv == SE!SeInit => SeInv
<1> SUFFICES ASSUME SE!SeInit PROVE SeInv
  OBVIOUS
<1>1. /\ cfg = SE!Defaults /\ stored = SE!None /\ boot = SE!Defaults /\ wanted = SE!Defaults
      /\ editor = "none" /\ saver = "none" /\ task = [w \in SE!Writers |-> SE!Idle]
      /\ licence = "none" /\ restarting = FALSE
  BY DEF SE!SeInit
<1>2. \A w \in SE!Writers : task[w] = SE!Idle /\ task[w].at = "idle"
  BY <1>1 DEF SE!Idle
<1>3. "form" \in SE!Writers /\ "test" \in SE!Writers /\ "plan" \in SE!Writers /\ "none" \notin SE!Writers
  BY DEF SE!Writers
<1>4. SeLocks
  BY <1>1, <1>2, <1>3 DEF SeLocks, Locked
<1>5. SeTasks
  BY <1>1, <1>2, <1>3 DEF SeTasks, FormStages, TestStages, PlanStages
<1>6. SeConfigs
  BY <1>1, DefaultsSound DEF SeConfigs
<1>7. SeStored
  BY <1>1 DEF SeStored
<1> QED
  BY <1>4, <1>5, <1>6, <1>7 DEF SeInv

(* A step that leaves the settings and moves the task of one writer, with  *)
(* the edit lock, and not into or out of the write to the flash.           *)
LEMMA OneMoves ==
    ASSUME SeInv, NEW w \in SE!Writers, NEW t, task' = [task EXCEPT ![w] = t],
           UNCHANGED <<cfg, stored, boot, saver, licence, restarting, wanted, failed>>,
           w = "form" => FormStages(t), w = "test" => TestStages(t), w = "plan" => PlanStages(t),
           t.at # "store", task[w].at # "store",
           \/ editor' = editor /\ t.at \in Locked /\ task[w].at \in Locked
           \/ editor' = editor /\ t.at \notin Locked /\ task[w].at \notin Locked
           \/ editor = "none" /\ editor' = w /\ t.at \in Locked
           \/ editor = w /\ editor' = "none" /\ t.at \notin Locked
    PROVE  SeInv'
<1>1. task' = [v \in SE!Writers |-> IF v = w THEN t ELSE task[v]] /\ task'[w] = t
      /\ \A v \in SE!Writers \ {w} : task'[v] = task[v]
  BY DEF SeInv, SeTasks
<1>2. SeLocks'
  <2>1. editor' \in SE!Writers \union {"none"} /\ saver' \in SE!Writers \union {"none"}
    BY DEF SeInv, SeLocks
  <2>2. ASSUME NEW v \in SE!Writers
        PROVE  (task'[v].at \in Locked) = (editor' = v) /\ (task'[v].at = "store") = (saver' = v)
    <3>1. v # "none" /\ w # "none"
      BY DEF SE!Writers
    <3>2. (task[v].at \in Locked) = (editor = v) /\ (task[v].at = "store") = (saver = v)
      BY DEF SeInv, SeLocks
    <3>3. (task[w].at \in Locked) = (editor = w) /\ (task[w].at = "store") = (saver = w)
      BY DEF SeInv, SeLocks
    <3> HIDE DEF SeInv
    <3>4. CASE v = w
      BY <3>1, <3>2, <3>3, <3>4, <1>1
    <3>5. CASE v # w
      BY <3>1, <3>2, <3>3, <3>5, <1>1
    <3> QED
      BY <3>4, <3>5
  <2> QED
    BY <2>1, <2>2 DEF SeLocks, Locked
<1>3. SeTasks'
  <2>1. FormStages(task["form"]) /\ TestStages(task["test"]) /\ PlanStages(task["plan"])
    BY DEF SeInv, SeTasks
  <2>3. FormStages(task["form"])'
    BY <1>1, <2>1 DEF FormStages, SE!Writers
  <2>4. TestStages(task["test"])'
    BY <1>1, <2>1 DEF TestStages, SE!Writers
  <2>5. PlanStages(task["plan"])'
    BY <1>1, <2>1 DEF PlanStages, SE!Writers
  <2> QED
    BY <1>1, <2>3, <2>4, <2>5 DEF SeTasks
<1>4. SeConfigs' /\ SeStored'
  BY DEF SeInv, SeConfigs, SeStored
<1> QED
  BY <1>2, <1>3, <1>4 DEF SeInv

(* The stage of a writer tells the rest.                                   *)
LEMMA FormAt ==
    ASSUME NEW t, FormStages(t)
    PROVE  /\ t.at \in {"idle", "wait", "copied", "save", "store"}
           /\ t.at = "idle" => t = SE!Idle
           /\ t.at = "wait" => \E r : Asks(r) /\ t = [at |-> "wait", new |-> r]
           /\ t.at = "copied" =>
                \E r : Asks(r) /\ t = [at |-> "copied", new |-> r, copy |-> cfg]
           /\ t.at = "save" =>
                \E r : /\ SE!Applied(cfg, r) \in SoundConfigs
                       /\ t = [at |-> "save", new |-> r, copy |-> SE!Applied(cfg, r)]
           /\ t.at = "store" => t = [at |-> "store", blob |-> cfg]
<1>1. t = SE!Idle => t.at = "idle"
  BY DEF SE!Idle
<1>2. ASSUME NEW r, Asks(r), t = [at |-> "wait", new |-> r] PROVE t.at = "wait"
  BY <1>2
<1>3. ASSUME NEW r, Asks(r), t = [at |-> "copied", new |-> r, copy |-> cfg] PROVE t.at = "copied"
  BY <1>3
<1>4. ASSUME NEW r, t = [at |-> "save", new |-> r, copy |-> SE!Applied(cfg, r)]
      PROVE  t.at = "save"
  BY <1>4
<1>5. ASSUME t = [at |-> "store", blob |-> cfg] PROVE t.at = "store"
  BY <1>5
<1> DEFINE W == \E r : Asks(r) /\ t = [at |-> "wait", new |-> r]
           C == \E r : Asks(r) /\ t = [at |-> "copied", new |-> r, copy |-> cfg]
           S == \E r : /\ SE!Applied(cfg, r) \in SoundConfigs
                       /\ t = [at |-> "save", new |-> r, copy |-> SE!Applied(cfg, r)]
           B == t = [at |-> "store", blob |-> cfg]
<1>6. /\ W => t.at = "wait"
      /\ C => t.at = "copied"
      /\ S => t.at = "save"
      /\ B => t.at = "store"
  BY <1>2, <1>3, <1>4, <1>5
<1>7. t = SE!Idle \/ W \/ C \/ S \/ B
  BY Zenon DEF FormStages
<1> HIDE DEF W, C, S, B
<1>8. /\ t.at \in {"idle", "wait", "copied", "save", "store"}
      /\ t.at = "idle" => t = SE!Idle
      /\ t.at = "wait" => W
      /\ t.at = "copied" => C
      /\ t.at = "save" => S
      /\ t.at = "store" => B
  BY <1>1, <1>6, <1>7
<1> QED
  BY Zenon, <1>8 DEF W, C, S, B

(* The stage of the test of a network says what it holds.                  *)
LEMMA TestAt ==
    ASSUME NEW t, TestStages(t)
    PROVE  /\ t.at \in {"idle", "try", "save", "store"}
           /\ t.at = "idle" => t = SE!Idle
           /\ t.at = "try" => \E x \in Ssids : t = [at |-> "try", new |-> x]
           /\ t.at = "save" =>
                \E x \in Ssids : t = [at |-> "save", new |-> x, copy |-> SE!Remember(cfg, x)]
           /\ t.at = "store" => t = [at |-> "store", blob |-> cfg]
<1>1. t = SE!Idle => t.at = "idle"
  BY DEF SE!Idle
<1>2. ASSUME NEW x, t = [at |-> "try", new |-> x] PROVE t.at = "try"
  BY <1>2
<1>3. ASSUME NEW x, t = [at |-> "save", new |-> x, copy |-> SE!Remember(cfg, x)]
      PROVE  t.at = "save"
  BY <1>3
<1>4. ASSUME t = [at |-> "store", blob |-> cfg] PROVE t.at = "store"
  BY <1>4
<1> DEFINE W == \E x \in Ssids : t = [at |-> "try", new |-> x]
           S == \E x \in Ssids : t = [at |-> "save", new |-> x, copy |-> SE!Remember(cfg, x)]
           B == t = [at |-> "store", blob |-> cfg]
<1>6. /\ W => t.at = "try"
      /\ S => t.at = "save"
      /\ B => t.at = "store"
  BY <1>2, <1>3, <1>4
<1>7. t = SE!Idle \/ W \/ S \/ B
  BY Zenon DEF TestStages
<1> HIDE DEF W, S, B
<1>8. /\ t.at \in {"idle", "try", "save", "store"}
      /\ t.at = "idle" => t = SE!Idle
      /\ t.at = "try" => W
      /\ t.at = "save" => S
      /\ t.at = "store" => B
  BY <1>1, <1>6, <1>7
<1> QED
  BY Zenon, <1>8 DEF W, S, B

(* The stage of the change of the plan says what it holds.                 *)
LEMMA PlanAt ==
    ASSUME NEW t, PlanStages(t)
    PROVE  /\ t.at \in {"idle", "save", "store"}
           /\ t.at = "idle" => t = SE!Idle
           /\ t.at = "store" => t = [at |-> "store", blob |-> cfg]
<1>1. t = SE!Idle => t.at = "idle"
  BY DEF SE!Idle
<1>2. ASSUME NEW x, t = [at |-> "save", new |-> x] PROVE t.at = "save"
  BY <1>2
<1>3. ASSUME t = [at |-> "store", blob |-> cfg] PROVE t.at = "store"
  BY <1>3
<1> DEFINE S == \E x : t = [at |-> "save", new |-> x]
           B == t = [at |-> "store", blob |-> cfg]
<1>4. /\ S => t.at = "save"
      /\ B => t.at = "store"
  BY <1>2, <1>3
<1>5. t = SE!Idle \/ S \/ B
  BY Zenon DEF PlanStages
<1> HIDE DEF S, B
<1>6. /\ t.at \in {"idle", "save", "store"}
      /\ t.at = "idle" => t = SE!Idle
      /\ t.at = "store" => B
  BY <1>1, <1>4, <1>5
<1> QED
  BY Zenon, <1>6 DEF B

(* The writers of the settings.                                            *)
LEMMA WritersAre ==
    SE!Writers = {"form", "test", "plan"} /\ "none" \notin SE!Writers
BY DEF SE!Writers

(* What a form may ask for.                                                *)
LEMMA FittingAsks == \A r \in SE!Fitting : Asks(r)
<1> SUFFICES ASSUME NEW r \in SE!Fitting PROVE Asks(r)
  OBVIOUS
<1>1. r \in SE!Requests /\ \A f \in DOMAIN r : r[f] \in SE!Values[f]
  BY DEF SE!Fitting
<1>2. PICK fs \in SUBSET FormFields : r \in [fs -> UNION {SE!Values[f] : f \in fs}]
  BY <1>1 DEF SE!Requests
<1>3. DOMAIN r \subseteq FormFields
  BY <1>2
<1> QED
  BY <1>1, <1>3 DEF Asks

(* A form comes, is begun and is checked.                                  *)
LEMMA FormSteps == SeInv /\ (SE!FormPosts \/ SE!FormBegins \/ SE!FormChecks) => SeInv'
<1> SUFFICES ASSUME SeInv, SE!FormPosts \/ SE!FormBegins \/ SE!FormChecks PROVE SeInv'
  OBVIOUS
<1>0. "form" \in SE!Writers
  BY DEF SE!Writers
<1>a. FormStages(task["form"])
  BY DEF SeInv, SeTasks
<1>b. (task["form"].at \in Locked) = (editor = "form")
  BY <1>0 DEF SeInv, SeLocks
<1>1. CASE SE!FormPosts
  <2>1. PICK r \in SE!Fitting : task' = [task EXCEPT !["form"] = [at |-> "wait", new |-> r]]
    BY <1>1 DEF SE!FormPosts
  <2> DEFINE t == [at |-> "wait", new |-> r]
  <2>2. FormStages(t)
    BY <2>1, FittingAsks DEF FormStages
  <2>3. t.at = "wait" /\ task["form"].at = "idle"
    BY <1>1 DEF SE!FormPosts, SE!Idle
  <2>4. task' = [task EXCEPT !["form"] = t]
    BY <2>1
  <2>5. UNCHANGED <<cfg, stored, boot, editor, saver, licence, restarting, wanted, failed>>
    BY <1>1 DEF SE!FormPosts
  <2> HIDE DEF t
  <2>6. t.at \notin Locked /\ task["form"].at \notin Locked /\ t.at # "store" /\ task["form"].at # "store"
    BY <2>3 DEF Locked
  <2> QED
    BY <1>0, <2>2, <2>4, <2>5, <2>6, OneMoves
<1>2. CASE SE!FormBegins
  <2> DEFINE t == [at |-> "copied", new |-> task["form"].new, copy |-> cfg]
  <2>1. task["form"].at = "wait" /\ editor = "none" /\ editor' = "form"
        /\ UNCHANGED <<cfg, stored, boot, saver, licence, restarting, wanted, failed>>
    BY <1>2 DEF SE!FormBegins
  <2>2. task' = [task EXCEPT !["form"] = t]
    BY <1>0, <1>2 DEF SE!FormBegins, SeInv, SeTasks
  <2>3. PICK r : Asks(r) /\ task["form"] = [at |-> "wait", new |-> r]
    BY <1>a, <2>1, FormAt
  <2>4. FormStages(t)
    BY <2>3 DEF FormStages
  <2>5. t.at = "copied"
    OBVIOUS
  <2> HIDE DEF t
  <2> QED
    BY <1>0, <2>1, <2>2, <2>4, <2>5, OneMoves DEF Locked
<1>3. CASE SE!FormChecks
  <2> DEFINE o == task["form"]
  <2>1. /\ o.at = "copied" /\ UNCHANGED <<cfg, stored, boot, saver, licence, restarting, wanted, failed>>
        /\ IF SE!Refused(o.copy, o.new)
           THEN task' = [task EXCEPT !["form"] = SE!Idle] /\ editor' = "none"
           ELSE /\ task' = [task EXCEPT !["form"] =
                               [o EXCEPT !.at = "save", !.copy = SE!Applied(o.copy, o.new)]]
                /\ UNCHANGED editor
    BY <1>3 DEF SE!FormChecks
  <2>2. PICK r : Asks(r) /\ o = [at |-> "copied", new |-> r, copy |-> cfg]
    BY <1>a, <2>1, FormAt
  <2>3. editor = "form"
    BY <1>b, <2>1 DEF Locked
  <2>4. CASE SE!Refused(o.copy, o.new)
    <3>1. FormStages(SE!Idle) /\ SE!Idle.at = "idle"
      BY DEF FormStages, SE!Idle
    <3>2. task' = [task EXCEPT !["form"] = SE!Idle] /\ editor' = "none"
      BY <2>1, <2>4
    <3> QED
      BY <1>0, <2>1, <2>3, <3>1, <3>2, OneMoves DEF Locked
  <2>5. CASE ~SE!Refused(o.copy, o.new)
    <3> DEFINE a == SE!Applied(cfg, r)
               t == [at |-> "save", new |-> r, copy |-> a]
    <3>1. o.copy = cfg /\ o.new = r
      BY <2>2
    <3>2. a \in SoundConfigs
      BY <2>2, <2>5, <3>1, AppliedSound DEF SeInv, SeConfigs
    <3>3. FormStages(t)
      BY <3>2 DEF FormStages
    <3>4. task' = [task EXCEPT !["form"] = [o EXCEPT !.at = "save", !.copy = a]] /\ editor' = editor
      BY <2>1, <2>5, <3>1
    <3> HIDE DEF a
    <3>5. [o EXCEPT !.at = "save", !.copy = a] = t
      <4> DEFINE p == "copied"
                 q == "save"
                 u == [at |-> q, new |-> r, copy |-> a]
      <4>1. o = [at |-> p, new |-> r, copy |-> cfg]
        BY <2>2
      <4> HIDE DEF o, p, q
      <4> DEFINE k == [at |-> q, new |-> r, copy |-> cfg]
      <4>2. [o EXCEPT !.at = q] = k
        BY <4>1
      <4>3. [k EXCEPT !.copy = a] = u
        OBVIOUS
      <4> HIDE DEF k, u
      <4>4. [o EXCEPT !.at = q, !.copy = a] = [[o EXCEPT !.at = q] EXCEPT !.copy = a]
        OBVIOUS
      <4>5. [o EXCEPT !.at = q, !.copy = a] = u
        BY Zenon, <4>2, <4>3, <4>4
      <4>6. t = u
        BY DEF u, q
      <4> QED
        BY Zenon, <4>5, <4>6 DEF q
    <3>6. t.at = "save"
      OBVIOUS
    <3> HIDE DEF t
    <3>7. task' = [task EXCEPT !["form"] = t]
      BY <3>4, <3>5
    <3>8. /\ t.at \in Locked /\ o.at \in Locked /\ t.at # "store" /\ o.at # "store"
      BY <2>1, <3>6 DEF Locked
    <3> QED
      BY <1>0, <2>1, <3>3, <3>4, <3>7, <3>8, OneMoves
  <2> QED
    BY <2>4, <2>5
<1> QED
  BY <1>1, <1>2, <1>3

(* A network is tried.                                                     *)
LEMMA TestSteps == SeInv /\ (SE!TestStarts \/ SE!TestFails \/ SE!TestConnects) => SeInv'
<1> SUFFICES ASSUME SeInv, SE!TestStarts \/ SE!TestFails \/ SE!TestConnects PROVE SeInv'
  OBVIOUS
<1>0. "test" \in SE!Writers
  BY DEF SE!Writers
<1>a. TestStages(task["test"])
  BY DEF SeInv, SeTasks
<1>1. CASE SE!TestStarts
  <2>1. PICK x \in Ssids : task' = [task EXCEPT !["test"] = [at |-> "try", new |-> x]]
    BY <1>1 DEF SE!TestStarts
  <2> DEFINE t == [at |-> "try", new |-> x]
  <2>2. TestStages(t)
    BY DEF TestStages
  <2>3. t.at = "try" /\ task["test"].at = "idle"
    BY <1>1 DEF SE!TestStarts, SE!Idle
  <2>4. task' = [task EXCEPT !["test"] = t]
    BY <2>1
  <2>5. UNCHANGED <<cfg, stored, boot, editor, saver, licence, restarting, wanted, failed>>
    BY <1>1 DEF SE!TestStarts
  <2> HIDE DEF t
  <2>6. t.at \notin Locked /\ task["test"].at \notin Locked /\ t.at # "store" /\ task["test"].at # "store"
    BY <2>3 DEF Locked
  <2> QED
    BY <1>0, <2>2, <2>4, <2>5, <2>6, OneMoves
<1>2. CASE SE!TestFails
  <2>1. TestStages(SE!Idle) /\ SE!Idle.at = "idle"
    BY DEF TestStages, SE!Idle
  <2>2. task["test"].at = "try" /\ task' = [task EXCEPT !["test"] = SE!Idle]
        /\ UNCHANGED <<cfg, stored, boot, editor, saver, licence, restarting, wanted, failed>>
    BY <1>2 DEF SE!TestFails
  <2>3. /\ SE!Idle.at \notin Locked /\ SE!Idle.at # "store"
        /\ task["test"].at \notin Locked /\ task["test"].at # "store"
    BY <2>1, <2>2 DEF Locked
  <2> QED
    BY <1>0, <2>1, <2>2, <2>3, OneMoves
<1>3. CASE SE!TestConnects
  <2>1. task["test"].at = "try" /\ editor = "none" /\ editor' = "test"
        /\ UNCHANGED <<cfg, stored, boot, saver, licence, restarting, wanted, failed>>
    BY <1>3 DEF SE!TestConnects
  <2>2. PICK x \in Ssids : task["test"] = [at |-> "try", new |-> x]
    BY <1>a, <2>1, TestAt
  <2> DEFINE t == [at |-> "save", new |-> x, copy |-> SE!Remember(cfg, x)]
  <2>3. task["test"].new = x
    BY <2>2
  <2>4. task' = [task EXCEPT !["test"] = t]
    BY <1>0, <1>3, <2>3 DEF SE!TestConnects, SeInv, SeTasks
  <2>5. TestStages(t)
    BY DEF TestStages
  <2>6. t.at = "save"
    OBVIOUS
  <2> HIDE DEF t
  <2> QED
    BY <1>0, <2>1, <2>4, <2>5, <2>6, OneMoves DEF Locked
<1> QED
  BY <1>1, <1>2, <1>3

(* The task of the modem changes the plan under the edit lock.             *)
LEMMA PlanStep == SeInv /\ SE!UpdateBegins => SeInv'
<1> SUFFICES ASSUME SeInv, SE!UpdateBegins PROVE SeInv'
  OBVIOUS
<1>1. "plan" \in SE!Writers
  BY DEF SE!Writers
<1>2. task["plan"].at = "idle" /\ editor = "none" /\ editor' = "plan"
      /\ UNCHANGED <<cfg, stored, boot, saver, licence, restarting, wanted, failed>>
  BY DEF SE!UpdateBegins, SE!Idle
<1>3. PICK what : task' = [task EXCEPT !["plan"] = [at |-> "save", new |-> what]]
  BY DEF SE!UpdateBegins
<1> DEFINE t == [at |-> "save", new |-> what]
<1>4. PlanStages(t) /\ t.at = "save" /\ task' = [task EXCEPT !["plan"] = t]
  BY <1>3 DEF PlanStages
<1> HIDE DEF t
<1> QED
  BY <1>1, <1>2, <1>4, OneMoves DEF Locked

(* What a writer puts in the memory is what its change makes of the        *)
(* settings.                                                               *)
LEMMA MemoryIs ==
    ASSUME SeInv, NEW w \in SE!Writers, task[w].at = "save"
    PROVE  SE!Memory(w) \in SoundConfigs /\ SE!After(w, wanted) = SE!Memory(w)
<1>1. cfg \in SoundConfigs /\ wanted = cfg
  BY DEF SeInv, SeConfigs
<1>2. CASE w = "form"
  <2>1. PICK r : /\ SE!Applied(cfg, r) \in SoundConfigs
                 /\ task[w] = [at |-> "save", new |-> r, copy |-> SE!Applied(cfg, r)]
    BY <1>2, FormAt DEF SeInv, SeTasks
  <2>2. task[w].new = r /\ task[w].copy = SE!Applied(cfg, r)
    BY <2>1
  <2> QED
    BY <1>1, <1>2, <2>1, <2>2 DEF SE!Memory, SE!After
<1>3. CASE w = "test"
  <2>1. PICK x \in Ssids : task[w] = [at |-> "save", new |-> x, copy |-> SE!Remember(cfg, x)]
    BY <1>3, TestAt DEF SeInv, SeTasks
  <2>2. task[w].new = x /\ task[w].copy = SE!Remember(cfg, x)
    BY <2>1
  <2>3. SE!Remember(cfg, x) \in SoundConfigs
    BY <1>1, RememberSound
  <2> QED
    BY <1>1, <1>3, <2>2, <2>3 DEF SE!Memory, SE!After
<1>4. CASE w = "plan"
  BY <1>1, <1>4, UpdatedSound DEF SE!Memory, SE!After
<1> QED
  BY <1>2, <1>3, <1>4 DEF SE!Writers

(* A writer puts its copy in memory.                                       *)
LEMMA SavesStep == ASSUME NEW w \in SE!Writers PROVE SeInv /\ SE!Saves(w) => SeInv'
<1> SUFFICES ASSUME SeInv, SE!Saves(w) PROVE SeInv'
  OBVIOUS
<1> DEFINE m == SE!Memory(w)
           t == [at |-> "store", blob |-> m]
<1>1. /\ task[w].at = "save" /\ saver = "none" /\ saver' = w /\ cfg' = m
      /\ wanted' = SE!After(w, wanted) /\ task' = [task EXCEPT ![w] = t]
      /\ UNCHANGED <<stored, boot, editor, licence, restarting, failed>>
  BY DEF SE!Saves
<1>2. m \in SoundConfigs /\ SE!After(w, wanted) = m
  BY <1>1, MemoryIs
<1>3. t.at = "store" /\ t = [at |-> "store", blob |-> cfg']
  BY <1>1
<1> HIDE DEF m, t
<1>4. /\ task' = [v \in SE!Writers |-> IF v = w THEN t ELSE task[v]] /\ task'[w] = t
      /\ \A v \in SE!Writers \ {w} : task'[v] = task[v]
  BY <1>1 DEF SeInv, SeTasks
<1>5. editor = w /\ \A v \in SE!Writers \ {w} : task[v].at \notin Locked
  <2>1. \A v \in SE!Writers : (task[v].at \in Locked) = (editor = v)
    BY DEF SeInv, SeLocks
  <2> QED
    BY <1>1, <2>1 DEF Locked
<1>6. SeLocks'
  <2>1. /\ \A v \in SE!Writers : (task[v].at \in Locked) = (editor = v)
        /\ \A v \in SE!Writers : (task[v].at = "store") = (saver = v)
        /\ editor \in SE!Writers \union {"none"}
    BY DEF SeInv, SeLocks
  <2>2. "none" \notin SE!Writers
    BY WritersAre
  <2>3. ASSUME NEW v \in SE!Writers
        PROVE  (task'[v].at \in Locked) = (editor' = v) /\ (task'[v].at = "store") = (saver' = v)
    <3>1. CASE v = w
      BY <1>1, <1>3, <1>4, <1>5, <3>1 DEF Locked
    <3>2. CASE v # w
      BY <1>1, <1>4, <1>5, <2>1, <2>2, <3>2 DEF Locked
    <3> QED
      BY <3>1, <3>2
  <2> QED
    BY <1>1, <2>1, <2>3 DEF SeLocks, Locked
<1>7. SeTasks'
  <2>1. FormStages(task["form"]) /\ TestStages(task["test"]) /\ PlanStages(task["plan"])
    BY DEF SeInv, SeTasks
  <2>2. FormStages(task["form"])'
    <3>1. CASE w = "form"
      BY <1>3, <1>4, <3>1 DEF FormStages
    <3>2. CASE w # "form"
      <4>1. task'["form"] = task["form"] /\ task["form"].at \notin Locked
        BY <1>4, <1>5, <3>2, WritersAre
      <4>2. \/ task["form"] = SE!Idle
            \/ \E r : Asks(r) /\ task["form"] = [at |-> "wait", new |-> r]
        BY <2>1, <4>1, FormAt DEF Locked
      <4> QED
        BY <4>1, <4>2 DEF FormStages
    <3> QED
      BY <3>1, <3>2
  <2>3. TestStages(task["test"])'
    <3>1. CASE w = "test"
      BY <1>3, <1>4, <3>1 DEF TestStages
    <3>2. CASE w # "test"
      <4>1. task'["test"] = task["test"] /\ task["test"].at \notin Locked
        BY <1>4, <1>5, <3>2, WritersAre
      <4>2. \/ task["test"] = SE!Idle
            \/ \E x \in Ssids : task["test"] = [at |-> "try", new |-> x]
        BY <2>1, <4>1, TestAt DEF Locked
      <4> QED
        BY <4>1, <4>2 DEF TestStages
    <3> QED
      BY <3>1, <3>2
  <2>4. PlanStages(task["plan"])'
    <3>1. CASE w = "plan"
      BY <1>3, <1>4, <3>1 DEF PlanStages
    <3>2. CASE w # "plan"
      <4>1. task'["plan"] = task["plan"] /\ task["plan"].at \notin Locked
        BY <1>4, <1>5, <3>2, WritersAre
      <4>2. task["plan"] = SE!Idle
        BY <2>1, <4>1, PlanAt DEF Locked
      <4> QED
        BY <4>1, <4>2 DEF PlanStages
    <3> QED
      BY <3>1, <3>2
  <2> QED
    BY <1>4, <2>2, <2>3, <2>4 DEF SeTasks
<1>8. SeConfigs'
  BY <1>1, <1>2 DEF SeInv, SeConfigs
<1>9. SeStored'
  BY <1>1, WritersAre DEF SeStored
<1> QED
  BY <1>6, <1>7, <1>8, <1>9 DEF SeInv

(* A writer puts it in the flash, or fails.                                *)
LEMMA StoresStep == ASSUME NEW w \in SE!Writers PROVE SeInv /\ SE!Stores(w) => SeInv'
<1> SUFFICES ASSUME SeInv, SE!Stores(w) PROVE SeInv'
  OBVIOUS
<1>1. /\ task[w].at = "store" /\ task' = [task EXCEPT ![w] = SE!Idle] /\ saver' = "none"
      /\ editor' = "none" /\ UNCHANGED <<cfg, boot, licence, restarting, wanted>>
      /\ \/ stored' = SE!Blob(task[w].blob)
         \/ failed' = TRUE /\ UNCHANGED stored
  BY DEF SE!Stores, SE!Releases
<1>2. task[w] = [at |-> "store", blob |-> cfg]
  <2>1. FormStages(task["form"]) /\ TestStages(task["test"]) /\ PlanStages(task["plan"])
    BY DEF SeInv, SeTasks
  <2>2. CASE w = "form"
    BY <1>1, <2>1, <2>2, FormAt
  <2>3. CASE w = "test"
    BY <1>1, <2>1, <2>3, TestAt
  <2>4. CASE w = "plan"
    BY <1>1, <2>1, <2>4, PlanAt
  <2> QED
    BY <2>2, <2>3, <2>4, WritersAre
<1>3. task[w].blob = cfg
  BY <1>2
<1>4. /\ task' = [v \in SE!Writers |-> IF v = w THEN SE!Idle ELSE task[v]] /\ task'[w] = SE!Idle
      /\ \A v \in SE!Writers \ {w} : task'[v] = task[v]
  BY <1>1 DEF SeInv, SeTasks
<1>5. SE!Idle.at \notin Locked /\ SE!Idle.at # "store"
  BY DEF SE!Idle, Locked
<1>6. SeLocks'
  <2>1. /\ \A v \in SE!Writers : (task[v].at \in Locked) = (editor = v)
        /\ \A v \in SE!Writers : (task[v].at = "store") = (saver = v)
    BY DEF SeInv, SeLocks
  <2>2. editor = w /\ saver = w
    BY <1>1, <2>1 DEF Locked
  <2>3. ASSUME NEW v \in SE!Writers PROVE task'[v].at \notin Locked /\ task'[v].at # "store"
    <3>1. CASE v = w
      BY <1>4, <1>5, <3>1
    <3>2. CASE v # w
      BY <1>4, <2>1, <2>2, <3>2
    <3> QED
      BY <3>1, <3>2
  <2>4. \A v \in SE!Writers : v # "none"
    BY WritersAre
  <2> QED
    BY <1>1, <2>3, <2>4 DEF SeLocks, Locked
<1>7. SeTasks'
  <2>1. FormStages(task["form"]) /\ TestStages(task["test"]) /\ PlanStages(task["plan"])
    BY DEF SeInv, SeTasks
  <2>2. FormStages(task["form"])'
    BY <1>1, <1>4, <2>1, WritersAre DEF FormStages
  <2>3. TestStages(task["test"])'
    BY <1>1, <1>4, <2>1, WritersAre DEF TestStages
  <2>4. PlanStages(task["plan"])'
    BY <1>1, <1>4, <2>1, WritersAre DEF PlanStages
  <2> QED
    BY <1>4, <2>2, <2>3, <2>4 DEF SeTasks
<1>8. SeConfigs'
  BY <1>1, <1>3 DEF SeInv, SeConfigs
<1>9. SeStored'
  BY <1>1, <1>3 DEF SeStored
<1> QED
  BY <1>6, <1>7, <1>8, <1>9 DEF SeInv

(* The base restarts with what the flash holds.                            *)
LEMMA StartsAgainStep == SeInv /\ SE!StartsAgain => SeInv'
<1> SUFFICES ASSUME SeInv, SE!StartsAgain PROVE SeInv'
  OBVIOUS
<1>1. /\ cfg' = SE!Load(stored) /\ boot' = SE!Load(stored) /\ wanted' = SE!Load(stored)
      /\ editor' = "none" /\ saver' = "none" /\ task' = [w \in SE!Writers |-> SE!Idle]
      /\ restarting' = FALSE /\ stored' = stored /\ licence' = licence
  BY DEF SE!StartsAgain
<1>2. \A w \in SE!Writers : task'[w] = SE!Idle /\ task'[w].at = "idle"
  BY <1>1 DEF SE!Idle
<1>3. SeLocks'
  BY <1>1, <1>2, WritersAre DEF SeLocks, Locked
<1>4. SeTasks'
  BY <1>1, <1>2, WritersAre DEF SeTasks, FormStages, TestStages, PlanStages
<1>5. SE!Load(stored) \in SoundConfigs
      /\ (stored = SE!Blob(SE!Load(stored)) \/ (stored = SE!None /\ SE!Load(stored) = SE!Defaults))
  <2>1. CASE stored = SE!None
    BY <2>1, DefaultsSound DEF SE!Load
  <2>2. ASSUME NEW c \in SoundConfigs, stored = SE!Blob(c) PROVE <1>5!1 /\ <1>5!2
    <3>1. SE!Blob(c) # SE!None /\ SE!Blob(c).cfg = c
      BY DEF SE!Blob, SE!None
    <3> QED
      BY <2>2, <3>1 DEF SE!Load
  <2> QED
    BY <2>1, <2>2 DEF SeInv, SeConfigs
<1>6. SeConfigs'
  BY <1>1, <1>5 DEF SeInv, SeConfigs
<1>7. SeStored'
  BY <1>1, <1>5 DEF SeStored
<1> QED
  BY <1>3, <1>4, <1>6, <1>7 DEF SeInv

LEMMA SeStep == SeInv /\ [SE!SeNext]_se => SeInv'
<1> SUFFICES ASSUME SeInv, [SE!SeNext]_se PROVE SeInv'
  OBVIOUS
<1>1. CASE SE!Import
  <2>1. /\ saver = "none" /\ stored' = SE!Blob(boot) /\ restarting' = TRUE
        /\ UNCHANGED <<cfg, boot, editor, saver, task, licence, wanted, failed>>
    BY <1>1 DEF SE!Import
  <2> QED
    BY <2>1 DEF SeInv, SeLocks, SeTasks, SeConfigs, SeStored, FormStages, TestStages, PlanStages
<1>2. CASE SE!ResetButton
  <2>1. /\ stored' = SE!None /\ restarting' = TRUE
        /\ UNCHANGED <<cfg, boot, editor, saver, task, licence, wanted, failed>>
    BY <1>2 DEF SE!ResetButton
  <2> QED
    BY <2>1 DEF SeInv, SeLocks, SeTasks, SeConfigs, SeStored, FormStages, TestStages, PlanStages
<1>3. CASE SE!Restarts \/ SE!PowerCut
  BY <1>3, StartsAgainStep DEF SE!Restarts, SE!PowerCut
<1>4. CASE SE!Activated
  <2>1. /\ licence' = boot.serial
        /\ UNCHANGED <<cfg, stored, boot, editor, saver, task, restarting, wanted, failed>>
    BY <1>4 DEF SE!Activated
  <2>2. boot.serial \in Serials
    BY DEF SeInv, SeConfigs, SoundConfigs, Configs
  <2> QED
    BY <2>1, <2>2 DEF SeInv, SeLocks, SeTasks, SeConfigs, SeStored, FormStages, TestStages, PlanStages
<1>5. CASE SE!CableMoves \/ UNCHANGED se
  <2>1. UNCHANGED <<cfg, stored, boot, editor, saver, task, licence, restarting, wanted, failed>>
    BY <1>5 DEF SE!CableMoves, se
  <2>2. SeLocks'
    BY <2>1 DEF SeInv, SeLocks
  <2>3. SeTasks'
    BY <2>1 DEF SeInv, SeTasks, FormStages, TestStages, PlanStages
  <2>4. SeConfigs' /\ SeStored'
    BY <2>1 DEF SeInv, SeConfigs, SeStored
  <2> QED
    BY <2>2, <2>3, <2>4 DEF SeInv
<1>6. ASSUME NEW w \in SE!Writers, SE!Works(w) PROVE SeInv'
  BY <1>6, FormSteps, TestSteps, SavesStep, StoresStep DEF SE!Works
<1> QED
  BY <1>1, <1>2, <1>3, <1>4, <1>5, <1>6, FormSteps, TestSteps, PlanStep DEF SE!SeNext

LEMMA SeHolds == SeInv => SE!SeTypeOK /\ SE!NothingLost /\ SE!SettingsSound
<1> SUFFICES ASSUME SeInv PROVE SE!SeTypeOK /\ SE!NothingLost /\ SE!SettingsSound
  OBVIOUS
<1>1. cfg \in Configs /\ ~SE!PinsClash(cfg) /\ ~SE!NoPlace(cfg)
  BY DEF SeInv, SeConfigs, SoundConfigs
<1>2. SE!SeTypeOK
  <2>1. cfg.known \in UNION {[1 .. n -> Ssids] : n \in 0 .. KnownMax}
    BY <1>1, KnownIs DEF Configs
  <2>2. cfg.ssid \in Ssids \union {"none"} /\ cfg.serial \in Serials
        /\ {cfg.tx, cfg.sda} \subseteq Pins \union {"1", "2"}
    BY <1>1 DEF Configs, PinsOf
  <2>3. \A w \in SE!Writers : task[w].at \in {"idle", "wait", "copied", "try", "save", "store"}
    <3>1. FormStages(task["form"]) /\ TestStages(task["test"]) /\ PlanStages(task["plan"])
      BY DEF SeInv, SeTasks
    <3> QED
      BY <3>1, WritersAre, FormAt, TestAt, PlanAt
  <2> QED
    BY <2>1, <2>2, <2>3 DEF SeInv, SeLocks, SeConfigs, SE!SeTypeOK
<1>3. SE!NothingLost
  BY DEF SeInv, SeConfigs, SeStored, SE!NothingLost
<1> QED
  BY <1>1, <1>2, <1>3 DEF SE!SettingsSound

-----------------------------------------------------------------------------
(* The parts side by side.                                                 *)

PanelInv == SeInv /\ PjInv /\ LcInv /\ AlInv

(* A step of one part leaves the invariants of the others alone.           *)
LEMMA PanelStep == PanelInv /\ [RemoteNext]_remoteVars => PanelInv'
<1> SUFFICES ASSUME PanelInv, [RemoteNext]_remoteVars PROVE PanelInv'
  OBVIOUS
<1>1. [SE!SeNext]_se /\ [PJ!PjNext]_pj /\ [LC!LcNext]_li /\ [AL!AlNext]_al
  <2>1. CASE UNCHANGED remoteVars
    BY <2>1 DEF remoteVars
  <2>2. CASE RemoteNext
    BY Zenon, <2>2 DEF RemoteNext
  <2> QED
    BY <2>1, <2>2
<1> QED
  BY <1>1, SeStep, PjStep, LcStep, AlStep DEF PanelInv

(* NothingLost: settings, panel, licence and alarms keep their types; no   *)
(* change of the settings is lost under another, in memory or in the       *)
(* flash; no pin has two uses and no fixed position is missing; the        *)
(* licence in use is the one in the flash.  For every set of networks,     *)
(* pins and serial numbers and every number of days (settings.c:76-77,     *)
(* web_ui.c:1752-1777, license.c:897-906).                                 *)
THEOREM NothingLostHolds == RemoteSpec => []NothingLost
<1>1. RemoteInit => PanelInv
  BY SeInitInv, PjInitInv, LcInitInv, AlInitInv DEF RemoteInit, PanelInv
<1>2. PanelInv => NothingLost
  BY SeHolds, PjHolds, LcHolds, AlHolds DEF PanelInv, NothingLost
<1> QED
  BY <1>1, <1>2, PanelStep, PTL DEF RemoteSpec

-----------------------------------------------------------------------------
(* The VPN.                                                                *)

Ids == Indexes \union {0}
Keys ==
    [id : Ids, initiator : BOOLEAN, age : Nat, rx : BOOLEAN, top : Nat, seen : SUBSET Nat]
Peers ==
    [exists : {TRUE}, curr : Keys, prev : Keys, next : Keys, hs : Ids,
     ip : Addresses \union {"none"}, active : BOOLEAN, sendHandshake : BOOLEAN,
     mayInitiate : BOOLEAN, quiet : BOOLEAN]
Messages ==
    {m \in [type : {"init", "resp", "data"}, from : {"base", "server"}, id : Ids, n : Nat] :
        /\ m.type # "data" => m.id # 0
        /\ m.type = "init" /\ m.from = "server" => m.n = 1}
Payloads == Indexes \X Nat \X Nat \X BOOLEAN
FromServerInit(m) == m.type = "init" /\ m.from = "server"

(* A key that has aged, was used or was destroyed: it names the same       *)
(* session and has seen the same numbers, or names none.                   *)
Fading(k, l) ==
    l \in Keys /\ (l.id = 0 \/ (l.id = k.id /\ l.top = k.top /\ l.seen = k.seen))
Fades(p, q) ==
    /\ q \in Peers /\ q.hs = p.hs
    /\ Fading(p.curr, q.curr) /\ Fading(p.prev, q.prev) /\ Fading(p.next, q.next)

(* What is delivered under a key, but for its first packet, is seen.       *)
Seen(k, h) == \A g \in h : g[1] = k.id /\ ~g[4] => ~VP!Fits(k, g[2])
Unused(k, h) == k.id # 0 => \A g \in h : g[1] # k.id
Apart(p) ==
    /\ p.curr.id # 0 => p.curr.id # p.prev.id /\ p.curr.id # p.next.id
    /\ p.prev.id # 0 => p.prev.id # p.next.id
    /\ p.hs # 0 => p.hs # p.curr.id /\ p.hs # p.prev.id /\ p.hs # p.next.id
ApartFrom(p, id) == id # p.curr.id /\ id # p.prev.id /\ id # p.next.id /\ id # p.hs
Kept(p, n, h) ==
    /\ Seen(p.curr, h) /\ Seen(p.prev, h) /\ Unused(p.next, h) /\ Apart(p)
    /\ \A m \in n : FromServerInit(m) => ApartFrom(p, m.id)

(* Zero names no session.                                                  *)
LEMMA Zero == 0 \notin Indexes /\ 0 \in Ids /\ Ids \subseteq Nat
BY IndexAssumption DEF Ids

(* The empty key is a key of no session.                                   *)
LEMMA NoKeyIn == VP!NoKey \in Keys /\ VP!NoKey.id = 0
BY Zero DEF VP!NoKey, Keys

(* The key of a new session.                                               *)
LEMMA NewKeyIn ==
    ASSUME NEW id \in Ids, NEW b \in BOOLEAN
    PROVE  VP!NewKey(id, b) \in Keys /\ VP!NewKey(id, b).id = id
<1>1. VP!NoKey = [id |-> 0, initiator |-> FALSE, age |-> 0, rx |-> FALSE, top |-> 0, seen |-> {}]
  BY DEF VP!NoKey
<1>2. VP!NewKey(id, b) = [VP!NoKey EXCEPT !.id = id, !.initiator = b]
  BY DEF VP!NewKey
<1>3. VP!NoKey \in Keys
  BY NoKeyIn
<1> QED
  BY <1>2, <1>3 DEF Keys

(* Fading twice is fading.                                                 *)
LEMMA FadesTrans ==
    ASSUME NEW p, NEW q, NEW r, Fades(p, q), Fades(q, r) PROVE Fades(p, r)
BY DEF Fades, Fading

(* A peer that stays the same has faded.                                   *)
LEMMA FadesSelf == ASSUME NEW p \in Peers PROVE Fades(p, p)
BY DEF Fades, Fading, Peers

(* A weaker peer, fewer messages and fewer payloads keep it.               *)
LEMMA KeptFades ==
    ASSUME NEW p \in Peers, NEW q, NEW n, NEW n2, NEW h, NEW h2, Kept(p, n, h), Fades(p, q),
           h \subseteq Payloads, h2 \subseteq h, n \subseteq Messages,
           \A m \in n2 : FromServerInit(m) => m \in n
    PROVE  Kept(q, n2, h2)
<1>1. \A g \in h2 : g[1] # 0
  BY Zero DEF Payloads
<1>2. ASSUME NEW k, NEW l, Seen(k, h), Fading(k, l) PROVE Seen(l, h2)
  BY <1>1, <1>2 DEF Seen, Fading, VP!Fits
<1>3. Seen(q.curr, h2) /\ Seen(q.prev, h2)
  BY <1>2 DEF Kept, Fades
<1>4. Unused(q.next, h2)
  BY DEF Unused, Kept, Fades, Fading
<1>5. Apart(q)
  BY DEF Apart, Kept, Fades, Fading
<1>6. ASSUME NEW m \in n2, FromServerInit(m) PROVE ApartFrom(q, m.id)
  <2>1. m \in n /\ ApartFrom(p, m.id)
    BY <1>6 DEF Kept
  <2>2. m.id # 0
    BY <2>1, <1>6 DEF Messages, FromServerInit
  <2> QED
    BY <2>1, <2>2 DEF ApartFrom, Fades, Fading
<1> QED
  BY <1>3, <1>4, <1>5, <1>6 DEF Kept

-----------------------------------------------------------------------------
(* A minute passes.                                                        *)
LEMMA AgesFades == ASSUME NEW p \in Peers PROVE Fades(p, VP!PeerAges(p))
<1>1. ASSUME NEW k \in Keys PROVE Fading(k, VP!Aged(k))
  <2>1. CASE VP!Valid(k) /\ ~VP!Expired(k)
    <3>1. VP!Aged(k) = [k EXCEPT !.age = k.age + 1]
      BY <2>1 DEF VP!Aged
    <3> QED
      BY <3>1 DEF Keys, Fading
  <2>2. CASE ~ (VP!Valid(k) /\ ~VP!Expired(k))
    BY <2>2 DEF VP!Aged, Fading
  <2> QED
    BY <2>1, <2>2
<1> DEFINE a == VP!Aged(p.curr)
           b == VP!Aged(p.prev)
           c == VP!Aged(p.next)
<1>2. p.exists /\ p.curr \in Keys /\ p.prev \in Keys /\ p.next \in Keys
  BY DEF Peers
<1>3. VP!PeerAges(p) = [p EXCEPT !.curr = a, !.prev = b, !.next = c, !.mayInitiate = TRUE,
                                 !.quiet = TRUE]
  BY <1>2 DEF VP!PeerAges
<1>4. Fading(p.curr, a) /\ Fading(p.prev, b) /\ Fading(p.next, c)
  BY <1>1, <1>2
<1> HIDE DEF a, b, c
<1>5. a \in Keys /\ b \in Keys /\ c \in Keys
  BY <1>4 DEF Fading
<1> DEFINE q == VP!PeerAges(p)
<1>6. q \in Peers /\ q.curr = a /\ q.prev = b /\ q.next = c /\ q.hs = p.hs
  BY <1>3, <1>5 DEF Peers
<1> QED
  BY <1>4, <1>6 DEF Fades

(* Slots of the peer, replaced.                                            *)
LEMMA SlotsIn ==
    ASSUME NEW p \in Peers, NEW k \in Keys
    PROVE  /\ [p EXCEPT !.curr = k] \in Peers /\ [p EXCEPT !.prev = k] \in Peers
           /\ [p EXCEPT !.next = k] \in Peers
BY DEF Peers

(* A key is destroyed.                                                     *)
LEMMA DropFades ==
    ASSUME NEW p \in Peers, NEW s \in {"curr", "prev", "next"}
    PROVE  Fades(p, [p EXCEPT ![s] = VP!NoKey])
<1> DEFINE q == [p EXCEPT ![s] = VP!NoKey]
<1>1. CASE s = "curr"
  <2>1. q \in Peers /\ q.curr = VP!NoKey /\ q.prev = p.prev /\ q.next = p.next /\ q.hs = p.hs
    BY <1>1, NoKeyIn, SlotsIn DEF Peers
  <2> QED
    BY <2>1, NoKeyIn DEF Fades, Fading, Peers
<1>2. CASE s = "prev"
  <2>1. q \in Peers /\ q.curr = p.curr /\ q.prev = VP!NoKey /\ q.next = p.next /\ q.hs = p.hs
    BY <1>2, NoKeyIn, SlotsIn DEF Peers
  <2> QED
    BY <2>1, NoKeyIn DEF Fades, Fading, Peers
<1>3. CASE s = "next"
  <2>1. q \in Peers /\ q.curr = p.curr /\ q.prev = p.prev /\ q.next = VP!NoKey /\ q.hs = p.hs
    BY <1>3, NoKeyIn, SlotsIn DEF Peers
  <2> QED
    BY <2>1, NoKeyIn DEF Fades, Fading, Peers
<1> QED
  BY <1>1, <1>2, <1>3

(* wireguardif_output_to_peer: a packet goes, or its key is too old.       *)
LEMMA OutputFades == ASSUME NEW p \in Peers PROVE Fades(p, VP!Output(p))
<1>1. CASE VP!CanOutput(p)
  <2> DEFINE b == p.sendHandshake \/ (VP!OutKey(p).initiator /\ VP!OutKey(p).age >= RekeyAge)
             q == VP!Output(p)
  <2>1. q = [p EXCEPT !.quiet = FALSE, !.sendHandshake = b]
    BY <1>1 DEF VP!Output
  <2>2. b \in BOOLEAN
    OBVIOUS
  <2> HIDE DEF b
  <2>3. /\ q \in Peers /\ q.curr = p.curr /\ q.prev = p.prev /\ q.next = p.next /\ q.hs = p.hs
    BY <2>1, <2>2 DEF Peers
  <2> QED
    BY <2>3 DEF Fades, Fading, Peers
<1>2. CASE ~VP!CanOutput(p)
  <2>1. VP!OutName(p) \in {"curr", "prev", "next"}
    BY DEF VP!OutName
  <2>2. VP!Output(p) = p \/ VP!Output(p) = [p EXCEPT ![VP!OutName(p)] = VP!NoKey]
    BY <1>2 DEF VP!Output
  <2> QED
    BY <2>1, <2>2, DropFades, FadesSelf
<1> QED
  BY <1>1, <1>2

(* The address of the server changes.                                      *)
LEMMA MovedFades ==
    ASSUME NEW p \in Peers, NEW a \in Addresses PROVE Fades(p, [p EXCEPT !.ip = a])
<1> DEFINE q == [p EXCEPT !.ip = a]
<1>1. q \in Peers /\ q.curr = p.curr /\ q.prev = p.prev /\ q.next = p.next /\ q.hs = p.hs
  BY DEF Peers
<1> QED
  BY <1>1 DEF Fades, Fading, Peers

(* wireguardif_tmr before it may open a handshake.                         *)
LEMMA TimerFades ==
    ASSUME NEW p \in Peers
    PROVE  Fades(p, VP!AfterKeepalive(VP!WithoutOldKey(p)))
<1> DEFINE q == VP!WithoutOldKey(p)
<1>1. Fades(p, q)
  <2>1. q = p \/ q = [p EXCEPT !["curr"] = VP!NoKey]
    BY DEF VP!WithoutOldKey
  <2> QED
    BY <2>1, FadesSelf, DropFades
<1>2. q \in Peers
  BY <1>1 DEF Fades
<1> HIDE DEF q
<1>3. Fades(q, VP!AfterKeepalive(q))
  BY <1>2, OutputFades, FadesSelf DEF VP!AfterKeepalive
<1> QED
  BY <1>1, <1>3, FadesTrans DEF q

-----------------------------------------------------------------------------
(* wireguard_check_replay.                                                 *)
LEMMA MarksIs ==
    ASSUME NEW k \in Keys, NEW n \in Nat, NEW s \in Nat
    PROVE  /\ VP!Marks(k, n) \in Keys /\ VP!Marks(k, n).id = k.id
           /\ ~VP!Fits(VP!Marks(k, n), n)
           /\ ~VP!Fits(k, s) => ~VP!Fits(VP!Marks(k, n), s)
<1>1. CASE ~VP!Fits(k, n)
  BY <1>1 DEF VP!Marks
<1>2. CASE VP!Fits(k, n)
  <2> DEFINE top == IF n > k.top THEN n ELSE k.top
             seen == {x \in k.seen \union {n} : top - x < Window}
  <2>1. VP!Marks(k, n) = [k EXCEPT !.top = top, !.seen = seen]
    BY <1>2 DEF VP!Marks
  <2>2. k.top \in Nat /\ k.seen \in SUBSET Nat
    BY DEF Keys
  <2>3. top \in Nat /\ top >= k.top /\ top >= n /\ (top = n \/ top = k.top)
    BY <2>2
  <2>4. seen \in SUBSET Nat
    BY <2>2
  <2>5. /\ VP!Marks(k, n) \in Keys /\ VP!Marks(k, n).id = k.id /\ VP!Marks(k, n).top = top
        /\ VP!Marks(k, n).seen = seen
    <3> HIDE DEF top, seen
    <3> QED
      BY <2>1, <2>3, <2>4 DEF Keys
  <2>6. ~VP!Fits(VP!Marks(k, n), n)
    BY <2>3, <2>5, IndexAssumption DEF VP!Fits
  <2>7. ASSUME ~VP!Fits(k, s) PROVE ~VP!Fits(VP!Marks(k, n), s)
    <3>1. s <= k.top /\ (k.top - s >= Window \/ s \in k.seen)
      BY <2>2, <2>7, IndexAssumption DEF VP!Fits
    <3>2. s <= top /\ (top - s >= Window \/ s \in seen)
      BY <2>2, <2>3, <3>1, IndexAssumption
    <3> HIDE DEF top, seen
    <3> QED
      BY <2>3, <2>5, <3>2, IndexAssumption DEF VP!Fits
  <2> QED
    BY <2>5, <2>6, <2>7
<1> QED
  BY <1>1, <1>2

(* add_new_keypair as initiator: the key of the handshake that was open.   *)
LEMMA InitiatorKept ==
    ASSUME NEW p \in Peers, NEW n \in SUBSET Messages, NEW h \in SUBSET Payloads, Kept(p, n, h),
           p.hs # 0
    PROVE  /\ VP!StartsAsInitiator(p, p.hs) \in Peers
           /\ Kept(VP!StartsAsInitiator(p, p.hs), n, {g \in h : g[1] # p.hs})
<1> DEFINE q == VP!StartsAsInitiator(p, p.hs)
           h2 == {g \in h : g[1] # p.hs}
           b == IF VP!Valid(p.next) THEN p.next ELSE p.curr
           c == VP!NewKey(p.hs, TRUE)
<1>1. q = [p EXCEPT !.prev = b, !.next = VP!NoKey, !.curr = c, !.hs = 0]
  BY DEF VP!StartsAsInitiator
<1>2. p.curr \in Keys /\ p.next \in Keys /\ p.hs \in Ids
  BY DEF Peers
<1>3. b \in Keys /\ c \in Keys /\ c.id = p.hs
  BY <1>2, NewKeyIn
<1>4. (b = p.next /\ p.next.id # 0) \/ (b = p.curr)
  BY DEF VP!Valid
<1> HIDE DEF b, c
<1>5. q \in Peers /\ q.prev = b /\ q.next = VP!NoKey /\ q.curr = c /\ q.hs = 0
  <2> DEFINE z == 0
  <2>1. q = [p EXCEPT !.prev = b, !.next = VP!NoKey, !.curr = c, !.hs = z]
    BY <1>1
  <2>2. z \in Ids
    BY Zero
  <2> HIDE DEF z
  <2>3. VP!NoKey \in Keys
    BY NoKeyIn
  <2>4. q \in Peers
    BY <1>3, <2>1, <2>2, <2>3 DEF Peers
  <2>5. q.prev = b /\ q.next = VP!NoKey /\ q.curr = c /\ q.hs = z
    BY <2>1 DEF Peers
  <2> QED
    BY <2>4, <2>5 DEF z
<1>6. Seen(q.curr, h2)
  BY <1>3, <1>5 DEF Seen
<1>7. Seen(q.prev, h2)
  <2>1. Seen(b, h)
    BY <1>4 DEF Kept, Unused, Seen
  <2> QED
    BY <1>5, <2>1 DEF Seen
<1>8. Unused(q.next, h2)
  BY <1>5, NoKeyIn DEF Unused
<1>9. Apart(q)
  BY <1>3, <1>4, <1>5, NoKeyIn DEF Apart, Kept
<1>10. ASSUME NEW m \in n, FromServerInit(m) PROVE ApartFrom(q, m.id)
  <2>1. ApartFrom(p, m.id) /\ m.id # 0
    BY <1>10 DEF Kept, Messages, FromServerInit
  <2> QED
    BY <1>3, <1>4, <1>5, <2>1, NoKeyIn DEF ApartFrom
<1> QED
  BY <1>5, <1>6, <1>7, <1>8, <1>9, <1>10 DEF Kept

(* The same as responder: the key the server asked for.                    *)
LEMMA ResponderKept ==
    ASSUME NEW p \in Peers, NEW n \in SUBSET Messages, NEW h \in SUBSET Payloads, Kept(p, n, h),
           NEW m \in n, FromServerInit(m)
    PROVE  /\ VP!StartsAsResponder(p, m.id) \in Peers
           /\ Kept(VP!StartsAsResponder(p, m.id), n \ {m}, {g \in h : g[1] # m.id})
<1> DEFINE q == VP!StartsAsResponder(p, m.id)
           h2 == {g \in h : g[1] # m.id}
           c == VP!NewKey(m.id, FALSE)
<1>1. q = [p EXCEPT !.next = c, !.prev = VP!NoKey, !.hs = 0]
  BY DEF VP!StartsAsResponder
<1>2. m.id \in Ids /\ m.id # 0 /\ ApartFrom(p, m.id)
  BY DEF Messages, FromServerInit, Kept
<1>3. c \in Keys /\ c.id = m.id
  BY <1>2, NewKeyIn
<1> HIDE DEF c
<1>4. q \in Peers /\ q.prev = VP!NoKey /\ q.next = c /\ q.curr = p.curr /\ q.hs = 0
  <2> DEFINE z == 0
  <2>1. q = [p EXCEPT !.next = c, !.prev = VP!NoKey, !.hs = z]
    BY <1>1
  <2>2. z \in Ids
    BY Zero
  <2> HIDE DEF z
  <2>3. VP!NoKey \in Keys
    BY NoKeyIn
  <2>4. q \in Peers
    BY <1>3, <2>1, <2>2, <2>3 DEF Peers
  <2>5. q.prev = VP!NoKey /\ q.next = c /\ q.curr = p.curr /\ q.hs = z
    BY <2>1 DEF Peers
  <2> QED
    BY <2>4, <2>5 DEF z
<1>5. Seen(q.curr, h2)
  BY <1>4 DEF Seen, Kept
<1>6. Seen(q.prev, h2)
  BY <1>4, NoKeyIn, Zero DEF Seen, Payloads
<1>7. Unused(q.next, h2)
  BY <1>3, <1>4 DEF Unused
<1>8. Apart(q)
  BY <1>2, <1>3, <1>4, NoKeyIn DEF Apart, ApartFrom, Kept
<1>9. ASSUME NEW o \in n \ {m}, FromServerInit(o) PROVE ApartFrom(q, o.id)
  <2>1. ApartFrom(p, o.id) /\ o.id # 0
    BY <1>9 DEF Kept, Messages, FromServerInit
  <2>2. o.id # m.id
    <3>1. /\ o.type = m.type /\ o.from = m.from /\ o.n = m.n
          /\ o \in [type : {"init", "resp", "data"}, from : {"base", "server"}, id : Ids, n : Nat]
          /\ m \in [type : {"init", "resp", "data"}, from : {"base", "server"}, id : Ids, n : Nat]
      BY <1>9 DEF Messages, FromServerInit
    <3>2. o.id = m.id => o = m
      BY <3>1
    <3> QED
      BY <3>2
  <2> QED
    BY <1>3, <1>4, <2>1, <2>2, NoKeyIn DEF ApartFrom
<1> QED
  BY <1>4, <1>5, <1>6, <1>7, <1>8, <1>9 DEF Kept

(* wireguard_start_handshake: a session nobody uses.                       *)
LEMMA InitiatesKept ==
    ASSUME NEW p \in Peers, NEW n \in SUBSET Messages, NEW h, Kept(p, n, h), NEW id \in Indexes,
           ApartFrom(p, id), \A m \in n : m.id # id
    PROVE  VP!Initiates(p, id) \in Peers /\ Kept(VP!Initiates(p, id), n, h)
<1> DEFINE q == VP!Initiates(p, id)
<1>1. q = [p EXCEPT !.hs = id, !.sendHandshake = FALSE, !.mayInitiate = FALSE]
  BY DEF VP!Initiates
<1>2. q \in Peers /\ q.prev = p.prev /\ q.next = p.next /\ q.curr = p.curr /\ q.hs = id
  BY <1>1 DEF Peers, Ids
<1>3. Apart(q)
  BY <1>2 DEF Apart, ApartFrom, Kept
<1>4. \A m \in n : FromServerInit(m) => ApartFrom(q, m.id)
  BY <1>2 DEF Kept, ApartFrom
<1> QED
  BY <1>2, <1>3, <1>4 DEF Kept
-----------------------------------------------------------------------------
(* What was delivered.                                                     *)
Once(h) ==
    /\ h \subseteq Payloads /\ IsFiniteSet(h)
    /\ \A g \in h : g[4] => g[3] = 1
    /\ \A g \in h : g[3] > 1 => g[3] = 2 /\ <<g[1], g[2], 1, TRUE>> \in h

(* A new session under an index forgets what the old one delivered.        *)
LEMMA OnceForgets ==
    ASSUME NEW h, Once(h), NEW id PROVE Once({g \in h : g[1] # id})
<1> DEFINE h2 == {g \in h : g[1] # id}
<1>1. IsFiniteSet(h2) /\ h2 \subseteq h
  BY FS_Subset DEF Once
<1>2. ASSUME NEW g \in h2, g[3] > 1 PROVE g[3] = 2 /\ <<g[1], g[2], 1, TRUE>> \in h2
  BY <1>2 DEF Once
<1> QED
  BY <1>1, <1>2 DEF Once

(* wireguard_check_replay says yes only to what was not delivered, or was  *)
(* delivered by the packet that confirmed the key.                         *)
LEMMA OnceDelivers ==
    ASSUME NEW h, Once(h), NEW id \in Indexes, NEW n \in Nat, NEW first \in BOOLEAN,
           NEW c, c = Cardinality({g \in h : g[1] = id /\ g[2] = n}),
           first => \A g \in h : g[1] # id,
           \A g \in h : g[1] = id /\ g[2] = n => g[4]
    PROVE  Once(h \union {<<id, n, 1 + c, first>>})
<1> DEFINE D == {g \in h : g[1] = id /\ g[2] = n}
           o == <<id, n, 1, TRUE>>
           e == <<id, n, 1 + c, first>>
<1>1. \A g \in D : g = o
  <2> SUFFICES ASSUME NEW g \in D PROVE g = o
    OBVIOUS
  <2>1. g \in Payloads /\ g[1] = id /\ g[2] = n /\ g[4] = TRUE /\ g[3] = 1
    BY DEF Once, Payloads
  <2>2. g = <<g[1], g[2], g[3], g[4]>>
    BY <2>1 DEF Payloads
  <2> QED
    BY <2>1, <2>2
<1>2. D = {} \/ D = {o}
  <2> HIDE DEF D, o
  <2> QED
    BY <1>1
<1>3. (D = {} /\ c = 0) \/ (D = {o} /\ c = 1)
  <2> HIDE DEF o
  <2> QED
    BY <1>2, FS_EmptySet, FS_Singleton
<1>4. c \in Nat /\ (c = 0 \/ (c = 1 /\ o \in h))
  <2> HIDE DEF o
  <2>1. D \subseteq h
    OBVIOUS
  <2> HIDE DEF D
  <2> QED
    BY <1>3, <2>1
<1>5. first => c = 0
  BY <1>3
<1>6. e \in Payloads /\ e[1] = id /\ e[2] = n /\ e[3] = 1 + c /\ e[4] = first
  BY <1>4 DEF Payloads
<1>7. e[3] > 1 => e[3] = 2 /\ <<e[1], e[2], 1, TRUE>> \in h
  BY <1>4, <1>6
<1>8. e[4] => e[3] = 1
  BY <1>5, <1>6
<1> HIDE DEF e, D, o
<1>9. IsFiniteSet(h \union {e}) /\ h \union {e} \subseteq Payloads
  BY <1>6, FS_AddElement DEF Once
<1>10. \A g \in h \union {e} : g[4] => g[3] = 1
  BY <1>8 DEF Once
<1>11. \A g \in h \union {e} : g[3] > 1 => g[3] = 2 /\ <<g[1], g[2], 1, TRUE>> \in h \union {e}
  <2>1. \A g \in h : g[3] > 1 => g[3] = 2 /\ <<g[1], g[2], 1, TRUE>> \in h
    BY DEF Once
  <2> QED
    BY <1>7, <2>1
<1>12. Once(h \union {e})
  BY <1>9, <1>10, <1>11 DEF Once
<1> QED
  BY <1>12 DEF e

-----------------------------------------------------------------------------
(* wireguardif_process_data_message: the packet that confirms the key of   *)
(* the responder.                                                          *)
LEMMA ConfirmedKept ==
    ASSUME NEW p \in Peers, NEW n \in SUBSET Messages, NEW h \in SUBSET Payloads, Kept(p, n, h),
           p.next.id # 0, NEW h2 \in SUBSET Payloads, h \subseteq h2,
           \A g \in h2 \ h : g[4]
    PROVE  VP!Confirmed(p, "next") \in Peers /\ Kept(VP!Confirmed(p, "next"), n, h2)
<1> DEFINE q == VP!Confirmed(p, "next")
           c == [p.next EXCEPT !.rx = TRUE]
           b == p.curr
<1>1. q = [p EXCEPT !.prev = b, !.curr = c, !.next = VP!NoKey]
  BY DEF VP!Confirmed
<1>2. p.curr \in Keys /\ p.next \in Keys
  BY DEF Peers
<1>3. c \in Keys /\ c.id = p.next.id
  BY <1>2 DEF Keys
<1> HIDE DEF b, c
<1>4. b \in Keys /\ VP!NoKey \in Keys
  BY <1>2, NoKeyIn DEF b
<1>5. q \in Peers
  BY <1>1, <1>3, <1>4 DEF Peers
<1>6. q.prev = b /\ q.next = VP!NoKey /\ q.curr = c /\ q.hs = p.hs
  BY <1>1 DEF Peers
<1>7. Seen(q.curr, h2)
  BY <1>3, <1>6 DEF Kept, Unused, Seen
<1>8. Seen(q.prev, h2)
  BY <1>6 DEF Kept, Seen, b
<1>9. Unused(q.next, h2)
  BY <1>6, NoKeyIn DEF Unused
<1>10. Apart(q)
  BY <1>3, <1>6, NoKeyIn DEF Apart, Kept, b
<1>11. ASSUME NEW m \in n, FromServerInit(m) PROVE ApartFrom(q, m.id)
  <2>1. ApartFrom(p, m.id) /\ m.id # 0
    BY <1>11 DEF Kept, Messages, FromServerInit
  <2> QED
    BY <1>3, <1>6, <2>1, NoKeyIn DEF ApartFrom, b
<1> QED
  BY <1>5, <1>7, <1>8, <1>9, <1>10, <1>11 DEF Kept

(* Any other packet: its number is marked in the slot of its key.          *)
LEMMA ReceivedKept ==
    ASSUME NEW p \in Peers, NEW n \in SUBSET Messages, NEW h \in SUBSET Payloads, Kept(p, n, h),
           NEW name \in {"curr", "prev"}, p[name].id # 0, NEW num \in Nat,
           NEW h2 \in SUBSET Payloads, h \subseteq h2,
           \A g \in h2 \ h : g[1] = p[name].id /\ g[2] = num /\ num > 0
    PROVE  /\ VP!Marked(VP!Confirmed(p, name), name, num) \in Peers
           /\ Kept(VP!Marked(VP!Confirmed(p, name), name, num), n, h2)
<1> DEFINE q == VP!Marked(VP!Confirmed(p, name), name, num)
           k == p[name]
           k1 == [k EXCEPT !.rx = TRUE]
           k2 == IF num > 0 THEN VP!Marks(k1, num) ELSE k1
<1>1. k \in Keys /\ p.curr \in Keys /\ p.prev \in Keys /\ p.next \in Keys
  BY DEF Peers
<1>2. Seen(k, h)
  BY DEF Kept
<1> HIDE DEF k
<1>3. k1 \in Keys /\ k1.id = k.id /\ k1.top = k.top /\ k1.seen = k.seen
  BY <1>1 DEF Keys
<1> HIDE DEF k1
<1>4. k2 \in Keys /\ k2.id = k.id
  BY <1>3, MarksIs
<1>5. Seen(k2, h2)
  <2> SUFFICES ASSUME NEW g \in h2, g[1] = k2.id, ~g[4] PROVE ~VP!Fits(k2, g[2])
    BY DEF Seen
  <2>1. g[2] \in Nat
    BY DEF Payloads
  <2>2. CASE g \in h
    <3>1. ~VP!Fits(k, g[2])
      BY <1>2, <1>4, <2>2 DEF Seen
    <3>2. ~VP!Fits(k1, g[2])
      BY <1>3, <3>1 DEF VP!Fits
    <3> QED
      BY <1>3, <2>1, <3>2, MarksIs
  <2>3. CASE g \notin h
    <3>1. g[2] = num /\ num > 0
      BY <2>3
    <3> QED
      BY <1>3, <2>1, <3>1, MarksIs
  <2> QED
    BY <2>2, <2>3
<1>6. q = [p EXCEPT ![name] = k2]
  <2>1. name # "next" /\ name \in DOMAIN p
    BY DEF Peers
  <2> DEFINE p1 == VP!Confirmed(p, name)
  <2>2. p1 = [p EXCEPT ![name] = k1]
    BY <2>1 DEF VP!Confirmed, k1, k
  <2>3. CASE num > 0
    <3>1. q = [p1 EXCEPT ![name] = VP!Marks(p1[name], num)]
      BY <2>1, <2>3 DEF VP!Marked
    <3>2. p1[name] = k1
      BY <2>1, <2>2
    <3> HIDE DEF p1
    <3>3. q = [p1 EXCEPT ![name] = k2]
      BY <2>3, <3>1, <3>2
    <3> HIDE DEF k2
    <3> QED
      BY <2>1, <2>2, <3>3
  <2>4. CASE ~ (num > 0)
    BY <2>1, <2>2, <2>4 DEF VP!Marked
  <2> QED
    BY <2>3, <2>4
<1> HIDE DEF q, k2
<1>7. \A g \in h2 \ h : g[1] = k.id
  BY DEF k
<1>8. Unused(p.next, h) /\ Apart(p) /\ k.id # 0
  BY DEF Kept, k
<1>9. CASE name = "curr"
  <2>1. q \in Peers /\ q.curr = k2 /\ q.prev = p.prev /\ q.next = p.next /\ q.hs = p.hs /\ k = p.curr
    BY <1>4, <1>6, <1>9, SlotsIn DEF Peers, k
  <2>2. Seen(q.prev, h2) /\ Unused(q.next, h2)
    BY <1>7, <1>8, <2>1 DEF Kept, Seen, Unused, Apart
  <2>3. Apart(q)
    BY <1>4, <1>8, <2>1 DEF Apart
  <2>4. \A m \in n : FromServerInit(m) => ApartFrom(q, m.id)
    BY <1>4, <2>1 DEF Kept, ApartFrom
  <2> QED
    BY <1>5, <2>1, <2>2, <2>3, <2>4 DEF Kept, q
<1>10. CASE name = "prev"
  <2>1. q \in Peers /\ q.curr = p.curr /\ q.prev = k2 /\ q.next = p.next /\ q.hs = p.hs /\ k = p.prev
    BY <1>4, <1>6, <1>10, SlotsIn DEF Peers, k
  <2>2. Seen(q.curr, h2) /\ Unused(q.next, h2)
    BY <1>7, <1>8, <2>1 DEF Kept, Seen, Unused, Apart
  <2>3. Apart(q)
    BY <1>4, <1>8, <2>1 DEF Apart
  <2>4. \A m \in n : FromServerInit(m) => ApartFrom(q, m.id)
    BY <1>4, <2>1 DEF Kept, ApartFrom
  <2> QED
    BY <1>5, <2>1, <2>2, <2>3, <2>4 DEF Kept, q
<1> QED
  BY <1>9, <1>10
-----------------------------------------------------------------------------
(* The messages in flight and the indexes in use are few.                  *)
LEMMA Swapped ==
    ASSUME NEW S, IsFiniteSet(S), NEW m \in S, NEW T \in SUBSET (S \ {m}), NEW x
    PROVE  /\ IsFiniteSet(T) /\ Cardinality(T) <= Cardinality(S)
           /\ IsFiniteSet(T \union {x}) /\ Cardinality(T \union {x}) <= Cardinality(S)
<1>1. IsFiniteSet(S \ {m}) /\ Cardinality(S \ {m}) = Cardinality(S) - 1
  BY FS_RemoveElement
<1>2. IsFiniteSet(T) /\ Cardinality(T) <= Cardinality(S \ {m})
  BY <1>1, FS_Subset
<1>3. Cardinality(T) \in Nat /\ Cardinality(S) \in Nat
  BY <1>2, FS_CardinalityType
<1>4. /\ IsFiniteSet(T \union {x})
      /\ Cardinality(T \union {x}) = Cardinality(T) \/ Cardinality(T \union {x}) = Cardinality(T) + 1
  BY <1>2, FS_AddElement
<1> QED
  BY <1>1, <1>2, <1>3, <1>4

(* One element more.                                                       *)
LEMMA OneMore ==
    ASSUME NEW S, IsFiniteSet(S), NEW x
    PROVE  /\ IsFiniteSet(S \union {x}) /\ Cardinality(S \union {x}) <= Cardinality(S) + 1
           /\ Cardinality(S) \in Nat /\ Cardinality(S \union {x}) \in Nat
<1>1. IsFiniteSet(S \union {x})
      /\ (Cardinality(S \union {x}) = Cardinality(S) \/ Cardinality(S \union {x}) = Cardinality(S) + 1)
  BY FS_AddElement
<1>2. Cardinality(S) \in Nat
  BY FS_CardinalityType
<1> QED
  BY <1>1, <1>2

(* The size of the sets of indexes in use.                                 *)
LEMMA AtMostFour ==
    ASSUME NEW a, NEW b, NEW c, NEW d
    PROVE  /\ IsFiniteSet({a, b}) /\ Cardinality({a, b}) <= 2
           /\ IsFiniteSet({a, b, c, d}) /\ Cardinality({a, b, c, d}) <= 4
<1> DEFINE A == {a}
           B == A \union {b}
           C == B \union {c}
           D == C \union {d}
<1>1. IsFiniteSet(A) /\ Cardinality(A) = 1
  BY FS_Singleton
<1>2. {a, b} = B /\ {a, b, c, d} = D
  OBVIOUS
<1> HIDE DEF A
<1>3. IsFiniteSet(B) /\ Cardinality(B) <= Cardinality(A) + 1 /\ Cardinality(B) \in Nat
  BY <1>1, OneMore
<1> HIDE DEF B
<1>4. IsFiniteSet(C) /\ Cardinality(C) <= Cardinality(B) + 1 /\ Cardinality(C) \in Nat
  BY <1>3, OneMore
<1> HIDE DEF C
<1>5. IsFiniteSet(D) /\ Cardinality(D) <= Cardinality(C) + 1 /\ Cardinality(D) \in Nat
  BY <1>4, OneMore
<1> HIDE DEF D
<1>6. Cardinality(B) <= 2 /\ Cardinality(D) <= 4
  BY <1>1, <1>3, <1>4, <1>5
<1> QED
  BY <1>2, <1>3, <1>5, <1>6

-----------------------------------------------------------------------------
Networks == {"none", "wifi", "cell"}
VpWorlds ==
    /\ srv \in [addr : Addresses, alive : BOOLEAN, cur : Ids, old : Ids, sent : Nat, total : Nat]
    /\ world \in [on : BOOLEAN, net : Networks, clock : BOOLEAN, dns : Addresses]
    /\ vpn \in [started : BOOLEAN, up : BOOLEAN, net : Networks, down : 0 .. DownMinutes + 1]
    /\ vpDue \subseteq {"timer", "tick"} /\ vpUsed \in 0 .. VpMaxFaults
(* The initiation of the timer may come on top of the bound, once.         *)
VpNets ==
    /\ net \subseteq Messages /\ IsFiniteSet(net)
    /\ Cardinality(net) <= MaxFlight + 1
    /\ "timer" \in vpDue => Cardinality(net) <= MaxFlight
VpPeers == peer = VP!NoPeer \/ (peer \in Peers /\ Kept(peer, net, got))
VpInv == VpWorlds /\ VpNets /\ Once(got) /\ VpPeers

(* The interface is there or not.                                          *)
LEMMA NoPeerIs == VP!NoPeer.exists = FALSE /\ \A p \in Peers : p.exists = TRUE
BY DEF VP!NoPeer, Peers

(* No tunnel, no message, nothing delivered.                               *)
LEMMA VpInitInv == VP!VpInit => VpInv
<1> SUFFICES ASSUME VP!VpInit PROVE VpInv
  OBVIOUS
<1>1. PICK a \in Addresses :
        /\ srv = [addr |-> a, alive |-> TRUE, cur |-> 0, old |-> 0, sent |-> 0, total |-> 0]
        /\ world = [on |-> TRUE, net |-> "wifi", clock |-> FALSE, dns |-> a]
  BY DEF VP!VpInit
<1>2. /\ peer = VP!NoPeer /\ net = {} /\ got = {} /\ vpDue = {} /\ vpUsed = 0
      /\ vpn = [started |-> FALSE, up |-> FALSE, net |-> "none", down |-> 0]
  BY DEF VP!VpInit, VP!Down
<1>3. srv \in [addr : Addresses, alive : BOOLEAN, cur : Ids, old : Ids, sent : Nat, total : Nat]
  BY <1>1, Zero
<1>4. world \in [on : BOOLEAN, net : Networks, clock : BOOLEAN, dns : Addresses]
  BY <1>1 DEF Networks
<1>5. vpn \in [started : BOOLEAN, up : BOOLEAN, net : Networks, down : 0 .. DownMinutes + 1]
  <2>1. 0 \in 0 .. DownMinutes + 1
    BY MinutesAssumption
  <2> QED
    BY <1>2, <2>1 DEF Networks
<1>6. VpWorlds
  BY <1>2, <1>3, <1>4, <1>5, IndexAssumption DEF VpWorlds
<1>7. VpNets
  BY <1>2, FS_EmptySet, IndexAssumption DEF VpNets
<1>8. Once(got)
  BY <1>2, FS_EmptySet DEF Once
<1> QED
  BY <1>2, <1>6, <1>7, <1>8 DEF VpInv, VpPeers

(* A message is taken, with an answer or without.                          *)
LEMMA NetSwaps ==
    ASSUME VpNets, NEW m \in net, NEW T \in SUBSET (net \ {m}), NEW x \in Messages,
           UNCHANGED vpDue, net' = T \/ net' = T \union {x}
    PROVE  VpNets'
<1>1. /\ IsFiniteSet(T) /\ Cardinality(T) <= Cardinality(net)
      /\ IsFiniteSet(T \union {x}) /\ Cardinality(T \union {x}) <= Cardinality(net)
      /\ IsFiniteSet(net)
  BY Swapped DEF VpNets
<1>2. Cardinality(T) \in Nat /\ Cardinality(T \union {x}) \in Nat /\ Cardinality(net) \in Nat
  BY <1>1, FS_CardinalityType
<1>3. IsFiniteSet(net') /\ Cardinality(net') <= Cardinality(net) /\ Cardinality(net') \in Nat
  BY <1>1, <1>2
<1>4. net' \subseteq Messages
  BY DEF VpNets
<1> QED
  BY <1>2, <1>3, <1>4, IndexAssumption DEF VpNets

(* A message is sent when there is room in flight.                         *)
LEMMA NetGrows ==
    ASSUME VpNets, NEW x \in Messages, VP!InFlight({x}), net' = net \union {x}, UNCHANGED vpDue
    PROVE  VpNets'
<1>1. IsFiniteSet(net') /\ Cardinality(net') \in Nat
  BY OneMore DEF VpNets
<1>2. Cardinality(net') <= MaxFlight
  BY SizeIs DEF VP!InFlight
<1> QED
  BY <1>1, <1>2, IndexAssumption DEF VpNets

(* There is a free index when the timer or the server wants one.           *)
LEMMA FreeIs ==
    ASSUME VpInv, "timer" \in vpDue \/ VP!FreeIndexes # {}
    PROVE  /\ VP!UniqueIndex \in Indexes /\ \A m \in net : m.id # VP!UniqueIndex
           /\ peer.exists => ApartFrom(peer, VP!UniqueIndex)
<1>1. VP!FreeIndexes # {}
  <2> SUFFICES ASSUME "timer" \in vpDue, VP!FreeIndexes = {} PROVE FALSE
    OBVIOUS
  <2> DEFINE N == {m.id : m \in net}
             P == {peer.curr.id, peer.prev.id, peer.next.id, peer.hs}
             S == {srv.cur, srv.old}
  <2>1. IsFiniteSet(net) /\ Cardinality(net) <= MaxFlight
    BY DEF VpInv, VpNets
  <2>2. IsFiniteSet(N) /\ Cardinality(N) <= Cardinality(net)
    <3> DEFINE f == [m \in net |-> m.id]
    <3>1. f \in Surjection(net, N)
      BY DEF Surjection
    <3> QED
      BY <2>1, <3>1, FS_Surjection
  <2>3. IsFiniteSet(S) /\ Cardinality(S) <= 2 /\ IsFiniteSet(P) /\ Cardinality(P) <= 4
    BY AtMostFour
  <2>4. Indexes \subseteq S \union N \union P
    BY DEF VP!FreeIndexes, VP!InUse
  <2> HIDE DEF N, P, S
  <2>5. IsFiniteSet(S \union N)
        /\ Cardinality(S \union N) = Cardinality(S) + Cardinality(N) - Cardinality(S \cap N)
    BY <2>2, <2>3, FS_Union
  <2>6. IsFiniteSet(S \union N \union P)
        /\ Cardinality(S \union N \union P)
             = Cardinality(S \union N) + Cardinality(P) - Cardinality((S \union N) \cap P)
    BY <2>3, <2>5, FS_Union
  <2>7. Cardinality(S \cap N) \in Nat /\ Cardinality((S \union N) \cap P) \in Nat
    <3>1. IsFiniteSet(S \cap N) /\ IsFiniteSet((S \union N) \cap P)
      BY <2>3, <2>5, FS_Intersection
    <3> QED
      BY <3>1, FS_CardinalityType
  <2>8. Cardinality(Indexes) <= Cardinality(S \union N \union P)
    BY <2>4, <2>6, FS_Subset
  <2>9. /\ Cardinality(S) \in Nat /\ Cardinality(N) \in Nat /\ Cardinality(P) \in Nat
        /\ Cardinality(S \union N) \in Nat /\ Cardinality(Indexes) \in Nat
        /\ Cardinality(S \union N \union P) \in Nat /\ Cardinality(net) \in Nat
    BY <2>1, <2>2, <2>3, <2>5, <2>6, FS_CardinalityType, IndexAssumption
  <2>10. Cardinality(Indexes) >= MaxFlight + 7 /\ MaxFlight \in Nat
    BY IndexAssumption
  <2> QED
    BY <2>1, <2>2, <2>3, <2>5, <2>6, <2>7, <2>8, <2>9, <2>10
<1>2. VP!FreeIndexes \in SUBSET Nat
  BY IndexAssumption DEF VP!FreeIndexes
<1>3. VP!UniqueIndex \in VP!FreeIndexes
  <2>1. \E k \in VP!FreeIndexes : \A j \in VP!FreeIndexes : k <= j
    BY <1>1, <1>2, LeastNat
  <2> HIDE DEF VP!FreeIndexes
  <2> QED
    BY <2>1 DEF VP!UniqueIndex, VP!Min
<1>4. VP!UniqueIndex \in Indexes /\ VP!UniqueIndex \notin VP!InUse
  BY <1>3 DEF VP!FreeIndexes
<1>5. \A m \in net : m.id \in VP!InUse
  BY DEF VP!InUse
<1>6. ASSUME peer.exists
      PROVE  {peer.curr.id, peer.prev.id, peer.next.id, peer.hs} \subseteq VP!InUse
  BY <1>6 DEF VP!InUse
<1> QED
  BY <1>4, <1>5, <1>6 DEF ApartFrom

-----------------------------------------------------------------------------
(* One step after the other.                                               *)

(* wireguardif_tmr.                                                        *)
LEMMA TimerStep == VpInv /\ VP!TimerRuns => VpInv'
<1> SUFFICES ASSUME VpInv, VP!TimerRuns PROVE VpInv'
  OBVIOUS
<1>1. /\ "timer" \in vpDue /\ vpDue' = vpDue \ {"timer"} /\ VP!Timer(world.clock)
      /\ UNCHANGED <<srv, got, world, vpn, vpUsed>>
  BY DEF VP!TimerRuns, VP!Timer
<1>2. VpWorlds' /\ Once(got)'
  BY <1>1 DEF VpInv, VpWorlds, Once
<1>3. IsFiniteSet(net) /\ Cardinality(net) <= MaxFlight /\ Cardinality(net) \in Nat
      /\ net \in SUBSET Messages /\ got \in SUBSET Payloads
  BY <1>1, FS_CardinalityType DEF VpInv, VpNets, Once
<1>4. CASE ~peer.exists
  <2>1. UNCHANGED <<peer, net>> /\ peer = VP!NoPeer
    BY <1>1, <1>4, NoPeerIs DEF VP!Timer, VpInv, VpPeers
  <2> QED
    BY <1>1, <1>2, <1>3, <2>1, IndexAssumption DEF VpInv, VpNets, VpPeers
<1>5. CASE peer.exists
  <2> DEFINE p1 == VP!AfterKeepalive(VP!WithoutOldKey(peer))
             id == VP!UniqueIndex
             m  == VP!Initiation(id, world.clock)
  <2>1. peer \in Peers /\ Kept(peer, net, got)
    BY <1>5, NoPeerIs DEF VpInv, VpPeers
  <2>2. Fades(peer, p1) /\ p1 \in Peers
    BY <2>1, TimerFades DEF Fades
  <2>3. Kept(p1, net, got)
    BY <1>3, <2>1, <2>2, KeptFades
  <2>4. id \in Indexes /\ (\A o \in net : o.id # id) /\ ApartFrom(peer, id)
    BY <1>1, <1>5, FreeIs
  <2>5. m.id = id /\ m.from = "base" /\ m \in Messages
    <3>1. m = [type |-> "init", from |-> "base", id |-> id, n |-> IF world.clock THEN 1 ELSE 0]
      BY DEF VP!Initiation, VP!Msg
    <3>2. (IF world.clock THEN 1 ELSE 0) \in Nat /\ id \in Ids /\ id # 0
      BY <2>4, Zero DEF Ids
    <3> DEFINE k == IF world.clock THEN 1 ELSE 0
    <3> HIDE DEF id, k, m
    <3>3. m = [type |-> "init", from |-> "base", id |-> id, n |-> k] /\ k \in Nat
      BY <3>1, <3>2 DEF k
    <3> QED
      BY <3>2, <3>3 DEF Messages
  <2>6. \/ peer' = p1 /\ net' = net
        \/ peer' = VP!Initiates(p1, m.id) /\ net' = net \union {m}
    BY <1>1, <1>5 DEF VP!Timer
  <2>7. ApartFrom(p1, id)
    BY <2>2, <2>4, Zero DEF ApartFrom, Fades, Fading
  <2> HIDE DEF p1, m, id
  <2>8. CASE peer' = p1 /\ net' = net
    BY <1>1, <1>2, <1>3, <2>2, <2>3, <2>8, IndexAssumption DEF VpInv, VpNets, VpPeers
  <2>9. CASE peer' = VP!Initiates(p1, m.id) /\ net' = net \union {m}
    <3> DEFINE q == VP!Initiates(p1, id)
    <3>1. q \in Peers /\ Kept(q, net, got)
      BY <1>3, <2>2, <2>3, <2>4, <2>7, InitiatesKept
    <3>2. \A o \in net' : FromServerInit(o) => o \in net
      BY <2>5, <2>9 DEF FromServerInit
    <3> HIDE DEF q
    <3>3. Kept(q, net', got)
      BY <1>3, <3>1, <3>2, FadesSelf, KeptFades
    <3>4. VpNets'
      <4>1. IsFiniteSet(net') /\ Cardinality(net') <= Cardinality(net) + 1 /\ Cardinality(net') \in Nat
        BY <1>3, <2>9, OneMore
      <4>2. net' \subseteq Messages
        BY <1>3, <2>5, <2>9
      <4> QED
        BY <1>1, <1>3, <4>1, <4>2, IndexAssumption DEF VpNets
    <3>5. peer' = q /\ got' = got
      BY <1>1, <2>5, <2>9 DEF q
    <3> QED
      BY <1>2, <3>1, <3>3, <3>4, <3>5 DEF VpInv, VpPeers
  <2> QED
    BY <2>6, <2>8, <2>9
<1> QED
  BY <1>4, <1>5

(* A minute passes when nothing is in flight.                              *)
LEMMA MinuteStep == VpInv /\ VP!MinutePasses => VpInv'
<1> SUFFICES ASSUME VpInv, VP!MinutePasses PROVE VpInv'
  OBVIOUS
<1>1. /\ net = {} /\ vpDue' = {"tick", "timer"} /\ peer' = VP!PeerAges(peer)
      /\ vpn' = (IF vpn.started /\ vpn.down <= DownMinutes THEN [vpn EXCEPT !.down = @ + 1] ELSE vpn)
      /\ UNCHANGED <<srv, net, got, world, vpUsed>>
  BY DEF VP!MinutePasses
<1>2. VpWorlds'
  <2>1. vpn' \in [started : BOOLEAN, up : BOOLEAN, net : Networks, down : 0 .. DownMinutes + 1]
    BY <1>1, MinutesAssumption DEF VpInv, VpWorlds
  <2> QED
    BY <1>1, <2>1 DEF VpInv, VpWorlds
<1>3. VpNets'
  BY <1>1, FS_EmptySet, IndexAssumption DEF VpNets
<1>4. Once(got)'
  BY <1>1 DEF VpInv, Once
<1>5. VpPeers'
  <2>1. CASE peer = VP!NoPeer
    <3>1. peer' = peer
      BY <1>1, <2>1, NoPeerIs DEF VP!PeerAges
    <3> QED
      BY <2>1, <3>1 DEF VpPeers
  <2>2. CASE peer \in Peers /\ Kept(peer, net, got)
    <3>1. Fades(peer, peer') /\ peer' \in Peers
      BY <1>1, <2>2, AgesFades DEF Fades
    <3>2. Kept(peer', net, got)
      BY <2>2, <3>1, KeptFades DEF VpInv, VpNets, Once
    <3> QED
      BY <1>1, <3>1, <3>2 DEF VpPeers
  <2> QED
    BY <2>1, <2>2 DEF VpInv, VpPeers
<1> QED
  BY <1>2, <1>3, <1>4, <1>5 DEF VpInv

(* vpn_link_tick: the tunnel as it was, none, or a new one.                *)
LEMMA TickStep == VpInv /\ VP!VpnTick => VpInv'
<1> SUFFICES ASSUME VpInv, VP!VpnTick PROVE VpInv'
  OBVIOUS
<1>1. vpDue' = vpDue \ {"tick"} /\ UNCHANGED <<srv, net, got, world>>
  BY DEF VP!VpnTick
<1>2. \/ VP!StopsTunnel /\ UNCHANGED vpUsed
      \/ VP!Starts
      \/ VP!Watches
  BY DEF VP!VpnTick
<1> DEFINE Vpns == [started : BOOLEAN, up : BOOLEAN, net : Networks, down : 0 .. DownMinutes + 1]
<1>a. VP!Down \in Vpns
  <2>1. 0 \in 0 .. DownMinutes + 1
    BY MinutesAssumption
  <2> QED
    BY <2>1 DEF VP!Down, Networks
<1>3. /\ vpUsed' \in 0 .. VpMaxFaults /\ vpn' \in Vpns
      /\ peer' = peer \/ peer' = VP!NoPeer \/ \E a \in Addresses : peer' = VP!Activated(VP!NewPeer(a))
  <2>0. vpn \in Vpns /\ vpUsed \in 0 .. VpMaxFaults
    BY DEF VpInv, VpWorlds
  <2>1. CASE VP!StopsTunnel
    <3>1. vpn' = VP!Down /\ peer' = VP!NoPeer
      BY <2>1 DEF VP!StopsTunnel
    <3>2. vpUsed' \in 0 .. VpMaxFaults
      <4>1. CASE UNCHANGED vpUsed
        BY <4>1, <2>0
      <4>2. CASE VP!Starts
        <5>1. CASE \E a \in VP!Resolved : a = "unknown" /\ vpUsed' = vpUsed + 1
          <6>1. vpUsed < VpMaxFaults
            BY <5>1, AddressAssumption DEF VP!Resolved, VpInv, VpWorlds
          <6> QED
            BY <5>1, <6>1, <2>0, IndexAssumption
        <5>2. CASE UNCHANGED vpUsed
          BY <5>2, <2>0
        <5> QED
          BY <4>2, <5>1, <5>2 DEF VP!Starts
      <4>3. CASE VP!Watches
        BY <4>3, <2>0 DEF VP!Watches
      <4> QED
        BY <1>2, <4>1, <4>2, <4>3
    <3> QED
      BY <3>1, <3>2, <1>a
  <2>2. CASE VP!Starts /\ ~VP!StopsTunnel
    <3>1. PICK a \in VP!Resolved : a # "unknown" /\ VP!Connects(a) /\ UNCHANGED vpUsed
      BY <2>2 DEF VP!Starts
    <3>2. a \in Addresses
      BY <3>1 DEF VP!Resolved, VpInv, VpWorlds
    <3> DEFINE w == world.net
    <3>3. w \in Networks
      BY DEF VpInv, VpWorlds
    <3>4. vpn' = [VP!Down EXCEPT !.started = TRUE, !.net = w]
      BY <3>1 DEF VP!Connects
    <3> HIDE DEF w
    <3>5. vpn' \in Vpns
      BY <3>3, <3>4, <1>a
    <3> QED
      BY <2>0, <3>1, <3>2, <3>5 DEF VP!Connects
  <2>3. CASE VP!Watches /\ ~VP!StopsTunnel
    <3>1. \/ vpn' = [vpn EXCEPT !.up = TRUE, !.down = 0]
          \/ vpn' = [vpn EXCEPT !.up = FALSE]
      BY <2>3 DEF VP!Watches
    <3>2. UNCHANGED <<peer, vpUsed>>
      BY <2>3 DEF VP!Watches
    <3>3. vpn' \in Vpns
      <4>1. 0 \in 0 .. DownMinutes + 1
        BY MinutesAssumption
      <4> QED
        BY <2>0, <3>1, <4>1
    <3> QED
      BY <2>0, <3>2, <3>3
  <2> QED
    BY <1>2, <2>1, <2>2, <2>3
<1>4. VpWorlds'
  BY <1>1, <1>3 DEF VpInv, VpWorlds
<1>5. VpNets' /\ Once(got)'
  BY <1>1 DEF VpInv, VpNets, Once
<1>6. VpPeers'
  <2>1. CASE peer' = peer
    BY <1>1, <2>1 DEF VpInv, VpPeers
  <2>2. CASE peer' = VP!NoPeer
    BY <2>2 DEF VpPeers
  <2>3. ASSUME NEW a \in Addresses, peer' = VP!Activated(VP!NewPeer(a)) PROVE VpPeers'
    <3> DEFINE k == VP!NoKey
               z == 0
    <3>1. peer' = [exists |-> TRUE, curr |-> k, prev |-> k, next |-> k, hs |-> z, ip |-> a,
                   active |-> TRUE, sendHandshake |-> FALSE, mayInitiate |-> TRUE, quiet |-> TRUE]
      BY <2>3 DEF VP!Activated, VP!NewPeer, VP!NewDevice
    <3>2. k \in Keys /\ z \in Ids /\ k.id = 0
      BY NoKeyIn, Zero
    <3> HIDE DEF k, z
    <3>3. peer' \in Peers
      BY <3>1, <3>2 DEF Peers
    <3>4. peer'.curr = k /\ peer'.prev = k /\ peer'.next = k /\ peer'.hs = z
      BY <3>1
    <3>5. \A g \in got : g[1] # 0
      BY Zero DEF VpInv, Once, Payloads
    <3>6. \A m \in net : FromServerInit(m) => m.id # 0
      BY DEF VpInv, VpNets, Messages, FromServerInit
    <3>7. Kept(peer', net, got)
      BY <3>2, <3>4, <3>5, <3>6 DEF Kept, Seen, Unused, Apart, ApartFrom, z
    <3> QED
      BY <1>1, <3>3, <3>7 DEF VpPeers
  <2> QED
    BY <1>3, <2>1, <2>2, <2>3
<1> QED
  BY <1>4, <1>5, <1>6 DEF VpInv

(* The answer to the handshake that is open.                               *)
LEMMA ResponseStep == VpInv /\ VP!TakesResponse /\ UNCHANGED <<world, vpn, vpDue, vpUsed>> => VpInv'
<1> SUFFICES ASSUME VpInv, VP!TakesResponse, UNCHANGED <<world, vpn, vpDue, vpUsed>> PROVE VpInv'
  OBVIOUS
<1>1. PICK m \in net : /\ m.type = "resp" /\ m.from = "server" /\ net' = net \ {m}
                       /\ IF m.id # peer.hs THEN UNCHANGED <<peer, got>>
                          ELSE /\ peer' = VP!Output([VP!StartsAsInitiator(peer, m.id) EXCEPT
                                                         !.ip = srv.addr])
                               /\ got' = {g \in got : g[1] # m.id}
  BY DEF VP!TakesResponse, VP!FromServer, VP!Takes, VP!NewSession
<1>2. peer \in Peers /\ Kept(peer, net, got) /\ srv' = srv
  BY NoPeerIs DEF VP!TakesResponse, VpInv, VpPeers
<1>3. m.id # 0 /\ m \in Messages /\ net \in SUBSET Messages /\ got \in SUBSET Payloads
      /\ srv.addr \in Addresses
  BY <1>1 DEF VpInv, VpNets, Messages, Once, VpWorlds
<1>4. VpWorlds'
  BY <1>2 DEF VpInv, VpWorlds
<1>5. VpNets'
  BY <1>1, <1>3, NetSwaps DEF VpInv
<1>6. CASE m.id # peer.hs
  <2>1. peer' = peer /\ got' = got
    BY <1>1, <1>6
  <2>2. Kept(peer, net', got)
    BY <1>1, <1>2, <1>3, FadesSelf, KeptFades
  <2> QED
    BY <1>2, <1>4, <1>5, <2>1, <2>2 DEF VpInv, VpPeers, Once
<1>7. CASE m.id = peer.hs
  <2> DEFINE p1 == VP!StartsAsInitiator(peer, m.id)
             p2 == [p1 EXCEPT !.ip = srv.addr]
  <2>1. peer' = VP!Output(p2) /\ got' = {g \in got : g[1] # m.id}
    BY <1>1, <1>7
  <2>2. p1 \in Peers /\ Kept(p1, net, got')
    BY <1>2, <1>3, <1>7, <2>1, InitiatorKept
  <2> HIDE DEF p1
  <2>3. Fades(p1, p2)
    BY <1>3, <2>2, MovedFades
  <2>4. p2 \in Peers
    BY <2>3 DEF Fades
  <2> HIDE DEF p2
  <2>5. Fades(p1, peer') /\ peer' \in Peers
    BY <2>1, <2>3, <2>4, OutputFades, FadesTrans DEF Fades
  <2>6. Once(got')
    <3>1. Once({g \in got : g[1] # m.id})
      BY Zenon, OnceForgets DEF VpInv
    <3> QED
      BY Zenon, <2>1, <3>1
  <2>7. Kept(peer', net', got')
    BY <1>1, <1>3, <2>1, <2>2, <2>5, KeptFades
  <2> QED
    BY <1>4, <1>5, <2>5, <2>6, <2>7 DEF VpInv, VpPeers
<1> QED
  BY <1>6, <1>7

(* The server opens a handshake.                                           *)
LEMMA InitiationStep ==
    VpInv /\ VP!TakesInitiation /\ UNCHANGED <<world, vpn, vpDue, vpUsed>> => VpInv'
<1> SUFFICES ASSUME VpInv, VP!TakesInitiation, UNCHANGED <<world, vpn, vpDue, vpUsed>> PROVE VpInv'
  OBVIOUS
<1>1. PICK m \in net : /\ m.type = "init" /\ m.from = "server"
                       /\ net' = (net \ {m}) \union {VP!Response(m.id)}
                       /\ peer' = [VP!StartsAsResponder(peer, m.id) EXCEPT !.ip = srv.addr]
                       /\ got' = {g \in got : g[1] # m.id}
  BY DEF VP!TakesInitiation, VP!FromServer, VP!Takes, VP!NewSession
<1>2. peer \in Peers /\ Kept(peer, net, got) /\ srv' = srv
  BY NoPeerIs DEF VP!TakesInitiation, VpInv, VpPeers
<1>3. m.id # 0 /\ m \in Messages /\ net \in SUBSET Messages /\ got \in SUBSET Payloads
      /\ srv.addr \in Addresses /\ m.id \in Ids
  BY <1>1 DEF VpInv, VpNets, Messages, Once, VpWorlds
<1> DEFINE x == VP!Response(m.id)
           p1 == VP!StartsAsResponder(peer, m.id)
<1>4. VpWorlds'
  BY <1>2 DEF VpInv, VpWorlds
<1>5. x \in Messages /\ x.from = "base"
  BY <1>3 DEF VP!Response, VP!Msg, Messages
<1>6. p1 \in Peers /\ Kept(p1, net \ {m}, got')
  BY <1>1, <1>2, <1>3, ResponderKept DEF FromServerInit
<1> HIDE DEF x, p1
<1>7. VpNets'
  BY <1>1, <1>3, <1>5, NetSwaps DEF VpInv, x
<1>8. Fades(p1, peer') /\ peer' \in Peers
  BY <1>1, <1>3, <1>6, MovedFades DEF p1, Fades
<1>9. Once(got')
  <2>1. Once({g \in got : g[1] # m.id})
    BY Zenon, OnceForgets DEF VpInv
  <2> QED
    BY Zenon, <1>1, <2>1
<1>10. \A o \in net' : FromServerInit(o) => o \in net \ {m}
  BY <1>1, <1>5 DEF FromServerInit, x
<1>11. Kept(peer', net', got')
  BY <1>1, <1>3, <1>6, <1>8, <1>10, KeptFades
<1> QED
  BY <1>4, <1>7, <1>8, <1>9, <1>11 DEF VpInv, VpPeers

(* A packet comes, under a key the peer has or not.                        *)
LEMMA DataStep == VpInv /\ VP!TakesData /\ UNCHANGED <<world, vpn, vpDue, vpUsed>> => VpInv'
<1> SUFFICES ASSUME VpInv, VP!TakesData, UNCHANGED <<world, vpn, vpDue, vpUsed>> PROVE VpInv'
  OBVIOUS
<1>1. PICK m \in net :
        /\ net' = net \ {m}
        /\ \/ UNCHANGED <<peer, got>>
           \/ \E name \in VP!KeyFor(peer, m.id) :
                \/ peer' = [peer EXCEPT ![name] = VP!NoKey] /\ UNCHANGED got
                \/ /\ peer' = [VP!Marked(VP!Confirmed(peer, name), name, m.n) EXCEPT
                                   !.ip = srv.addr,
                                   !.sendHandshake = @ \/ (name # "next" /\ VP!RekeyDue(peer[name]))]
                   /\ IF m.n > 0 /\ VP!Fits(peer[name], m.n)
                      THEN VP!Delivers(m, name = "next") ELSE UNCHANGED got
  BY DEF VP!TakesData, VP!FromServer, VP!Takes
<1>2. peer \in Peers /\ Kept(peer, net, got) /\ srv' = srv
  BY NoPeerIs DEF VP!TakesData, VpInv, VpPeers
<1>3. m \in Messages /\ net \in SUBSET Messages /\ got \in SUBSET Payloads
      /\ srv.addr \in Addresses /\ m.id \in Ids /\ m.n \in Nat
  BY <1>1 DEF VpInv, VpNets, Messages, Once, VpWorlds
<1>4. VpWorlds'
  BY <1>2 DEF VpInv, VpWorlds
<1>5. VpNets'
  BY <1>1, <1>3, NetSwaps DEF VpInv
<1>6. CASE UNCHANGED <<peer, got>>
  <2>1. Kept(peer, net', got)
    BY <1>1, <1>2, <1>3, FadesSelf, KeptFades
  <2> QED
    BY <1>2, <1>4, <1>5, <1>6, <2>1 DEF VpInv, VpPeers, Once
<1>7. ASSUME NEW name \in VP!KeyFor(peer, m.id), peer' = [peer EXCEPT ![name] = VP!NoKey],
             UNCHANGED got
      PROVE  VpInv'
  <2>1. name \in {"curr", "prev", "next"}
    BY DEF VP!KeyFor, VP!KeyNames
  <2>2. Fades(peer, peer') /\ peer' \in Peers
    BY <1>2, <1>7, <2>1, DropFades DEF Fades
  <2>3. Kept(peer', net', got)
    BY <1>1, <1>2, <1>3, <2>2, KeptFades
  <2> QED
    BY <1>4, <1>5, <1>7, <2>2, <2>3 DEF VpInv, VpPeers, Once
<1>8. ASSUME NEW name \in VP!KeyFor(peer, m.id),
             peer' = [VP!Marked(VP!Confirmed(peer, name), name, m.n) EXCEPT
                          !.ip = srv.addr,
                          !.sendHandshake = @ \/ (name # "next" /\ VP!RekeyDue(peer[name]))],
             IF m.n > 0 /\ VP!Fits(peer[name], m.n)
             THEN VP!Delivers(m, name = "next") ELSE UNCHANGED got
      PROVE  VpInv'
  <2> DEFINE p1 == VP!Marked(VP!Confirmed(peer, name), name, m.n)
  <2>1. /\ name \in {"curr", "prev", "next"} /\ peer[name].id # 0 /\ peer[name].id = m.id
        /\ m.id \in Indexes
    BY <1>3 DEF VP!KeyFor, VP!KeyNames, VP!Valid, Ids
  <2>2. /\ Once(got') /\ got \subseteq got' /\ got' \in SUBSET Payloads
        /\ \A g \in got' \ got :
             g[1] = m.id /\ g[2] = m.n /\ m.n > 0 /\ (name = "next" => g[4])
    <3>1. CASE UNCHANGED got
      BY <1>3, <3>1 DEF VpInv, Once
    <3>2. CASE m.n > 0 /\ VP!Fits(peer[name], m.n) /\ VP!Delivers(m, name = "next")
      <4> DEFINE first == name = "next"
                 c == Cardinality({g \in got : g[1] = m.id /\ g[2] = m.n})
                 e == <<m.id, m.n, 1 + c, first>>
      <4>1. got' = got \union {e}
        <5>1. VP!Copies(m) = c
          BY SizeIs DEF VP!Copies
        <5> QED
          BY <3>2, <5>1 DEF VP!Delivers
      <4>2. first => \A g \in got : g[1] # m.id
        BY <1>2, <2>1 DEF Kept, Unused
      <4>3. \A g \in got : g[1] = m.id /\ g[2] = m.n => g[4]
        <5>1. CASE name = "next"
          BY <4>2, <5>1
        <5>2. CASE name = "curr"
          BY <1>2, <2>1, <3>2, <5>2 DEF Kept, Seen
        <5>3. CASE name = "prev"
          BY <1>2, <2>1, <3>2, <5>3 DEF Kept, Seen
        <5> QED
          BY <2>1, <5>1, <5>2, <5>3
      <4>4. first \in BOOLEAN
        OBVIOUS
      <4>5. Once(got) /\ m.n \in Nat /\ m.id \in Indexes
        BY <1>3, <2>1 DEF VpInv
      <4>6. Once(got \union {e})
        <5> HIDE DEF first, c
        <5>1. c = Cardinality({g \in got : g[1] = m.id /\ g[2] = m.n})
          BY DEF c
        <5> QED
          BY <4>2, <4>3, <4>4, <4>5, <5>1, OnceDelivers
      <4>7. e[1] = m.id /\ e[2] = m.n /\ e[4] = first
        OBVIOUS
      <4> HIDE DEF e
      <4> QED
        BY <3>2, <4>1, <4>6, <4>7 DEF Once
    <3> QED
      BY <1>8, <3>1, <3>2
  <2>3. p1 \in Peers /\ Kept(p1, net, got')
    <3>1. CASE name = "next"
      <4>1. p1 = VP!Confirmed(peer, "next")
        BY <3>1 DEF VP!Marked
      <4> QED
        BY <1>2, <1>3, <2>1, <2>2, <3>1, <4>1, ConfirmedKept
    <3>2. CASE name \in {"curr", "prev"}
      BY <1>2, <1>3, <2>1, <2>2, <3>2, ReceivedKept
    <3> QED
      BY <2>1, <3>1, <3>2
  <2> HIDE DEF p1
  <2> DEFINE b == p1.sendHandshake \/ (name # "next" /\ VP!RekeyDue(peer[name]))
             a == srv.addr
  <2>4. b \in BOOLEAN /\ a \in Addresses
    BY <1>3
  <2>5. peer' = [p1 EXCEPT !.ip = a, !.sendHandshake = b]
    BY <1>8 DEF p1
  <2> HIDE DEF a, b
  <2>6. /\ peer' \in Peers /\ peer'.curr = p1.curr /\ peer'.prev = p1.prev /\ peer'.next = p1.next
        /\ peer'.hs = p1.hs
    BY <2>3, <2>4, <2>5 DEF Peers
  <2>7. Fades(p1, peer')
    BY <2>3, <2>6 DEF Fades, Fading, Peers
  <2>8. Kept(peer', net', got')
    BY <1>1, <1>3, <2>2, <2>3, <2>7, KeptFades
  <2> QED
    BY <1>4, <1>5, <2>2, <2>6, <2>8 DEF VpInv, VpPeers
<1> QED
  BY <1>1, <1>6, <1>7, <1>8

(* The peer hears nothing; no initiation of the server is new.             *)
LEMMA PeerStays ==
    ASSUME VpInv, UNCHANGED <<peer, got>>, VpWorlds', VpNets',
           \A o \in net' : FromServerInit(o) => o \in net
    PROVE  VpInv'
<1>1. CASE peer = VP!NoPeer
  BY <1>1 DEF VpInv, VpPeers, Once
<1>2. CASE peer \in Peers /\ Kept(peer, net, got)
  <2>1. Kept(peer, net', got)
    BY <1>2, FadesSelf, KeptFades DEF VpInv, VpNets, Once
  <2> QED
    BY <1>2, <2>1 DEF VpInv, VpPeers, Once
<1> QED
  BY <1>1, <1>2 DEF VpInv, VpPeers

(* A message goes and nothing comes.                                       *)
LEMMA MessageGoes ==
    ASSUME VpInv, NEW m \in net, net' = net \ {m}, UNCHANGED <<peer, srv, got, world, vpn, vpDue>>,
           vpUsed' \in 0 .. VpMaxFaults
    PROVE  VpInv'
<1>1. VpWorlds'
  BY DEF VpInv, VpWorlds
<1>2. m \in Messages
  BY DEF VpInv, VpNets
<1>3. VpNets'
  BY <1>2, NetSwaps DEF VpInv
<1> QED
  BY <1>1, <1>3, PeerStays

(* The server answers, or begins to send under its new key.                *)
LEMMA ServerTakesStep ==
    VpInv /\ VP!ServerTakes /\ UNCHANGED <<world, vpn, vpDue, vpUsed>> => VpInv'
<1> SUFFICES ASSUME VpInv, VP!ServerTakes, UNCHANGED <<world, vpn, vpDue, vpUsed>> PROVE VpInv'
  OBVIOUS
<1> DEFINE Answered(m) == {x \in net : ~(x.type = "init" /\ x.from = "base")}
           R(m) == VP!Msg("resp", "server", m.id, 0)
           D(m) == VP!Msg("data", "server", m.id, 0)
<1>1. PICK m \in net :
        /\ m.from = "base"
        /\ \/ /\ m.type = "init" /\ srv' = [srv EXCEPT !.old = srv.cur, !.cur = m.id, !.sent = 0]
              /\ net' = Answered(m) \union {R(m)}
           \/ /\ m.type = "resp" /\ srv' = [srv EXCEPT !.old = srv.cur, !.cur = m.id, !.sent = 0]
              /\ net' = (net \ {m}) \union {D(m)}
           \/ net' = net \ {m} /\ UNCHANGED srv
  BY DEF VP!ServerTakes, VP!Takes
<1>2. UNCHANGED <<peer, got>>
  BY DEF VP!ServerTakes
<1>3. m \in Messages /\ m.id \in Ids
  BY DEF VpInv, VpNets, Messages
<1>4. CASE net' = net \ {m} /\ UNCHANGED srv
  BY <1>2, <1>4, MessageGoes DEF VpInv, VpWorlds
<1> DEFINE Answers(x, T) ==
             /\ srv' = [srv EXCEPT !.old = srv.cur, !.cur = m.id, !.sent = 0]
             /\ net' = T \union {x}
<1>5. ASSUME NEW x \in Messages, x.type # "init", NEW T \in SUBSET (net \ {m}), Answers(x, T)
      PROVE  VpInv'
  <2> DEFINE i == m.id
             c == srv.cur
             z == 0
             Servers == [addr : Addresses, alive : BOOLEAN, cur : Ids, old : Ids, sent : Nat,
                         total : Nat]
  <2>1. srv \in Servers /\ c \in Ids /\ i \in Ids /\ z \in Nat
    BY <1>3 DEF VpInv, VpWorlds
  <2>2. srv' = [srv EXCEPT !.old = c, !.cur = i, !.sent = z]
    BY <1>5
  <2> HIDE DEF i, c, z
  <2>3. srv' \in Servers
    BY <2>1, <2>2
  <2>4. VpWorlds'
    BY <2>3 DEF VpInv, VpWorlds
  <2>5. VpNets'
    BY <1>5, NetSwaps DEF VpInv
  <2>6. \A o \in net' : FromServerInit(o) => o \in net
    BY <1>5 DEF FromServerInit
  <2> QED
    BY <1>2, <2>4, <2>5, <2>6, PeerStays
<1>6. CASE m.type = "init" /\ Answers(R(m), Answered(m))
  <2>1. R(m) \in Messages /\ R(m).type # "init"
    BY <1>3, <1>6 DEF VP!Msg, Messages
  <2>2. Answered(m) \in SUBSET (net \ {m})
    BY <1>1, <1>6
  <2> HIDE DEF Answers, R, Answered
  <2> QED
    BY <1>5, <1>6, <2>1, <2>2
<1>7. CASE m.type = "resp" /\ Answers(D(m), net \ {m})
  <2>1. D(m) \in Messages /\ D(m).type # "init"
    BY <1>3, <1>7 DEF VP!Msg, Messages
  <2> HIDE DEF Answers, D
  <2> QED
    BY <1>5, <1>7, <2>1
<1> QED
  BY <1>1, <1>4, <1>6, <1>7

(* The server sends a packet.                                              *)
LEMMA ServerSendsStep ==
    VpInv /\ VP!ServerSends /\ UNCHANGED <<world, vpn, vpDue, vpUsed>> => VpInv'
<1> SUFFICES ASSUME VpInv, VP!ServerSends, UNCHANGED <<world, vpn, vpDue, vpUsed>> PROVE VpInv'
  OBVIOUS
<1> DEFINE x == VP!Msg("data", "server", srv.cur, srv.sent + 1)
<1>1. /\ VP!InFlight({x}) /\ net' = net \union {x} /\ UNCHANGED <<peer, got>>
      /\ srv' = [srv EXCEPT !.sent = srv.sent + 1, !.total = srv.total + 1]
  BY DEF VP!ServerSends
<1>2. srv \in [addr : Addresses, alive : BOOLEAN, cur : Ids, old : Ids, sent : Nat, total : Nat]
  BY DEF VpInv, VpWorlds
<1>3. x \in Messages /\ x.type # "init"
  BY <1>2 DEF VP!Msg, Messages
<1> HIDE DEF x
<1>4. VpWorlds'
  <2> DEFINE s == srv.sent + 1
             t == srv.total + 1
  <2>1. s \in Nat /\ t \in Nat
    BY <1>2
  <2>2. srv' = [srv EXCEPT !.sent = s, !.total = t]
    BY <1>1
  <2> HIDE DEF s, t
  <2>3. srv' \in [addr : Addresses, alive : BOOLEAN, cur : Ids, old : Ids, sent : Nat, total : Nat]
    BY <1>2, <2>1, <2>2
  <2> QED
    BY <1>1, <2>3 DEF VpInv, VpWorlds
<1>5. VpNets'
  BY <1>1, <1>3, NetGrows DEF VpInv
<1>6. \A o \in net' : FromServerInit(o) => o \in net
  BY <1>1, <1>3 DEF FromServerInit
<1> QED
  BY <1>1, <1>4, <1>5, <1>6, PeerStays

(* The server opens a handshake under an index nobody uses.                *)
LEMMA ServerInitiatesStep ==
    VpInv /\ VP!ServerInitiates /\ UNCHANGED <<world, vpn, vpDue, vpUsed>> => VpInv'
<1> SUFFICES ASSUME VpInv, VP!ServerInitiates, UNCHANGED <<world, vpn, vpDue, vpUsed>> PROVE VpInv'
  OBVIOUS
<1> DEFINE id == VP!UniqueIndex
           x == VP!Msg("init", "server", id, 1)
<1>1. /\ VP!InFlight({x}) /\ net' = net \union {x} /\ UNCHANGED <<peer, got>>
      /\ srv' = [srv EXCEPT !.total = srv.total + 1] /\ VP!FreeIndexes # {}
  BY DEF VP!ServerInitiates
<1>2. id \in Indexes /\ (peer.exists => ApartFrom(peer, id))
  BY <1>1, FreeIs
<1> HIDE DEF id
<1>3. x \in Messages /\ x.id = id
  <2>1. id \in Ids /\ id # 0
    BY <1>2, Zero DEF Ids
  <2>2. x = [type |-> "init", from |-> "server", id |-> id, n |-> 1]
    BY DEF VP!Msg
  <2>3. x.type = "init" /\ x.id = id /\ x.n = 1
    BY <2>2
  <2> DEFINE one == 1
  <2>4. x = [type |-> "init", from |-> "server", id |-> id, n |-> one] /\ one \in Nat
    BY <2>2
  <2> HIDE DEF one, x
  <2>5. x \in [type : {"init", "resp", "data"}, from : {"base", "server"}, id : Ids, n : Nat]
    BY <2>1, <2>4
  <2> QED
    BY <2>1, <2>3, <2>5 DEF Messages
<1>4. VpWorlds'
  <2>1. srv \in [addr : Addresses, alive : BOOLEAN, cur : Ids, old : Ids, sent : Nat, total : Nat]
    BY DEF VpInv, VpWorlds
  <2> QED
    BY <1>1, <2>1 DEF VpInv, VpWorlds
<1> HIDE DEF x
<1>5. VpNets'
  BY <1>1, <1>3, NetGrows DEF VpInv
<1>6. CASE peer = VP!NoPeer
  BY <1>1, <1>4, <1>5, <1>6 DEF VpInv, VpPeers, Once
<1>7. CASE peer \in Peers /\ Kept(peer, net, got)
  <2>1. Kept(peer, net', got)
    BY <1>1, <1>2, <1>3, <1>7, NoPeerIs DEF Kept
  <2> QED
    BY <1>1, <1>4, <1>5, <1>7, <2>1 DEF VpInv, VpPeers, Once
<1> QED
  BY <1>6, <1>7 DEF VpInv, VpPeers

(* A packet of the server comes again.                                     *)
LEMMA RepeatedStep ==
    ASSUME VpInv, VP!Repeated, UNCHANGED <<world, vpn, vpDue>>, vpUsed' \in 0 .. VpMaxFaults
    PROVE  VpInv'
<1>1. srv \in [addr : Addresses, alive : BOOLEAN, cur : Ids, old : Ids, sent : Nat, total : Nat]
  BY DEF VpInv, VpWorlds
<1>2. PICK n \in 1 .. srv.sent :
        LET x == VP!Msg("data", "server", srv.cur, n)
        IN VP!InFlight({x}) /\ net' = net \union {x} /\ UNCHANGED <<peer, srv, got>>
  BY DEF VP!Repeated
<1> DEFINE x == VP!Msg("data", "server", srv.cur, n)
<1>3. x \in Messages /\ x.type # "init"
  BY <1>1 DEF VP!Msg, Messages
<1>4. VP!InFlight({x}) /\ net' = net \union {x} /\ UNCHANGED <<peer, srv, got>>
  BY <1>2
<1> HIDE DEF x
<1>5. VpWorlds'
  BY <1>4 DEF VpInv, VpWorlds
<1>6. VpNets'
  BY <1>3, <1>4, NetGrows DEF VpInv
<1>7. \A o \in net' : FromServerInit(o) => o \in net
  BY <1>3, <1>4 DEF FromServerInit
<1> QED
  BY <1>4, <1>5, <1>6, <1>7, PeerStays

(* The world around: a fault is counted.                                   *)
LEMMA FaultIs == VpInv /\ VP!Fault => vpUsed' \in 0 .. VpMaxFaults
BY IndexAssumption DEF VpInv, VpWorlds, VP!Fault

(* Settings, network, clock and server change.                             *)
LEMMA WorldStep ==
    ASSUME VpInv, VP!ClockSet \/ VP!WorldChanges \/ VP!ServerRestarts PROVE VpInv'
<1> DEFINE Servers == [addr : Addresses, alive : BOOLEAN, cur : Ids, old : Ids, sent : Nat,
                       total : Nat]
           Worlds == [on : BOOLEAN, net : Networks, clock : BOOLEAN, dns : Addresses]
<1>1. srv \in Servers /\ world \in Worlds /\ vpUsed \in 0 .. VpMaxFaults
  BY DEF VpInv, VpWorlds
<1>2. UNCHANGED <<peer, net, got, vpn, vpDue>>
  BY DEF VP!ClockSet, VP!WorldChanges, VP!ServerRestarts
<1>3. srv' \in Servers /\ world' \in Worlds /\ vpUsed' \in 0 .. VpMaxFaults
  <2>1. CASE VP!ClockSet
    BY <1>1, <2>1 DEF VP!ClockSet
  <2>2. CASE VP!WorldChanges
    <3>1. vpUsed' \in 0 .. VpMaxFaults
      BY <2>2, FaultIs DEF VP!WorldChanges
    <3>2. UNCHANGED srv
      BY <2>2 DEF VP!WorldChanges
    <3>3. world' \in Worlds
      BY <1>1, <2>2 DEF VP!WorldChanges, Networks
    <3> QED
      BY <1>1, <3>1, <3>2, <3>3
  <2>3. CASE VP!ServerRestarts
    <3>1. vpUsed' \in 0 .. VpMaxFaults
      BY <2>3, FaultIs DEF VP!ServerRestarts
    <3>2. PICK a \in Addresses :
            /\ srv' = [srv EXCEPT !.cur = 0, !.old = 0, !.sent = 0, !.addr = a]
            /\ world' = [world EXCEPT !.dns = a]
      BY <2>3 DEF VP!ServerRestarts
    <3>3. world' \in Worlds
      BY <1>1, <3>2
    <3>4. srv' \in Servers
      <4> DEFINE z == 0
                 w == 0
      <4>1. srv' = [srv EXCEPT !.cur = z, !.old = z, !.sent = w, !.addr = a]
        BY <3>2
      <4>2. z \in Ids /\ w \in Nat
        BY Zero
      <4> HIDE DEF z, w
      <4> QED
        BY <1>1, <4>1, <4>2
    <3> QED
      BY <3>1, <3>3, <3>4
  <2> QED
    BY <2>1, <2>2, <2>3
<1>4. VpWorlds'
  BY <1>2, <1>3 DEF VpInv, VpWorlds
<1>5. VpNets'
  BY <1>2 DEF VpInv, VpNets
<1> QED
  BY <1>2, <1>4, <1>5, PeerStays

(* A restart of the base leaves the messages in flight.                    *)
LEMMA BaseRestartsStep == VpInv /\ VP!BaseRestarts => VpInv'
<1> SUFFICES ASSUME VpInv, VP!BaseRestarts PROVE VpInv'
  OBVIOUS
<1>1. /\ world' = [world EXCEPT !.clock = FALSE] /\ peer' = VP!NoPeer /\ vpn' = VP!Down
      /\ UNCHANGED <<srv, net, got, vpDue>>
  BY DEF VP!BaseRestarts
<1>2. vpUsed' \in 0 .. VpMaxFaults
  BY FaultIs DEF VP!BaseRestarts
<1>3. vpn' \in [started : BOOLEAN, up : BOOLEAN, net : Networks, down : 0 .. DownMinutes + 1]
  <2>1. 0 \in 0 .. DownMinutes + 1
    BY MinutesAssumption
  <2> QED
    BY <1>1, <2>1 DEF VP!Down, Networks
<1>4. world' \in [on : BOOLEAN, net : Networks, clock : BOOLEAN, dns : Addresses]
  BY <1>1 DEF VpInv, VpWorlds
<1>5. VpWorlds'
  BY <1>1, <1>2, <1>3, <1>4 DEF VpInv, VpWorlds
<1> QED
  BY <1>1, <1>5 DEF VpInv, VpNets, VpPeers, Once

(* Every step of the VPN.                                                  *)
LEMMA VpStep == VpInv /\ [VP!VpNext]_vp => VpInv'
<1> SUFFICES ASSUME VpInv, [VP!VpNext]_vp PROVE VpInv'
  OBVIOUS
<1>1. vpUsed \in 0 .. VpMaxFaults
  BY DEF VpInv, VpWorlds
<1>2. CASE VP!WireGuardStep
  <2>1. UNCHANGED <<world, vpn, vpDue, vpUsed>>
    BY <1>2 DEF VP!WireGuardStep
  <2>2. CASE VP!Unheard
    <3>1. PICK m \in net : net' = net \ {m}
      BY <2>2 DEF VP!Unheard, VP!Takes
    <3>2. UNCHANGED <<peer, srv, got>>
      BY <2>2 DEF VP!Unheard
    <3> QED
      BY <1>1, <2>1, <3>1, <3>2, MessageGoes
  <2> QED
    BY <1>2, <2>1, <2>2, ResponseStep, InitiationStep, DataStep, ServerTakesStep
    DEF VP!WireGuardStep
<1>3. CASE VP!ServerActs
  BY <1>3, ServerSendsStep, ServerInitiatesStep DEF VP!ServerActs
<1>4. CASE VP!NetFails
  <2>1. vpUsed' \in 0 .. VpMaxFaults /\ UNCHANGED <<world, vpn, vpDue>>
    BY <1>4, FaultIs DEF VP!NetFails
  <2>2. CASE VP!Lost
    <3>1. PICK m \in net : net' = net \ {m} /\ UNCHANGED <<peer, srv, got>>
      BY <2>2 DEF VP!Lost, VP!Takes
    <3> QED
      BY <2>1, <3>1, MessageGoes
  <2> QED
    BY <1>4, <2>1, <2>2, RepeatedStep DEF VP!NetFails
<1>5. CASE UNCHANGED vp
  BY <1>5 DEF vp, VpInv, VpWorlds, VpNets, VpPeers, Once
<1> QED
  BY <1>2, <1>3, <1>4, <1>5, TickStep, TimerStep, MinuteStep, WorldStep, BaseRestartsStep
  DEF VP!VpNext

(* What the invariant says of types and deliveries.                        *)
LEMMA VpHolds == VpInv => VP!VpTypeOK /\ VP!DeliveredOnce
<1> SUFFICES ASSUME VpInv PROVE VP!VpTypeOK /\ VP!DeliveredOnce
  OBVIOUS
<1>1. VP!Cardinality(net) <= MaxFlight + 2
  <2>1. Cardinality(net) \in Nat /\ Cardinality(net) <= MaxFlight + 1
    BY FS_CardinalityType DEF VpInv, VpNets
  <2> QED
    BY <2>1, SizeIs, IndexAssumption
<1>2. srv.addr \in Addresses /\ world.dns \in Addresses /\ vpn.down \in 0 .. (DownMinutes + 1)
  BY DEF VpInv, VpWorlds
<1>3. VP!VpTypeOK
  BY <1>1, <1>2 DEF VP!VpTypeOK, VpInv, VpWorlds
<1>4. VP!DeliveredOnce
  BY DEF VP!DeliveredOnce, VpInv, Once
<1> QED
  BY <1>3, <1>4

(* DeliveredOnce: whatever is lost, repeated or comes late, and however    *)
(* often base, server and network change, lwIP is given a payload once,    *)
(* but for the one whose packet confirmed a key of the responder, which it *)
(* may be given twice; for every window, every age of the keys and every   *)
(* number of messages in flight (wireguardif.c:311, 325-327,               *)
(* wireguard.c:321-366).                                                   *)
THEOREM DeliveredOnceHolds == RemoteSpec => []DeliveredOnce
<1>1. RemoteInit => VpInv
  BY VpInitInv DEF RemoteInit
<1>2. VpInv /\ [RemoteNext]_remoteVars => VpInv'
  <2> SUFFICES ASSUME VpInv, [RemoteNext]_remoteVars PROVE VpInv'
    OBVIOUS
  <2>1. [VP!VpNext]_vp
    <3>1. CASE UNCHANGED remoteVars
      BY <3>1 DEF remoteVars
    <3>2. CASE RemoteNext
      BY Zenon, <3>2 DEF RemoteNext
    <3> QED
      BY <3>1, <3>2
  <2> QED
    BY <2>1, VpStep
<1>3. VpInv => DeliveredOnce
  BY VpHolds DEF DeliveredOnce
<1> QED
  BY <1>1, <1>2, <1>3, PTL DEF RemoteSpec

-----------------------------------------------------------------------------
(* The start of the modem, however many answers the line eats and however  *)
(* often the modem fails later: the boot leaves the modem on.              *)

Modems == {"off", "stopping", "starting", "at", "cmux", "busy", "data", "hung"}

MoTypes ==
    /\ kind \in MO!Kinds /\ reset \in BOOLEAN /\ alone \in BOOLEAN
    /\ modem \in Modems /\ lost \in Nat /\ hangs \in Nat

(* The boots MO!LeftOn is about.                                           *)
Watched == alone /\ hangs = 0 /\ ~(kind = "sim868" /\ lost > 0)

(* How far the start is and what the modem can be by then; the SIM868,     *)
(* whose one pulse is not verified, is off when it gets it.                *)
StartInv ==
    Watched =>
    /\ modem # "hung"
    /\ pc \in {"probe", "mux", "close", "escape", "patience", "pulse", "verify", "again",
               "settle", "done"}
    /\ pc = "verify" => modem \in {"starting", "stopping", "at"}
    /\ pc = "again" => modem = "off"
    /\ pc = "settle" => modem \in MO!On \cup {"starting"}
    /\ pc = "done" => modem \in MO!On
    /\ kind = "sim868" =>
         /\ pc # "verify" /\ pc # "again"
         /\ pc = "escape" => modem \notin {"cmux", "busy", "stopping"}
         /\ pc = "patience" => modem \in {"starting", "at", "off"}
         /\ pc = "pulse" => modem = "off"
         /\ pc \in {"probe", "mux"} => modem # "stopping"
         /\ reset /\ pc \in {"probe", "mux", "close", "escape"} => modem = "off"

MoInv == MoTypes /\ StartInv

(* At the boot.                                                            *)
LEMMA MoInitInv == MO!MoInit => MoInv
BY DEF MO!MoInit, MoInv, MoTypes, StartInv, Watched, MO!Kinds, MO!AtReset, MO!On, Modems

(* Every step keeps to the types...                                        *)
LEMMA MoTypesStep == MoInv /\ [MO!MoNext]_mo => MoTypes'
<1> SUFFICES ASSUME MoInv, [MO!MoNext]_mo PROVE MoTypes'
  OBVIOUS
<1> USE DEF MoInv, MoTypes, MO!fixed, Modems
<1>1. CASE MO!ProbesAt \/ MO!OpensMux \/ MO!ClosesMux \/ MO!Escapes \/ MO!Waits
  BY <1>1 DEF MO!ProbesAt, MO!OpensMux, MO!ClosesMux, MO!Escapes, MO!Waits, MO!Check, MO!Eaten
<1>2. CASE MO!Pulses \/ MO!Verifies \/ MO!PulsesAgain \/ MO!Settles \/ MO!Recovers
           \/ MO!LongPulse \/ MO!Looks \/ MO!PulsesBlind \/ MO!Starts
  BY <1>2 DEF MO!Pulses, MO!Verifies, MO!PulsesAgain, MO!Settles, MO!Recovers, MO!LongPulse,
              MO!Looks, MO!PulsesBlind, MO!Starts, MO!Toggled, MO!Settled, MO!Off, MO!Check,
              MO!Eaten
<1>3. CASE MO!Fails \/ UNCHANGED mo
  BY <1>3 DEF MO!Fails, mo
<1> QED
  BY <1>1, <1>2, <1>3 DEF MO!MoNext, MO!MoCode

(* ... and takes the start of a boot that is watched one stage further.    *)
LEMMA MoStep == MoInv /\ [MO!MoNext]_mo => MoInv'
<1> SUFFICES ASSUME MoInv, [MO!MoNext]_mo, Watched' PROVE StartInv'
  BY MoTypesStep DEF MoInv, StartInv
<1>0. Watched \/ MO!Fails
  <2>1. CASE MO!ProbesAt \/ MO!OpensMux \/ MO!ClosesMux \/ MO!Escapes \/ MO!Waits
    <3>1. UNCHANGED MO!fixed /\ (UNCHANGED lost \/ lost' = lost + 1)
      BY <2>1 DEF MO!ProbesAt, MO!OpensMux, MO!ClosesMux, MO!Escapes, MO!Waits, MO!fixed,
                  MO!Check, MO!Eaten
    <3> QED
      BY <3>1 DEF MO!fixed, Watched, MoInv, MoTypes
  <2>2. CASE MO!Pulses \/ MO!Verifies \/ MO!PulsesAgain \/ MO!Settles \/ MO!Recovers
           \/ MO!LongPulse \/ MO!Looks \/ MO!PulsesBlind \/ MO!Starts
    <3>1. UNCHANGED MO!fixed /\ (UNCHANGED lost \/ lost' = lost + 1)
      BY <2>2 DEF MO!Pulses, MO!Verifies, MO!PulsesAgain, MO!Settles, MO!Recovers,
                  MO!LongPulse, MO!Looks, MO!PulsesBlind, MO!Starts, MO!fixed, MO!Check,
                  MO!Eaten
    <3> QED
      BY <3>1 DEF MO!fixed, Watched, MoInv, MoTypes
  <2>3. CASE UNCHANGED mo
    BY <2>3 DEF mo, Watched
  <2> QED
    BY <2>1, <2>2, <2>3 DEF MO!MoNext, MO!MoCode
<1> USE DEF MoInv, MoTypes, StartInv, MO!fixed, MO!On, Modems
<1>1. CASE MO!ProbesAt
  BY <1>0, <1>1 DEF MO!ProbesAt, MO!Check, MO!Eaten, Watched, MO!Fails
<1>2. CASE MO!OpensMux
  <2>1. UNCHANGED modem /\ UNCHANGED <<kind, reset, alone, hangs>> /\ pc = "mux"
    BY <1>2 DEF MO!OpensMux
  <2>2. \/ pc' = "close"
        \/ pc' = "escape" /\ modem \notin {"cmux", "busy"}
        \/ pc' = "escape" /\ lost' = lost + 1
    BY <1>2 DEF MO!OpensMux, MO!Check, MO!Eaten
  <2>3. Watched
    BY <1>0, <2>1, <2>2 DEF MO!Fails
  <2> QED
    BY <2>1, <2>2, <2>3 DEF Watched
<1>12. CASE MO!ClosesMux
  BY <1>0, <1>12 DEF MO!ClosesMux, Watched, MO!Fails
<1>3. CASE MO!Escapes
  BY <1>0, <1>3 DEF MO!Escapes, MO!Check, MO!Eaten, Watched, MO!Fails
<1>4. CASE MO!Waits
  BY <1>0, <1>4 DEF MO!Waits, MO!Check, MO!Eaten, Watched, MO!Fails
<1>5. CASE MO!Pulses
  BY <1>0, <1>5 DEF MO!Pulses, MO!Toggled, MO!Off, Watched, MO!Fails
<1>6. CASE MO!Verifies
  BY <1>0, <1>6 DEF MO!Verifies, MO!Settled, MO!Alive, Watched, MO!Fails
<1>7. CASE MO!PulsesAgain \/ MO!Settles
  BY <1>0, <1>7 DEF MO!PulsesAgain, MO!Settles, MO!Toggled, MO!Settled, MO!Off, Watched,
                    MO!Fails
<1>8. CASE MO!Recovers \/ MO!LongPulse \/ MO!Looks \/ MO!PulsesBlind
  BY <1>0, <1>8 DEF MO!Recovers, MO!LongPulse, MO!Looks, MO!PulsesBlind, Watched, MO!Fails
<1>9. CASE MO!Starts
  BY <1>0, <1>9 DEF MO!Starts, Watched, MO!Fails
<1>10. CASE MO!Fails
  BY <1>10 DEF MO!Fails, Watched
<1>11. CASE UNCHANGED mo
  BY <1>11 DEF mo, Watched
<1> QED
  BY <1>1, <1>2, <1>3, <1>4, <1>5, <1>6, <1>7, <1>8, <1>9, <1>10, <1>11, <1>12
  DEF MO!MoNext, MO!MoCode

(* The boot leaves the modem on, whatever the modem was doing and whatever *)
(* was lost on the line (modem_power_on of main/cellular_link.c).          *)
THEOREM LeftOnHolds == RemoteSpec => []MO!LeftOn
<1>1. RemoteInit => MoInv
  BY MoInitInv DEF RemoteInit
<1>2. MoInv /\ [RemoteNext]_remoteVars => MoInv'
  <2> SUFFICES ASSUME MoInv, [RemoteNext]_remoteVars PROVE MoInv'
    OBVIOUS
  <2>1. [MO!MoNext]_mo
    <3>1. CASE UNCHANGED remoteVars
      BY <3>1 DEF remoteVars
    <3>2. CASE RemoteNext
      BY Zenon, <3>2 DEF RemoteNext
    <3> QED
      BY <3>1, <3>2
  <2> QED
    BY <2>1, MoStep
<1>3. MoInv => MO!LeftOn
  BY DEF MoInv, MoTypes, StartInv, MO!LeftOn, Watched
<1> QED
  BY <1>1, <1>2, <1>3, PTL DEF RemoteSpec
============================================================================
