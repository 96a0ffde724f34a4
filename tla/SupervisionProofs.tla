-------------------------- MODULE SupervisionProofs --------------------------
(***************************************************************************)
(* Proofs about Supervision, for every set of tasks that beat, every limit *)
(* and every number and kind of mishap: what a boot tells of the one       *)
(* before it is true, and no safety restart repeats unless what it         *)
(* restarts for has worked, or, for a receiver that was never heard, the   *)
(* power came back in between.                                             *)
(***************************************************************************)
EXTENDS Supervision, SequenceTheorems, TLAPS

USE MishapsAssumption, LimitsAssumption, RolesAssumption

Notes == Causes \union {"none", "user", "stuck"}
Ages  == [up : Never .. Silent + 1, rtcm : Never .. Silent + 1,
          down : Never .. CasterDown + 1, noNet : Never .. NoNet + 1]

RtcType == [stage : 0 .. Done, note : Notes, fault : BOOLEAN, count : 0 .. 1]

(* The shape of what SvTypeOK says the fields of.                          *)
SvShape ==
    /\ rtc \in RtcType
    /\ hb \in [Beaters -> Int] /\ stuck \subseteq Beaters
    /\ age \in Ages
    /\ leaving \in [mon : Causes \union {"no", "stuck"}, user : {"no", "flushing", "going"}]
    /\ ended \in [at : Start .. Done, power : BOOLEAN, meant : BOOLEAN]
    /\ earned \subseteq Causes \union {"power"}

SvTypes == SvTypeOK /\ SvShape

(* The memories of the stage while a boot goes on: both are at the step in *)
(* progress, NVS at the last one written to it.  A restart on purpose      *)
(* breaks this, and is not to be told.                                     *)
StageInv ==
    leaving.user = "no" =>
        /\ stage >= Start => rtc.stage = stage
        /\ stage >= Nvs => nvsStage \in Nvs .. stage
        /\ stage = Done => nvsStage = Done
        /\ stage < Done /\ stage >= Nvs => nvsStage < Done

(* What the two memories, and then the program, know of the last boot.     *)
LeftBehind ==
    /\ ended.at = Done => nvsStage \in {0, Done} /\ rtc.stage \in {0, Done}
    /\ ended.at < Done /\ ~ended.power => rtc.stage = ended.at
    /\ ended.at < Done /\ ended.power =>
            rtc.stage = 0 /\ (ended.at >= Nvs => nvsStage \in Nvs .. ended.at)

KnownEarly ==
    /\ ended.at = Done => told = 0 /\ nvsStage \in {0, Done}
    /\ ended.at < Done /\ ~ended.power => told = ended.at
    /\ ended.at < Done /\ ended.power =>
            told = 0 /\ (ended.at >= Nvs => nvsStage \in Nvs .. ended.at)

TraceInv ==
    /\ StageInv
    /\ leaving.user # "no" => stage >= Oled
    /\ ~ended.meant =>
         /\ stage = Off => LeftBehind
         /\ stage = Start => KnownEarly
         /\ BootTold

(* The restart for a receiver that was never heard, and what it needs.     *)
MayRestart == "never" \in earned \/ "power" \in earned

(* Each cause is earned again by what its clock starts from.               *)
EarnedInv ==
    /\ RestartsEarned
    /\ rtc.count = 0 => MayRestart
    /\ leaving.mon = "never" => rtc.count = 1
    /\ counted => "caster" \in earned
    /\ netSeen \/ age.noNet # Never => "nonet" \in earned
    /\ age.rtcm # Never => {"silent", "never"} \subseteq earned

SvInv == SvTypes /\ TraceInv /\ EarnedInv

---------------------------------------------------------------------------
(* The operators of safety_restart_check.                                  *)

(* An age stays in its range, and one that never began does not begin.     *)
LEMMA OlderRange ==
    ASSUME NEW L \in Nat, NEW a \in Never .. L + 1
    PROVE  Older(a, L) \in Never .. L + 1 /\ (Older(a, L) = Never <=> a = Never)
BY DEF Older, Never

(* The first of two lists, one after the other.                            *)
LEMMA HeadOfTwo ==
    ASSUME NEW S, NEW u \in Seq(S), NEW v \in Seq(S)
    PROVE  /\ u \o v \in Seq(S)
           /\ u # <<>> => u \o v # <<>> /\ Head(u \o v) = Head(u)
           /\ u = <<>> => u \o v = v
<1>1. CASE u = <<>>
    BY <1>1, ConcatEmptySeq
<1>2. CASE u # <<>>
  <2>1. /\ u \o v \in Seq(S) /\ Len(u \o v) = Len(u) + Len(v)
        /\ \A i \in 1 .. Len(u) + Len(v) :
                (u \o v)[i] = IF i <= Len(u) THEN u[i] ELSE v[i - Len(u)]
    BY ConcatProperties
  <2>2. Len(u) \in Nat \ {0} /\ Len(v) \in Nat
    BY <1>2, EmptySeq, LenProperties
  <2>3. (u \o v)[1] = u[1]
    BY <2>1, <2>2
  <2>4. u \o v # <<>>
    BY <2>1, <2>2, EmptySeq
  <2> QED
    BY <1>2, <2>1, <2>3, <2>4
<1> QED
    BY <1>1, <1>2

(* The reason of a restart is the first that is due, and it is due.        *)
LEMMA CauseIsDue ==
    ASSUME NEW a, NEW late
    PROVE  /\ Cause(a, late) \in Causes \union {"no", "stuck"}
           /\ Cause(a, late) = "silent" => a.rtcm > Silent
           /\ Cause(a, late) = "never" => role = "base" /\ a.rtcm = Never /\ rtc.count < 1
           /\ Cause(a, late) = "caster" => counted
           /\ Cause(a, late) = "nonet" => a.noNet > NoNet
<1> DEFINE u == IF a.rtcm > Silent THEN <<"silent">> ELSE <<>>
           v == IF role = "base" /\ a.rtcm = Never /\ a.up > Silent /\ rtc.count < 1
                THEN <<"never">> ELSE <<>>
           w == IF role = "base" /\ net /\ counted /\ sess' = "none" /\ a.down > CasterDown
                THEN <<"caster">> ELSE <<>>
           x == IF role = "base" /\ a.noNet > NoNet THEN <<"nonet">> ELSE <<>>
<1>1. /\ u \in Seq(Causes) /\ (u # <<>> => Head(u) = "silent" /\ a.rtcm > Silent)
      /\ v \in Seq(Causes) /\ (v # <<>> => Head(v) = "never" /\ role = "base"
                                           /\ a.rtcm = Never /\ rtc.count < 1)
      /\ w \in Seq(Causes) /\ (w # <<>> => Head(w) = "caster" /\ counted)
      /\ x \in Seq(Causes) /\ (x # <<>> => Head(x) = "nonet" /\ a.noNet > NoNet)
  <2>1. \A y \in Causes : <<y>> \in Seq(Causes) /\ Head(<<y>>) = y /\ <<>> \in Seq(Causes)
    OBVIOUS
  <2>2. {"silent", "never", "caster", "nonet"} = Causes
    BY DEF Causes
  <2>3. u \in Seq(Causes) /\ (u # <<>> => Head(u) = "silent" /\ a.rtcm > Silent)
    BY <2>1, <2>2, Zenon
  <2>4. v \in Seq(Causes) /\ (v # <<>> => Head(v) = "never" /\ role = "base"
                                           /\ a.rtcm = Never /\ rtc.count < 1)
    BY <2>1, <2>2, Zenon
  <2>5. w \in Seq(Causes) /\ (w # <<>> => Head(w) = "caster" /\ counted)
    BY <2>1, <2>2, Zenon
  <2>6. x \in Seq(Causes) /\ (x # <<>> => Head(x) = "nonet" /\ a.noNet > NoNet)
    BY <2>1, <2>2, Zenon
  <2> HIDE DEF u, v, w, x
  <2> QED
    BY <2>3, <2>4, <2>5, <2>6
<1>2. Overdue(a) = ((u \o v) \o w) \o x
    BY DEF Overdue
<1> HIDE DEF u, v, w, x
<1>3. /\ u \o v \in Seq(Causes)
      /\ (u \o v) # <<>> => \/ u # <<>> /\ Head(u \o v) = Head(u)
                            \/ v # <<>> /\ Head(u \o v) = Head(v)
    BY <1>1, HeadOfTwo
<1>4. /\ (u \o v) \o w \in Seq(Causes)
      /\ ((u \o v) \o w) # <<>> => \/ u \o v # <<>> /\ Head((u \o v) \o w) = Head(u \o v)
                                   \/ w # <<>> /\ Head((u \o v) \o w) = Head(w)
    BY <1>1, <1>3, HeadOfTwo
<1>5. Overdue(a) # <<>> =>
        \/ (u \o v) \o w # <<>> /\ Head(Overdue(a)) = Head((u \o v) \o w)
        \/ x # <<>> /\ Head(Overdue(a)) = Head(x)
    BY <1>1, <1>2, <1>4, HeadOfTwo
<1>6. CASE Overdue(a) # <<>>
  <2>1. Cause(a, late) = Head(Overdue(a))
    BY <1>6 DEF Cause
  <2> QED
    BY <2>1, <1>6, <1>5, <1>4, <1>3, <1>1 DEF Causes
<1>7. CASE Overdue(a) = <<>>
    BY <1>7 DEF Cause, Causes
<1> QED
    BY <1>6, <1>7

---------------------------------------------------------------------------
(* The invariant, action by action.                                        *)

(* What a reset sets has its type.                                         *)
LEMMA ResetTypes ==
    ASSUME SvTypes, NEW reason \in {"poweron", "sw", "panic", "wdt"}, Reset(reason)
    PROVE  /\ stage' = 0 /\ hw' = reason /\ told' = 0 /\ sess' = "none" /\ stuck' = {}
           /\ {hung', bootFault', monStuck', counted', netSeen'} \subseteq BOOLEAN
           /\ hb' \in [Beaters -> Int] /\ \A t \in Beaters : hb'[t] \in Never .. HbLimit[t] + 1
           /\ age' \in Ages /\ leaving' = Nobody
           /\ ended' \in [at : Start .. Done, power : BOOLEAN, meant : BOOLEAN]
<1> USE DEF Off, Start, Done, Never
<1>1. /\ stage' = 0 /\ hw' = reason /\ told' = 0 /\ sess' = "none" /\ stuck' = {}
      /\ {hung', bootFault', monStuck', counted', netSeen'} \subseteq BOOLEAN
      /\ leaving' = Nobody
    BY DEF Reset
<1>2. hb' \in [Beaters -> Int] /\ \A t \in Beaters : hb'[t] \in Never .. HbLimit[t] + 1
    BY DEF Reset
<1>3. AtReset \in Ages
    BY DEF AtReset, Ages
<1>4. age' \in Ages
    BY <1>3 DEF Reset
<1>5. stage \in Start .. Done
    BY DEF Reset, SvTypes, SvTypeOK
<1>6. ended' \in [at : Start .. Done, power : BOOLEAN, meant : BOOLEAN]
    BY <1>5 DEF Reset
<1> QED
    BY <1>1, <1>2, <1>4, <1>6

(* The ages after a pass of the monitor.                                   *)
LEMMA AgedTypes ==
    ASSUME SvTypes
    PROVE  /\ Aged \in Ages
           /\ Aged.noNet # Never => netSeen \/ age.noNet # Never
           /\ net => Aged.noNet = Never
<1> USE DEF Never
<1>1. /\ age.up \in Never .. Silent + 1 /\ age.rtcm \in Never .. Silent + 1
      /\ age.down \in Never .. CasterDown + 1 /\ age.noNet \in Never .. NoNet + 1
    BY DEF SvTypes, SvShape, Ages
<1>2. /\ Older(age.up, Silent) \in Never .. Silent + 1
      /\ Older(age.rtcm, Silent) \in Never .. Silent + 1
      /\ Older(age.down, CasterDown) \in Never .. CasterDown + 1
      /\ Older(age.noNet, NoNet) \in Never .. NoNet + 1
      /\ Older(age.noNet, NoNet) = Never <=> age.noNet = Never
    BY <1>1, OlderRange, LimitsAssumption
<1>3. 0 \in Never .. Silent + 1 /\ 0 \in Never .. NoNet + 1 /\ Never \in Never .. NoNet + 1
    OBVIOUS
<1> QED
    BY <1>2, <1>3 DEF Aged, Ages

(* Updates of RTC memory.                                                  *)
LEMMA RtcUpdates ==
    ASSUME NEW r \in RtcType, NEW s \in 0 .. Done, NEW n \in Notes, NEW f \in BOOLEAN,
           NEW c \in 0 .. 1
    PROVE  /\ [r EXCEPT !.stage = s, !.note = n, !.fault = f] \in RtcType
           /\ [r EXCEPT !.fault = f, !.stage = s] \in RtcType
           /\ [r EXCEPT !.note = n, !.fault = f, !.count = c] \in RtcType
BY DEF RtcType

(* The types of every variable, RTC noise included.                        *)
LEMMA TypesStep ==
    ASSUME SvTypes, [SvNext]_vars
    PROVE  SvTypes'
<1> USE DEF Off, Start, Nvs, Oled, Probe, Net, Web, SdCheck, Detect, Services, Done, Never, AtReset, Nobody, GarbageRtc, SvTypes, SvTypeOK, SvShape, RtcType, Ages, Notes, Causes
<1>1. CASE BootEarly
    BY <1>1 DEF BootEarly, RunsTo, outside, flash, boot, watch, history
<1>2. CASE BootAfterNvs
  <2>1. (hw \in {"panic", "wdt"} \/ (hw = "sw" /\ rtc.fault)) \in BOOLEAN
    BY Zenon
  <2>2. bootFault' \in BOOLEAN
    BY <1>2, <2>1 DEF BootAfterNvs, BootReport
  <2>3. rtc' \in RtcType
    <3> HIDE DEF RtcType, Notes
    <3>1. rtc \in RtcType
      BY DEF RtcType
    <3>2. Nvs \in 0 .. Done /\ "none" \in Notes
      BY DEF Notes
    <3> QED
      BY <1>2, <3>1, <3>2, RtcUpdates DEF BootAfterNvs, BootReport
  <2> QED
    BY <1>2, <2>2, <2>3 DEF BootAfterNvs, RunsTo, BootReport, outside, watch, history
<1>3. CASE BootStage
    BY <1>3 DEF BootStage, RunsTo, outside, flash, boot, watch, history
<1>4. CASE BootDone
    BY <1>4 DEF BootDone, RunsTo, outside, flash, boot, watch, history
<1>5. CASE BootWatchdog
  <2>1. PICK reason \in {"poweron", "sw", "panic", "wdt"} : Reset(reason)
    BY <1>5 DEF BootWatchdog
  <2> QED
    BY <1>5, <2>1, ResetTypes DEF BootWatchdog, outside, Ages
<1>6. CASE TaskWatchdog
  <2>1. PICK reason \in {"poweron", "sw", "panic", "wdt"} : Reset(reason)
    BY <1>6 DEF TaskWatchdog
  <2> QED
    BY <1>6, <2>1, ResetTypes DEF TaskWatchdog, outside, Ages
<1>7. CASE MonRestarts
  <2>1. earned' \subseteq Causes \union {"power"}
    BY <1>7, Zenon DEF MonRestarts
  <2> QED
    BY <1>7, <2>1, ResetTypes DEF MonRestarts, outside, Ages
<1>8. CASE UserNotes
  <2>1. mishaps' \in 0 .. MaxMishaps /\ nvsStage' \in 0 .. Done
    BY <1>8 DEF UserNotes, Mishap, BootGuardRestarting
  <2>2. rtc' \in RtcType
    <3> HIDE DEF RtcType, Notes
    <3>1. rtc \in RtcType
      BY DEF RtcType
    <3>2. rtc' = [rtc EXCEPT !.fault = FALSE, !.stage = Done]
      BY <1>8 DEF UserNotes, BootGuardRestarting
    <3>3. Done \in 0 .. Done /\ FALSE \in BOOLEAN /\ "none" \in Notes /\ 0 \in 0 .. 1
      BY DEF Notes
    <3> QED
      BY <3>1, <3>2, <3>3, RtcUpdates
  <2>3. leaving' \in [mon : Causes \union {"no", "stuck"}, user : {"no", "flushing", "going"}]
    BY <1>8 DEF UserNotes
  <2> QED
    BY <1>8, <2>1, <2>2, <2>3 DEF UserNotes, boot, watch, history
<1>9. CASE UserWrites
    BY <1>9 DEF UserWrites, outside, flash, boot, watch, history
<1>10. CASE UserRestarts
  <2>1. PICK reason \in {"poweron", "sw", "panic", "wdt"} : Reset(reason)
    BY <1>10 DEF UserRestarts
  <2> QED
    BY <1>10, <2>1, ResetTypes DEF UserRestarts, outside, Ages
<1>11. CASE NoteConnected
    BY <1>11 DEF NoteConnected, Client, outside, flash, boot, watch, history
<1>12. CASE NoteDisconnected
    BY <1>12 DEF NoteDisconnected, Client, outside, flash, boot, watch, history
<1>13. CASE SysMonitor
  <2> DEFINE cause == Cause(Aged, {t \in Beaters : hb'[t] > HbLimit[t]})
  <2>1. age' \in Ages
    BY <1>13, AgedTypes DEF SysMonitor
  <2>2. hb' \in [Beaters -> Int] /\ \A t \in Beaters : hb'[t] \in Never .. HbLimit[t] + 1
    <3>1. \A t \in Beaters : Older(hb[t], HbLimit[t]) \in Never .. HbLimit[t] + 1
      BY OlderRange
    <3> QED
      BY <1>13, <3>1 DEF SysMonitor
  <2>3. cause \in Causes \union {"no", "stuck"} /\ (cause = "never" => rtc.count < 1)
    BY CauseIsDue
  <2> HIDE DEF cause
  <2>4. /\ leaving' = [leaving EXCEPT !.mon = cause]
        /\ rtc' = [rtc EXCEPT
                    !.note  = IF cause = "no" THEN @ ELSE cause,
                    !.fault = @ \/ cause # "no",
                    !.count = IF role = "base" /\ Aged.rtcm # Never THEN 0
                              ELSE IF cause = "never" THEN @ + 1 ELSE @]
        /\ rx' = Revived(cause)
    BY <1>13 DEF SysMonitor, cause
  <2>5. leaving' \in [mon : Causes \union {"no", "stuck"}, user : {"no", "flushing", "going"}]
    BY <2>3, <2>4
  <2>6. (rtc.fault \/ cause # "no") \in BOOLEAN
    BY Zenon
  <2>7. rtc' \in RtcType
    <3> DEFINE n == IF cause = "no" THEN rtc.note ELSE cause
               c == IF role = "base" /\ Aged.rtcm # Never THEN 0
                    ELSE IF cause = "never" THEN rtc.count + 1 ELSE rtc.count
    <3>1. n \in Notes /\ c \in 0 .. 1
      BY <2>3
    <3>2. rtc' = [rtc EXCEPT !.note = n, !.fault = rtc.fault \/ cause # "no", !.count = c]
      BY <2>4
    <3> HIDE DEF n, c, RtcType, Notes
    <3>3. rtc \in RtcType
      BY DEF RtcType
    <3> QED
      BY <3>1, <3>2, <3>3, <2>6, RtcUpdates
  <2>8. rx' \in {"ok", "mute", "off", "late"}
    BY <2>4 DEF Revived
  <2>9. netSeen' \in BOOLEAN /\ sess' \in {"none", "short", "long"}
    BY <1>13 DEF SysMonitor
  <2>10. earned' \subseteq Causes \union {"power"}
    BY <1>13 DEF SysMonitor
  <2>11. UNCHANGED <<role, ublox, net, casterUp, mishaps, nvsStage, hw, boot, stuck, monStuck,
                     counted, ended>>
    BY <1>13 DEF SysMonitor
  <2>12. SvShape'
    BY <2>1, <2>2, <2>5, <2>7, <2>10, <2>11
  <2> QED
    BY <2>1, <2>2, <2>5, <2>7, <2>8, <2>9, <2>11, <2>12 DEF boot
<1>14. CASE PowerLoss
  <2>1. PICK reason \in {"poweron", "sw", "panic", "wdt"} : Reset(reason)
    BY <1>14 DEF PowerLoss, Mishap
  <2> QED
    BY <1>14, <2>1, ResetTypes DEF PowerLoss, Mishap, outside, Ages
<1>15. CASE Panic
  <2>1. PICK reason \in {"poweron", "sw", "panic", "wdt"} : Reset(reason)
    BY <1>15 DEF Panic, Mishap
  <2> QED
    BY <1>15, <2>1, ResetTypes DEF Panic, Mishap, outside, Ages
<1>16. CASE BootHangs
    BY <1>16 DEF BootHangs, Mishap, outside, flash, boot, watch, history
<1>17. CASE CoreHangs
    BY <1>17 DEF CoreHangs, Mishap, outside, flash, boot, watch, history
<1>18. CASE TaskStops
    BY <1>18 DEF TaskStops, Mishap, outside, flash, boot, watch, history
<1>19. CASE ReceiverMute
    BY <1>19 DEF ReceiverMute, Mishap, outside, flash, boot, watch, history
<1>20. CASE NetChanges
    BY <1>20 DEF NetChanges, Mishap, outside, flash, boot, watch, history
<1>21. CASE CasterChanges
    BY <1>21 DEF CasterChanges, Mishap, outside, flash, boot, watch, history
<1>22. CASE UNCHANGED vars
    BY <1>22 DEF vars, outside, flash, boot, watch, history
<1> QED
    BY <1>1, <1>2, <1>3, <1>4, <1>5, <1>6, <1>7, <1>8, <1>9, <1>10, <1>11, <1>12, <1>13, <1>14, <1>15, <1>16, <1>17, <1>18, <1>19, <1>20, <1>21, <1>22 DEF SvNext, Boots, Watchdog, User, Trouble

(* The first boot of a device.                                             *)
LEMMA SvInitInv == SvInit => SvInv
<1> USE DEF SvInit, Off, Start, Nvs, Oled, Done, Never, AtReset, Nobody, GarbageRtc, Causes
<1>1. SvInit => SvTypeOK
  <2>1. SvInit => /\ rtc.stage = 0 /\ rtc.count = 0 /\ rtc.fault = FALSE
                  /\ age.up = 0 /\ age.rtcm = -1 /\ age.down = -1 /\ age.noNet = -1
                  /\ leaving.user = "no" /\ leaving.mon = "no"
                  /\ \A u \in Beaters : hb[u] = -1
    OBVIOUS
  <2>2. 0 \in -1 .. Silent + 1 /\ -1 \in -1 .. Silent + 1 /\ -1 \in -1 .. CasterDown + 1
        /\ -1 \in -1 .. NoNet + 1 /\ \A u \in Beaters : -1 \in -1 .. HbLimit[u] + 1
        /\ 0 \in 0 .. MaxMishaps /\ 0 \in 0 .. Done
    BY LimitsAssumption, MishapsAssumption
  <2>3. SvInit => {ublox, net, hung, bootFault, monStuck, counted, netSeen} \subseteq BOOLEAN
    BY RolesAssumption, Zenon
  <2> QED
    BY <2>1, <2>2, <2>3, RolesAssumption DEF SvTypeOK
<1>2. SvInit => SvShape
  <2>1. AtReset \in Ages /\ GarbageRtc \in RtcType /\ "never" \in Causes
    BY DEF Ages, RtcType, Notes
  <2> QED
    BY <2>1 DEF SvShape
<1>3. SvInit => TraceInv
    BY DEF TraceInv, StageInv, LeftBehind, BootTold
<1>4. SvInit => EarnedInv
  <2>1. SvInit => /\ leaving.mon = "no" /\ age.rtcm = -1 /\ age.noNet = -1
                  /\ counted = FALSE /\ netSeen = FALSE /\ "power" \in earned
    OBVIOUS
  <2> QED
    BY <2>1 DEF EarnedInv, RestartsEarned, MayRestart
<1> QED
    BY <1>1, <1>2, <1>3, <1>4 DEF SvInv, SvTypes

---------------------------------------------------------------------------
(* What the memories know of the last boot, action by action.              *)

(* The numbers this is about.                                              *)
LEMMA TraceTypes ==
    ASSUME SvTypes
    PROVE  /\ stage \in 0 .. Done /\ nvsStage \in 0 .. Done /\ told \in 0 .. Done
           /\ rtc \in RtcType /\ rtc.stage \in 0 .. Done
           /\ ended.at \in Start .. Done /\ ended.power \in BOOLEAN /\ ended.meant \in BOOLEAN
           /\ leaving \in [mon : Causes \union {"no", "stuck"},
                            user : {"no", "flushing", "going"}]
BY DEF SvTypes, SvTypeOK, SvShape, Start, Done

(* A reset leaves behind where the boot was, unless it was on purpose.     *)
LEMMA ResetLeaves ==
    ASSUME SvTypes, TraceInv, NEW reason \in {"poweron", "sw", "panic", "wdt"}, Reset(reason),
           reason = "poweron" => rtc'.stage = 0,
           reason # "poweron" => rtc' = rtc,
           leaving.user = "no" => nvsStage' = nvsStage
    PROVE  TraceInv'
<1> USE DEF Off, Start, Nvs, Oled, Done, Nobody
<1>1. /\ stage \in 1 .. Done /\ stage' = 0 /\ leaving'.user = "no"
      /\ ended'.at = stage /\ (ended'.power <=> reason = "poweron")
      /\ ended'.meant <=> leaving.user # "no"
  <2>1. /\ stage \in 1 .. Done /\ stage' = 0 /\ leaving' = Nobody
        /\ ended' = [at |-> stage, power |-> reason = "poweron", meant |-> leaving.user # "no"]
    BY TraceTypes DEF Reset
  <2> QED
    BY <2>1, Zenon
<1>2. StageInv'
    BY <1>1 DEF StageInv
<1>3. BootTold'
    BY <1>1 DEF BootTold
<1>4. ASSUME ~ended'.meant PROVE LeftBehind'
  <2>1. /\ rtc.stage = stage
        /\ stage >= Nvs => nvsStage \in Nvs .. stage
        /\ stage = Done => nvsStage = Done
    BY <1>1, <1>4 DEF TraceInv, StageInv
  <2>2. nvsStage' = nvsStage
    BY <1>1, <1>4
  <2>3. CASE stage = Done
    BY <1>1, <2>1, <2>2, <2>3 DEF LeftBehind
  <2>4. CASE stage < Done /\ reason = "poweron"
    BY <1>1, <2>1, <2>2, <2>4 DEF LeftBehind
  <2>5. CASE stage < Done /\ reason # "poweron"
    BY <1>1, <2>1, <2>2, <2>5 DEF LeftBehind
  <2> QED
    BY <1>1, <2>3, <2>4, <2>5
<1> QED
    BY <1>1, <1>2, <1>3, <1>4 DEF TraceInv

(* What was told at one step of the boot is as true at the next.           *)
LEMMA ToldStays ==
    ASSUME UNCHANGED <<told, ended>>, stage >= Nvs, BootTold
    PROVE  BootTold'
<1>1. ended'.meant = ended.meant /\ ended'.at = ended.at /\ ended'.power = ended.power
    OBVIOUS
<1> QED
    BY <1>1 DEF BootTold

(* A step that moves neither the boot nor what is noted of it.             *)
LEMMA TraceStill ==
    ASSUME TraceInv, UNCHANGED <<stage, told, nvsStage, ended>>, rtc'.stage = rtc.stage,
           leaving.user = "no" <=> leaving'.user = "no"
    PROVE  TraceInv'
<1>1. StageInv'
    BY DEF TraceInv, StageInv
<1>2. BootTold' <=> BootTold
    BY DEF BootTold
<1>3. (LeftBehind' <=> LeftBehind) /\ (KnownEarly' <=> KnownEarly)
    BY DEF LeftBehind, KnownEarly
<1> QED
    BY <1>1, <1>2, <1>3 DEF TraceInv

(* The trace of the boot in the RTC and in the flash is the stage that was *)
(* cut.                                                                    *)
LEMMA TraceStep ==
    ASSUME SvTypes, TraceInv, [SvNext]_vars
    PROVE  TraceInv'
<1> USE DEF Off, Start, Nvs, Oled, Probe, Net, Web, SdCheck, Detect, Services, Done, Never, GarbageRtc
<1>1. CASE BootEarly
  <2>1. /\ stage = 0 /\ stage' = 1 /\ told' = IF rtc.stage \in {0, Done} THEN 0 ELSE rtc.stage
        /\ rtc'.stage = 1 /\ UNCHANGED <<nvsStage, ended, leaving>>
    BY <1>1, TraceTypes DEF BootEarly, RunsTo, RtcType, history
  <2>2. leaving'.user = "no" /\ StageInv' /\ BootTold'
    BY <2>1 DEF TraceInv, StageInv, BootTold
  <2>3. ASSUME ~ended'.meant PROVE KnownEarly'
    <3>1. LeftBehind
      BY <2>1, <2>3 DEF TraceInv
    <3>2. told' = IF rtc.stage = 0 \/ rtc.stage = Done THEN 0 ELSE rtc.stage
      BY <2>1
    <3>3. UNCHANGED <<ended, nvsStage>> /\ ended.at \in 1 .. Done /\ ended.power \in BOOLEAN
      BY <2>1, TraceTypes
    <3>4. CASE ended.at = Done
      BY <3>1, <3>2, <3>3, <3>4 DEF LeftBehind, KnownEarly
    <3>5. CASE ended.at < Done /\ ~ended.power
      BY <3>1, <3>2, <3>3, <3>5 DEF LeftBehind, KnownEarly
    <3>6. CASE ended.at < Done /\ ended.power
      BY <3>1, <3>2, <3>3, <3>6 DEF LeftBehind, KnownEarly
    <3> QED
      BY <3>3, <3>4, <3>5, <3>6
  <2> QED
    BY <2>1, <2>2, <2>3 DEF TraceInv
<1>2. CASE BootAfterNvs
  <2>1. /\ stage = 1 /\ stage' = Nvs /\ nvsStage' = Nvs /\ rtc'.stage = Nvs
        /\ told' = IF told = 0 /\ nvsStage # Done THEN nvsStage ELSE told
        /\ UNCHANGED <<ended, leaving>>
    BY <1>2, TraceTypes DEF BootAfterNvs, BootReport, RunsTo, RtcType, history
  <2>2. leaving'.user = "no" /\ StageInv'
    BY <2>1 DEF TraceInv, StageInv
  <2>3. ASSUME ~ended'.meant PROVE BootTold'
    <3>1. KnownEarly
      BY <2>1, <2>3 DEF TraceInv
    <3>2. UNCHANGED ended /\ ended.at \in 1 .. Done /\ ended.power \in BOOLEAN
      BY <2>1, TraceTypes
    <3>3. /\ ended'.at = Done => told' = 0
          /\ ended'.at < Done /\ ~ended'.power => told' = ended'.at
          /\ ended'.at < Done /\ ended'.power => (ended'.at >= Nvs => told' \in Nvs .. ended'.at)
      BY <2>1, <3>1, <3>2, TraceTypes DEF KnownEarly
    <3>4. CASE ended'.at = Done
      BY <3>3, <3>4 DEF BootTold
    <3>5. CASE ended'.at < Done /\ ~ended'.power
      BY <3>3, <3>5 DEF BootTold
    <3>6. CASE ended'.at < Done /\ ended'.power
      <4>1. ended'.at # Done
        BY <3>6
      <4> QED
        BY <3>3, <3>6, <4>1, Zenon DEF BootTold
    <3> QED
      BY <3>2, <3>4, <3>5, <3>6
  <2> QED
    BY <2>1, <2>2, <2>3 DEF TraceInv
<1>3. CASE BootStage
  <2>1. PICK s \in Nvs + 1 .. Services :
            /\ stage = s - 1 /\ stage' = s /\ rtc'.stage = s
            /\ nvsStage' = IF s \in {Probe, Net, Services} THEN s ELSE nvsStage
            /\ UNCHANGED <<told, ended, leaving>>
    BY <1>3, TraceTypes DEF BootStage, RunsTo, RtcType, boot, history
  <2>2. stage \in Nvs .. Services - 1 /\ stage' \in Nvs + 1 .. Services
    BY <2>1
  <2>3. StageInv'
    BY <2>1, <2>2, TraceTypes DEF TraceInv, StageInv
  <2>4. stage >= Nvs /\ BootTold => BootTold'
    BY <2>1, ToldStays
  <2>5. ~ended.meant => BootTold'
    BY <2>2, <2>4 DEF TraceInv
  <2> QED
    BY <2>1, <2>2, <2>3, <2>5 DEF TraceInv
<1>4. CASE BootDone
  <2>1. /\ stage = Services /\ stage' = Done /\ rtc'.stage = Done /\ nvsStage' = Done
        /\ UNCHANGED <<told, ended, leaving>>
    BY <1>4, TraceTypes DEF BootDone, RunsTo, RtcType, boot, history
  <2>2. StageInv'
    BY <2>1 DEF StageInv
  <2>3. stage >= Nvs /\ BootTold => BootTold'
    BY <2>1, ToldStays
  <2>4. ~ended.meant => BootTold'
    BY <2>1, <2>3 DEF TraceInv
  <2> QED
    BY <2>1, <2>2, <2>4 DEF TraceInv
<1>5. CASE BootWatchdog
    BY <1>5, ResetLeaves DEF BootWatchdog
<1>6. CASE TaskWatchdog
    BY <1>6, ResetLeaves DEF TaskWatchdog
<1>7. CASE MonRestarts
    BY <1>7, ResetLeaves DEF MonRestarts
<1>8. CASE UserNotes
  <2>1. /\ stage >= Oled /\ leaving'.user = "flushing"
        /\ UNCHANGED <<stage, told, ended>>
    BY <1>8, TraceTypes DEF UserNotes, boot, history
  <2>2. StageInv'
    BY <2>1 DEF StageInv
  <2>3. ~ended.meant => BootTold'
    BY <2>1 DEF TraceInv, BootTold
  <2> QED
    BY <2>1, <2>2, <2>3, TraceTypes DEF TraceInv
<1>9. CASE UserWrites
    BY <1>9, TraceTypes, TraceStill DEF UserWrites, RtcType, flash, boot, history
<1>10. CASE UserRestarts
    BY <1>10, ResetLeaves DEF UserRestarts
<1>11. CASE NoteConnected
    BY <1>11, TraceTypes, TraceStill DEF NoteConnected, RtcType, flash, boot, history
<1>12. CASE NoteDisconnected
    BY <1>12, TraceTypes, TraceStill DEF NoteDisconnected, RtcType, flash, boot, history
<1>13. CASE SysMonitor
    BY <1>13, TraceTypes, TraceStill DEF SysMonitor, RtcType, flash, boot, history
<1>14. CASE PowerLoss
    BY <1>14, ResetLeaves DEF PowerLoss
<1>15. CASE Panic
    BY <1>15, ResetLeaves DEF Panic
<1>16. CASE BootHangs
    BY <1>16, TraceTypes, TraceStill DEF BootHangs, RtcType, flash, boot, history
<1>17. CASE CoreHangs
    BY <1>17, TraceTypes, TraceStill DEF CoreHangs, RtcType, flash, boot, history
<1>18. CASE TaskStops
    BY <1>18, TraceTypes, TraceStill DEF TaskStops, RtcType, flash, boot, history
<1>19. CASE ReceiverMute
    BY <1>19, TraceTypes, TraceStill DEF ReceiverMute, RtcType, flash, boot, history
<1>20. CASE NetChanges
    BY <1>20, TraceTypes, TraceStill DEF NetChanges, RtcType, flash, boot, history
<1>21. CASE CasterChanges
    BY <1>21, TraceTypes, TraceStill DEF CasterChanges, RtcType, flash, boot, history
<1>22. CASE UNCHANGED vars
    BY <1>22, TraceStill DEF vars, outside, flash, boot, watch, history
<1> QED
    BY <1>1, <1>2, <1>3, <1>4, <1>5, <1>6, <1>7, <1>8, <1>9, <1>10, <1>11, <1>12, <1>13, <1>14, <1>15, <1>16, <1>17, <1>18, <1>19, <1>20, <1>21, <1>22 DEF SvNext, Boots, Watchdog, User, Trouble

---------------------------------------------------------------------------
(* What each restart has been paid with, action by action.                 *)

(* A reset forgets the clocks.                                             *)
LEMMA ResetEarns ==
    ASSUME SvTypes, EarnedInv, NEW reason \in {"poweron", "sw", "panic", "wdt"}, Reset(reason),
           rtc'.count = 0 => MayRestart'
    PROVE  EarnedInv'
<1>1. leaving'.mon = "no" /\ counted' = FALSE /\ netSeen' = FALSE /\ age' = AtReset
    BY DEF Reset, Nobody
<1> QED
    BY <1>1 DEF EarnedInv, RestartsEarned, AtReset, Causes

(* A step of the rest of the program, which forgets nothing earned.        *)
LEMMA EarnedStays ==
    ASSUME EarnedInv, earned \subseteq earned', leaving'.mon = leaving.mon,
           rtc'.count = rtc.count, age'.rtcm = age.rtcm, age'.noNet = age.noNet,
           netSeen' = netSeen, counted' = counted \/ "caster" \in earned'
    PROVE  EarnedInv'
BY DEF EarnedInv, RestartsEarned, MayRestart

(* A restart has its cause, and a cause what its clock started from.       *)
LEMMA EarnedStep ==
    ASSUME SvTypes, EarnedInv, [SvNext]_vars
    PROVE  EarnedInv'
<1> USE DEF Never
<1>1. CASE BootEarly
    BY <1>1, TraceTypes, EarnedStays DEF BootEarly, RtcType, watch, history
<1>2. CASE BootAfterNvs
    BY <1>2, TraceTypes, EarnedStays DEF BootAfterNvs, BootReport, RtcType, watch, history
<1>3. CASE BootStage
    BY <1>3, TraceTypes, EarnedStays DEF BootStage, RtcType, watch, history
<1>4. CASE BootDone
    BY <1>4, TraceTypes, EarnedStays DEF BootDone, RtcType, watch, history
<1>5. CASE BootWatchdog
    BY <1>5, ResetEarns DEF BootWatchdog, EarnedInv, MayRestart
<1>6. CASE TaskWatchdog
    BY <1>6, ResetEarns DEF TaskWatchdog, EarnedInv, MayRestart
<1>7. CASE MonRestarts
  <2>1. rtc'.count = 0 => MayRestart'
    <3>1. rtc' = rtc /\ (rtc.count = 0 => leaving.mon # "never" /\ MayRestart)
      BY <1>7 DEF MonRestarts, EarnedInv
    <3>2. ASSUME leaving.mon # "never" PROVE earned' = earned \ {leaving.mon}
      BY <1>7, <3>2 DEF MonRestarts
    <3>3. leaving.mon # "power"
      BY DEF SvTypes, SvShape, Causes
    <3> QED
      BY <3>1, <3>2, <3>3 DEF MayRestart
  <2> QED
    BY <1>7, <2>1, ResetEarns DEF MonRestarts
<1>8. CASE UserNotes
    BY <1>8, TraceTypes, EarnedStays DEF UserNotes, BootGuardRestarting, RtcType, watch, history
<1>9. CASE UserWrites
    BY <1>9, TraceTypes, EarnedStays DEF UserWrites, RtcType, watch, history
<1>10. CASE UserRestarts
    BY <1>10, ResetEarns DEF UserRestarts, EarnedInv, MayRestart
<1>11. CASE NoteConnected
    BY <1>11 DEF NoteConnected, flash, EarnedInv, RestartsEarned, MayRestart
<1>12. CASE NoteDisconnected
  <2>1. age'.rtcm = age.rtcm /\ age'.noNet = age.noNet
    BY <1>12 DEF NoteDisconnected, SvTypes, SvShape, Ages
  <2> QED
    BY <1>12, <2>1, EarnedStays DEF NoteDisconnected, flash, watch, history
<1>13. CASE SysMonitor
  <2> DEFINE cause == Cause(Aged, {u \in Beaters : hb'[u] > HbLimit[u]})
  <2>1. /\ cause \in Causes \union {"no", "stuck"}
        /\ cause = "silent" => Aged.rtcm > Silent
        /\ cause = "never" => role = "base" /\ Aged.rtcm = Never /\ rtc.count < 1
        /\ cause = "caster" => counted
        /\ cause = "nonet" => Aged.noNet > NoNet
    BY CauseIsDue
  <2>2. cause = leaving'.mon /\ age' = Aged /\ UNCHANGED counted
    BY <1>13, TraceTypes DEF SysMonitor
  <2>3. rtc'.count = IF role = "base" /\ Aged.rtcm # Never THEN 0
                     ELSE IF cause = "never" THEN rtc.count + 1 ELSE rtc.count
    BY <1>13, TraceTypes DEF SysMonitor, RtcType
  <2>4. /\ earned \subseteq earned'
        /\ age'.rtcm # Never => {"silent", "never"} \subseteq earned'
        /\ net => "nonet" \in earned'
        /\ netSeen' = (netSeen \/ net)
    BY <1>13 DEF SysMonitor
  <2>5. rtc.count \in 0 .. 1
    BY TraceTypes DEF RtcType
  <2> HIDE DEF cause
  <2>6. Aged.noNet # Never => netSeen \/ age.noNet # Never
    BY AgedTypes
  <2>7. netSeen' \/ age'.noNet # Never => "nonet" \in earned'
    BY <2>2, <2>4, <2>6 DEF EarnedInv
  <2>8. counted' => "caster" \in earned'
    BY <2>2, <2>4 DEF EarnedInv
  <2>9. rtc'.count = 0 => MayRestart'
    BY <2>2, <2>3, <2>4, <2>5 DEF EarnedInv, MayRestart
  <2>10. cause = "never" => rtc'.count = 1 /\ MayRestart'
    BY <2>1, <2>3, <2>4, <2>5 DEF EarnedInv, MayRestart
  <2>11. cause = "silent" => "silent" \in earned'
    BY <2>1, <2>2, <2>4, LimitsAssumption
  <2>12. cause = "nonet" => "nonet" \in earned'
    BY <2>1, <2>2, <2>7, LimitsAssumption
  <2>13. RestartsEarned'
    BY <2>1, <2>2, <2>4, <2>8, <2>10, <2>11, <2>12 DEF RestartsEarned, Causes, MayRestart
  <2> QED
    BY <2>2, <2>4, <2>7, <2>8, <2>9, <2>10, <2>13 DEF EarnedInv
<1>14. CASE PowerLoss
    BY <1>14, ResetEarns DEF PowerLoss, EarnedInv, MayRestart
<1>15. CASE Panic
    BY <1>15, ResetEarns DEF Panic, EarnedInv, MayRestart
<1>16. CASE BootHangs
    BY <1>16, EarnedStays DEF BootHangs, flash, watch, history
<1>17. CASE CoreHangs
    BY <1>17, EarnedStays DEF CoreHangs, flash, watch, history
<1>18. CASE TaskStops
    BY <1>18, EarnedStays DEF TaskStops, flash, watch, history
<1>19. CASE ReceiverMute
    BY <1>19, EarnedStays DEF ReceiverMute, flash, watch, history
<1>20. CASE NetChanges
    BY <1>20, EarnedStays DEF NetChanges, flash, watch, history
<1>21. CASE CasterChanges
    BY <1>21, EarnedStays DEF CasterChanges, flash, watch, history
<1>22. CASE UNCHANGED vars
    BY <1>22, EarnedStays DEF vars, flash, watch, history
<1> QED
    BY <1>1, <1>2, <1>3, <1>4, <1>5, <1>6, <1>7, <1>8, <1>9, <1>10, <1>11, <1>12, <1>13, <1>14, <1>15, <1>16, <1>17, <1>18, <1>19, <1>20, <1>21, <1>22 DEF SvNext, Boots, Watchdog, User, Trouble

---------------------------------------------------------------------------
(* The theorems.                                                           *)

(* The invariant, along every behaviour.                                   *)
LEMMA SvInvHolds == SvSpec => []SvInv
<1>1. SvInv /\ [SvNext]_vars => SvInv'
    BY TypesStep, TraceStep, EarnedStep DEF SvInv
<1> QED
    BY SvInitInv, <1>1, PTL DEF SvSpec

(* Whatever cuts the power, hangs or restarts and when, the variables keep *)
(* their types and a boot tells of the one before it what it was: at which *)
(* step it was cut, or that it was not (main/boot_guard.c, main/main.c).   *)
THEOREM CutBootToldHolds == SvSpec => []CutBootTold
<1>1. SvInv => CutBootTold
    BY DEF SvInv, SvTypes, TraceInv, CutBootTold, BootTold
<1> QED
    BY SvInvHolds, <1>1, PTL

(* Whatever happens to the receiver, the network and the caster, a safety  *)
(* restart is for something that has worked since the last restart for it; *)
(* for a receiver that was never heard, or is the only one since the power *)
(* came back (main/sys_stats.c, safety_restart_check).                     *)
THEOREM RestartsEarnedHolds == SvSpec => []RestartsEarned
<1>1. SvInv => RestartsEarned
    BY DEF SvInv, EarnedInv
<1> QED
    BY SvInvHolds, <1>1, PTL
==============================================================================
