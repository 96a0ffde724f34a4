------------------------------- MODULE Alerts -------------------------------
(***************************************************************************)
(* The alarms the base sends by mail or WhatsApp (main/alerts.c): once a   *)
(* minute the task of the alarms looks at the caster, at the antenna, at   *)
(* the position sent to the rovers and at the temperature, and sends one   *)
(* message when something goes wrong and one when it is right again.  What *)
(* it already told is remembered in RAM; for the caster also in the RTC    *)
(* memory, which survives a restart but not a power cut; for the notices   *)
(* of the data plan and of the licence in the NVS.                         *)
(***************************************************************************)
EXTENDS Integers, FiniteSets

CONSTANTS
    Threshold,      \* alert_threshold_min
    FirstThreshold, \* the 30 minutes of a base that never connected
    AlMaxFaults,    \* changes of caster, antenna, position, temperature, way out
    AlMaxSwitches,  \* saves of the panel, changes of the licence
    AlMaxRestarts

Watches == {"drift", "position", "temp"}

VARIABLES
    caster,   \* status.c: minutes connected, minutes since last_disconnect_us, count
    watch,    \* "good", "between" or "bad", of each of the other watches
    reach,    \* the base has a network, and one of its channels takes messages
    on,       \* alert_enable, and whether the licence has the base package
    latch,    \* already_alerted...
    rtc,      \* s_rtc_caster_alerted, "noise" after a power cut
    due, kept,    \* the notice that is due; the last one saved as sent
    alPart,   \* the part of the task that comes next
    mail,     \* history: the last message of each subject, and whether it went out
    alUsed

alertVars == <<caster, watch, reach, on, latch, rtc, due, kept, alPart, mail, alUsed>>

Never == -1      \* no time known
Cap   == FirstThreshold
Older(m) == IF m = Never \/ m = Cap THEN m ELSE m + 1
Connected == caster.up # Never
Lasting   == caster.up >= 1                   \* a whole minute
NoLatch   == [w \in Watches \cup {"caster"} |-> FALSE]

AlInit ==
    /\ caster = [up |-> Never, down |-> Never, count |-> 0]
    /\ watch = [w \in Watches |-> "good"] /\ on = [enable |-> TRUE, pkg |-> TRUE]
    /\ reach = TRUE
    /\ latch = NoLatch /\ rtc = "noise" /\ due = 0 /\ kept = 0
    /\ alPart = "wait" /\ mail = [w \in Watches \cup {"caster"} |-> "none"]
    /\ alUsed = [faults |-> 0, switches |-> 0, restarts |-> 0]

---------------------------------------------------------------------------
(* Mutant: every disconnection begins another outage.                      *)
NotedDisconnectedAgain(c) == [c EXCEPT !.up = Never, !.down = 0]

(* status_ntrip_note_connected, status_ntrip_note_disconnected: a session  *)
(* of less than a minute does not end the outage.                          *)
NotedConnected(c)    == [c EXCEPT !.up = 0, !.count = 1]
NotedDisconnected(c) ==
    [c EXCEPT !.up = Never,
              !.down = IF c.up >= 1 \/ c.down = Never THEN 0 ELSE @]

CasterChanges ==
    /\ alUsed.faults < AlMaxFaults /\ alUsed' = [alUsed EXCEPT !.faults = @ + 1]
    /\ caster' = IF Connected THEN NotedDisconnected(caster) ELSE NotedConnected(caster)
    /\ UNCHANGED <<watch, reach, on, latch, rtc, due, kept, alPart, mail>>

(* A caster that takes the base and closes at once, again and again.       *)
CasterFlaps ==
    /\ ~Connected /\ caster' = NotedDisconnected(NotedConnected(caster))
    /\ UNCHANGED <<watch, reach, on, latch, rtc, due, kept, alPart, mail, alUsed>>

WatchChanges ==
    /\ alUsed.faults < AlMaxFaults /\ alUsed' = [alUsed EXCEPT !.faults = @ + 1]
    /\ \E w \in Watches, v \in {"good", "between", "bad"} : watch' = [watch EXCEPT ![w] = v]
    /\ UNCHANGED <<caster, reach, on, latch, rtc, due, kept, alPart, mail>>

(* The base loses its network, or the mail server does not answer.         *)
ReachChanges ==
    /\ alUsed.faults < AlMaxFaults /\ alUsed' = [alUsed EXCEPT !.faults = @ + 1]
    /\ reach' = ~reach
    /\ UNCHANGED <<caster, watch, on, latch, rtc, due, kept, alPart, mail>>

NoticeDue ==
    /\ due < 1 /\ due' = due + 1
    /\ UNCHANGED <<caster, watch, reach, on, latch, rtc, kept, alPart, mail, alUsed>>

Switches ==
    /\ alUsed.switches < AlMaxSwitches /\ alUsed' = [alUsed EXCEPT !.switches = @ + 1]
    /\ \E f \in {"enable", "pkg"} : on' = [on EXCEPT ![f] = ~@]
    /\ UNCHANGED <<caster, watch, reach, latch, rtc, due, kept, alPart, mail>>

(* A restart for safety or an update; a power cut makes noise of the RTC.  *)
Restarts ==
    /\ alUsed.restarts < AlMaxRestarts /\ alUsed' = [alUsed EXCEPT !.restarts = @ + 1]
    /\ \E r \in {rtc, "noise"} :
         /\ rtc' = r
         /\ latch' = [NoLatch EXCEPT !["caster"] = (r = "told")]
         /\ mail' = IF r = "noise" THEN [w \in DOMAIN mail |-> "none"]
                    ELSE [w \in DOMAIN mail |-> IF w = "caster" THEN mail[w] ELSE "none"]
    /\ caster' = [up |-> Never, down |-> Never, count |-> 0]
    /\ watch' = [w \in Watches |-> IF w = "drift" THEN "between" ELSE watch[w]]
    /\ alPart' = "wait"
    /\ UNCHANGED <<reach, on, due, kept>>

---------------------------------------------------------------------------
(* alerts_task.                                                            *)

AtPart(from, to) == alPart = from /\ alPart' = to
KeepsAll == UNCHANGED <<caster, watch, reach, on, latch, rtc, due, kept, mail, alUsed>>
KeepsWorld == UNCHANGED <<caster, watch, reach, on, due, alUsed>>

(* A minute: the caster that does not answer has failed at least once.     *)
MinutePasses ==
    /\ AtPart("wait", "notice")
    /\ caster' = LET c == IF Connected THEN caster ELSE NotedDisconnected(caster)
                 IN [c EXCEPT !.up = Older(@), !.down = Older(@)]
    /\ UNCHANGED <<watch, reach, on, latch, rtc, due, kept, mail, alUsed>>

(* The notices: sent once each, and saved as sent whether they were or not.*)
TellsNotice ==
    /\ AtPart("notice", "caster") /\ kept' = due
    /\ KeepsWorld /\ UNCHANGED <<latch, rtc, mail>>

(* Switched off, or without the package: nothing is remembered.            *)
Forgets ==
    /\ alPart = "caster" /\ ~on.enable /\ alPart' = "wait"
    /\ latch' = NoLatch /\ rtc' = "fine"
    /\ mail' = [w \in DOMAIN mail |-> "none"]
    /\ KeepsWorld /\ UNCHANGED kept
NoPackage ==
    /\ AtPart("caster", "drift") /\ on.enable /\ ~on.pkg
    /\ latch' = [latch EXCEPT !["caster"] = FALSE] /\ rtc' = "fine"
    /\ mail' = [mail EXCEPT !["caster"] = "none"]
    /\ KeepsWorld /\ UNCHANGED kept

Limit == IF caster.count = 0 THEN FirstThreshold ELSE Threshold
CasterLost  == ~Connected /\ caster.down >= Limit /\ ~latch["caster"]
CasterBack  == Lasting /\ latch["caster"]

(* send_on_configured_channels: seconds, mail and WhatsApp one after the   *)
(* other.  It returns whether one of them took the message, and nobody     *)
(* looks: the latch is set, and the message not sent again.                *)
Unsent == [wrong |-> "wrong, unsent", right |-> "right, unsent"]
Sent(subject, what) == [mail EXCEPT ![subject] = IF reach THEN what ELSE Unsent[what]]

TellsCaster ==
    /\ AtPart("caster", "note") /\ on.enable /\ on.pkg /\ (CasterLost \/ CasterBack)
    /\ mail' = Sent("caster", IF CasterLost THEN "wrong" ELSE "right")
    /\ KeepsWorld /\ UNCHANGED <<latch, rtc, kept>>
(* caster_alert_note keeps it in the RTC memory too.                       *)
NotesCaster ==
    /\ AtPart("note", "drift")
    /\ latch' = [latch EXCEPT !["caster"] = ~@]
    /\ rtc' = IF latch'["caster"] THEN "told" ELSE "fine"
    /\ KeepsWorld /\ UNCHANGED <<mail, kept>>
CasterAsItWas ==
    /\ AtPart("caster", "drift") /\ on.enable /\ on.pkg /\ ~CasterLost /\ ~CasterBack /\ KeepsAll

(* The antenna, the position and the temperature, one after the other.     *)
AfterWatch == [drift |-> "position", position |-> "temp", temp |-> "wait"]
LooksAt(w) ==
    /\ AtPart(w, AfterWatch[w])
    /\ LET wrong == watch[w] = "bad" /\ ~latch[w]
           right == watch[w] = "good" /\ latch[w]
       IN IF w = "drift" /\ ~on.pkg
          THEN /\ latch' = [latch EXCEPT !["drift"] = FALSE]
               /\ mail' = [mail EXCEPT !["drift"] = "none"]
          ELSE /\ latch' = [latch EXCEPT ![w] = wrong \/ (@ /\ ~right)]
               /\ mail' = IF wrong THEN Sent(w, "wrong") ELSE IF right THEN Sent(w, "right") ELSE mail
    /\ KeepsWorld /\ UNCHANGED <<rtc, kept>>

AlTask ==
    \/ MinutePasses \/ TellsNotice \/ Forgets \/ NoPackage
    \/ TellsCaster \/ NotesCaster \/ CasterAsItWas
    \/ \E w \in Watches : LooksAt(w)
AlNext ==
    \/ CasterChanges \/ CasterFlaps \/ WatchChanges \/ ReachChanges \/ NoticeDue \/ Switches \/ Restarts
    \/ AlTask
AlFairness == WF_alertVars(AlTask)
AlSpec == AlInit /\ [][AlNext]_alertVars /\ AlFairness

---------------------------------------------------------------------------
(* The variables keep their types.                                         *)
AlTypeOK ==
    /\ caster.up \in Never..Cap /\ caster.down \in Never..Cap /\ caster.count \in 0..1
    /\ reach \in BOOLEAN
    /\ rtc \in {"noise", "told", "fine"} /\ latch \in [DOMAIN NoLatch -> BOOLEAN]
    /\ alPart \in {"wait", "notice", "caster", "note"} \cup Watches

(* A base whose caster does not keep it, even one that takes it and closes *)
(* again and again, is reported, and if the owner hears nothing it is that *)
(* no message could leave the base when it was to be sent (status.c:129-   *)
(* 148, alerts.c:498-515).  The other exception: a restart between the     *)
(* message of a recovery and its note, after which another outage counts   *)
(* as told.                                                                *)
Outage == on.enable /\ on.pkg /\ ~Lasting /\ ~Connected
Noted  == alUsed.restarts > 0 /\ latch["caster"]
OutageIsTold ==
    <>[]Outage => []<>(mail["caster"] \in {"wrong", "wrong, unsent"} \/ Noted)

(* As the manual has it (13-scheda-avvisi.html:11): the owner hears of an  *)
(* outage that lasts, also of one that began while no message could leave  *)
(* the base, once one can.  Expected to fail: it is not sent again.        *)
OutageIsHeard == <>[](Outage /\ reach) => []<>(mail["caster"] = "wrong" \/ Noted)

(* What was reported and is right again is reported too, also when the     *)
(* base restarted in between (alerts.c:393-397); but for a restart between *)
(* a message and its note the last message says so, sent or not.           *)
Calm == on.enable /\ on.pkg /\ Lasting
RecoveryIsTold ==
    <>[]Calm => <>[](/\ ~latch["caster"] /\ rtc # "told"
                     /\ mail["caster"] \in {"wrong", "wrong, unsent"} => alUsed.restarts > 0)

(* The same, of the message: expected to fail when the base restarts       *)
(* between the message and its note.                                       *)
RestoredIsTold == <>[]Calm => <>[](mail["caster"] # "wrong")
=============================================================================
