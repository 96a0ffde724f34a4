----------------------------- MODULE BaseSelfpos -----------------------------
(***************************************************************************)
(* Has the antenna of the base been moved?  main/base_selfpos.c computes   *)
(* its position from the raw data of the satellites, window by window, and *)
(* compares it with the one the base transmits (main/base_monitor.c, RTCM  *)
(* 1005); main/alerts.c tells the owner.                                   *)
(*                                                                         *)
(* One satellite stands for all.  Its ephemeris comes in parts, of which   *)
(* any may be lost; a new issue replaces it at any time.  The orbits and   *)
(* the least squares are left out: a solution is where the antenna is, or  *)
(* wild (thousands of km away), or there is none.                          *)
(***************************************************************************)
EXTENDS Integers, Sequences, FiniteSets

CONSTANTS
    Parts,       \* subframes 1-3 of GPS, words 1-5 of Galileo
    QueueMax,    \* QUEUE_BYTES, in frames
    EphMaxAge,   \* EPH_MAX_AGE_S, in epochs
    Window,      \* WINDOW_S, in epochs
    MinSamples,  \* MIN_SAMPLES
    AlarmWindows,
    MaxIssues, MaxMoves, MaxSkies

VARIABLES
    issue,     \* the ephemeris the satellite sends
    sky,       \* good: every epoch and every part arrives and gives a solution
    antenna,   \* where it is
    sent,      \* the position in the last 1005 (base_monitor.c), "none" before it
    queue,     \* frames on their way to selfpos_task
    parts,     \* s_gps_sub, s_gal_word: the issue each part is of, 0: none yet
    eph,       \* the ephemeris put together: the issues of its parts, its age
    ref,       \* s_ref_raw, "none" when not s_ref_ok
    win,       \* the samples of the window: how many, how many far, since when
    verdict,   \* have_result, exceed, alarm
    alerted,   \* already_alerted_drift of alerts_task
    left,      \* bounds used up
    wasAway    \* history: the antenna has been elsewhere since that reference

spVars == <<issue, sky, antenna, sent, queue, parts, eph, ref, win, verdict, alerted, left,
            wasAway>>

NoEph    == [of |-> {}, age |-> 0]
NoWindow == [n |-> 0, far |-> 0, elapsed |-> 0]
NoResult == [have |-> FALSE, exceed |-> 0, alarm |-> FALSE]
Places   == {"here", "there"}

SpInit ==
    /\ issue = 1 /\ sky = "good" /\ antenna = "here" /\ sent = "none"
    /\ queue = <<>> /\ parts = [p \in Parts |-> 0] /\ eph = NoEph
    /\ ref = "none" /\ win = NoWindow /\ verdict = NoResult /\ alerted = FALSE
    /\ left = [moves |-> 0, skies |-> 0] /\ wasAway = FALSE

---------------------------------------------------------------------------
(* Around the program.                                                     *)

around == <<issue, sky, antenna, sent, left>>
program == <<queue, parts, eph, ref, win, verdict, alerted>>

Move ==
    /\ left.moves < MaxMoves /\ left' = [left EXCEPT !.moves = @ + 1]
    /\ antenna' \in Places \ {antenna}
    /\ wasAway' = (wasAway \/ (ref # "none" /\ antenna' # ref))
    /\ UNCHANGED <<issue, sky, sent, program>>

(* New coordinates, or a survey-in that ends: base_monitor_feed.           *)
Sends1005 ==
    /\ left.moves < MaxMoves /\ left' = [left EXCEPT !.moves = @ + 1]
    /\ sent' \in Places \ {sent}
    /\ UNCHANGED <<issue, sky, antenna, program, wasAway>>

NewIssue == issue < MaxIssues /\ issue' = issue + 1
            /\ UNCHANGED <<sky, antenna, sent, left, program, wasAway>>

SkyChanges ==
    /\ left.skies < MaxSkies /\ left' = [left EXCEPT !.skies = @ + 1]
    /\ sky' \in {"good", "poor"} \ {sky}
    /\ UNCHANGED <<issue, antenna, sent, program, wasAway>>

---------------------------------------------------------------------------
(* base_selfpos_feed: a frame whose checksum is right goes to the task, or *)
(* is lost when the queue is full.  Under a poor sky, or with a task that  *)
(* is late, any is lost, and time may pass between two epochs.             *)

Nav(p)   == [is |-> "nav", part |-> p, of |-> issue]
Rawx(dt) == [is |-> "rawx", after |-> dt]
Queue(f) == IF Len(queue) < QueueMax THEN queue' = Append(queue, f) ELSE UNCHANGED queue

(* Every epoch comes with one part, and the task keeps up.                 *)
FeedGood == \E p \in Parts :
    /\ sky = "good" /\ queue = <<>>
    /\ parts[p] = issue => \A o \in Parts : parts[o] = issue
    /\ queue' = <<Nav(p), Rawx(1)>>
    /\ UNCHANGED <<around, parts, eph, ref, win, verdict, alerted, wasAway>>

FeedPoor ==
    /\ sky = "poor"
    /\ \E f \in {Nav(p) : p \in Parts} \union {Rawx(dt) : dt \in {1, EphMaxAge + 1}} : Queue(f)
    /\ UNCHANGED <<around, parts, eph, ref, win, verdict, alerted, wasAway>>

---------------------------------------------------------------------------
(* selfpos_task                                                            *)

Receives(kind) == queue # <<>> /\ Head(queue).is = kind /\ queue' = Tail(queue)

(* Mutant: every part is there, of whatever issue.                         *)
WholeMixed(of) == 0 \notin of

(* decode_lnav and decode_inav: an ephemeris when every part is there and  *)
(* all are of one issue (IODE, IODnav).                                    *)
Whole(of) == 0 \notin of /\ Cardinality(of) = 1

(* Mutant: the first ephemeris is kept.                                    *)
DecodeFirst ==
    /\ Receives("nav")
    /\ parts' = [parts EXCEPT ![Head(queue).part] = Head(queue).of]
    /\ LET of == {parts'[p] : p \in Parts}
       IN  eph' = IF Whole(of) /\ eph = NoEph THEN [of |-> of, age |-> 0] ELSE eph
    /\ UNCHANGED <<around, ref, win, verdict, alerted, wasAway>>

Decode ==
    /\ Receives("nav")
    /\ parts' = [parts EXCEPT ![Head(queue).part] = Head(queue).of]
    /\ LET of == {parts'[p] : p \in Parts}
       IN  eph' = IF Whole(of) THEN [of |-> of, age |-> 0] ELSE eph
    /\ UNCHANGED <<around, ref, win, verdict, alerted, wasAway>>

(* eph_usable after dt more, and spp with it: where the satellites were    *)
(* and what solve makes of their distances depends on the sky.             *)
Aged(dt)   == [eph EXCEPT !.age = IF @ + dt > EphMaxAge THEN EphMaxAge + 1 ELSE @ + dt]
Usable(e)  == e.of # {} /\ e.age <= EphMaxAge
Solved     == IF sky = "good" THEN {antenna} ELSE {antenna, "wild", "none"}
Solutions  == IF Usable(eph') THEN Solved ELSE {"none"}

(* The reference of the comparison follows the 1005, and a new one starts  *)
(* everything again.                                                       *)
NewReference == sent # "none" /\ sent # ref

(* The window with one more epoch in it, a sample unless wild.             *)
Sampled(w, sol, dt) == [
    n       |-> w.n + (IF sent # "none" /\ sol \in Places THEN 1 ELSE 0),
    far     |-> w.far + (IF sent # "none" /\ sol \in Places \ {ref'} THEN 1 ELSE 0),
    elapsed |-> IF w.elapsed + dt > Window THEN Window ELSE w.elapsed + dt]

(* close_window: the median is far when half of the samples are.           *)
Closed(v, w) ==
    IF w.n < MinSamples THEN v
    ELSE LET over   == 2 * w.far >= w.n
             exceed == IF over THEN (IF v.exceed < AlarmWindows THEN v.exceed + 1 ELSE v.exceed)
                       ELSE 0
         IN  [have |-> TRUE, exceed |-> exceed, alarm |-> exceed >= AlarmWindows]

ProcessRawx ==
    /\ Receives("rawx")
    /\ eph' = Aged(Head(queue).after)
    /\ ref' = IF sent = "none" THEN ref ELSE sent
    /\ \E sol \in Solutions :
         LET w == Sampled(IF NewReference THEN NoWindow ELSE win, sol, Head(queue).after)
             v == IF NewReference THEN NoResult ELSE verdict
         IN  IF sent # "none" /\ w.elapsed >= Window
             THEN win' = NoWindow /\ verdict' = Closed(v, w)
             ELSE win' = w /\ verdict' = v
    /\ wasAway' = IF NewReference THEN antenna # sent ELSE wasAway
    /\ UNCHANGED <<around, parts, alerted>>

---------------------------------------------------------------------------
(* alerts_task: one message when the alarm comes, one when it goes.        *)
AlertDrift ==
    /\ alerted' = CASE verdict.alarm -> TRUE
                    [] ~verdict.alarm /\ verdict.have -> FALSE
                    [] OTHER -> alerted
    /\ UNCHANGED <<around, queue, parts, eph, ref, win, verdict, wasAway>>

SelfposTask == Decode \/ ProcessRawx
SpNext == Move \/ Sends1005 \/ NewIssue \/ SkyChanges \/ FeedGood \/ FeedPoor \/ SelfposTask
          \/ AlertDrift

(* The receiver sends under a good sky, and both tasks run.                *)
SpFairness == WF_spVars(FeedGood) /\ WF_spVars(SelfposTask) /\ WF_spVars(AlertDrift)
SpSpec == SpInit /\ [][SpNext]_spVars /\ SpFairness

---------------------------------------------------------------------------
SpTypeOK ==
    /\ queue \in UNION {[1 .. n -> [is : {"nav"}, part : Parts, of : 1 .. MaxIssues]
                            \union [is : {"rawx"}, after : 1 .. EphMaxAge + 1]] : n \in 0 .. QueueMax}
    /\ win.far \in 0 .. win.n /\ win.elapsed \in 0 .. Window
    /\ verdict.alarm <=> verdict.exceed >= AlarmWindows

(* No position is computed from an ephemeris of two issues, whatever parts *)
(* were lost: the satellite would be kilometres away from where it is.     *)
EphWhole == Cardinality(eph.of) <= 1

(* No false alarm: there is one only when the antenna has been away from   *)
(* the very position that is transmitted now.                              *)
AlarmEarned == verdict.alarm => wasAway

(* An antenna that stays away is told, when the satellites are there.      *)
MovedIsTold ==
    <>[](sky = "good" /\ sent # "none" /\ antenna # sent) => []<>alerted
=============================================================================
