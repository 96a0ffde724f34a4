------------------------------- MODULE Station -------------------------------
(***************************************************************************)
(* What a base does with its receiver, its casters and its SIM: the        *)
(* measure of its position, the check of it, the configuration of the      *)
(* receiver, the corrections to the remote caster and to the rovers of its *)
(* own, the traffic this costs and what is asked of the SIM.  The tasks of *)
(* these parts share no variable, so each behaviour follows one of them,   *)
(* the one in focus, whatever the others do.                               *)
(***************************************************************************)
EXTENDS Integers, Sequences

CONSTANTS
    FixedTarget, FixedMin, FloatMin, Timeout, NoCaster, Warmup, SaveEvery, NoData,
    MinGood, Hours, MaxRequests, MaxCuts,
    Parts, QueueMax, EphMaxAge, Window, MinSamples, AlarmWindows, MaxIssues, MaxMoves, MaxSkies,
    Period, Tries, PendingMax, RelaxAfter, MaxAge, Faults, MaxBad, MaxBoots,
    CcFrames, CcRoom, CcRetryMax, CcMaxSaves, CcMaxMoves, CcMaxFaults,
    CsFrames, CsRoom, Slots, CsMaxFaults, CsMaxCalls,
    Months, Every, PlanAhead, Notice1, Notice2, MaxTraffic, MaxSimCuts, MaxPlans,
    Sims, FirstSim, StRequests, MaxStEvents

ASSUME MeasureAssumption ==
    /\ Timeout \in Nat \ {0} /\ Hours \in Nat \ {0} /\ SaveEvery \in Nat \ {0} /\ Warmup \in Nat
    /\ FixedTarget \in Nat /\ NoData \in Nat
ASSUME DriftAssumption ==
    /\ QueueMax \in Nat \ {0, 1} /\ EphMaxAge \in Nat /\ Window \in Nat /\ MaxIssues \in Nat \ {0}
    /\ MinSamples \in Nat \ {0} /\ AlarmWindows \in Nat \ {0}
ASSUME ReceiverAssumption ==
    Period \in Nat \ {0} /\ Tries \in Nat /\ PendingMax \in Nat /\ MaxAge \in Nat
ASSUME FramesAssumption ==
    /\ CcRoom \in Nat /\ CcRetryMax \in Nat /\ CsFrames \in Nat /\ CsRoom \in Nat
(* The months of the calendar have three and two days: a date is at most   *)
(* two months away and the run begins after a period of the plan.          *)
ASSUME CalendarAssumption ==
    Months \in Nat \ {0, 1} /\ Every \in 1 .. 4 /\ PlanAhead \in 0 .. 5 /\ MaxTraffic \in Nat
ASSUME SimsAssumption == FirstSim \in Sims /\ "none" \notin Sims

VARIABLES
    focus,     \* the part this behaviour is about
    cfg, saved, task, acc, httpd, licensed, on, budget, asked,
    issue, sky, antenna, sent, queue, parts, eph, ref, win, verdict, alerted, left, wasAway,
    rx, module, want, pc, todo, pending, redo, known, sv, relaxed, raw, round, late, ubUsed,
    ccFrames, up, rc, panel, route, ccUsed, torn,
    csFrames, feed, bc, socks, ls, csUsed, half,
    day, plKnown, plan, plSent, use, flash, saving, spUsed, contract, real,
    sim, numbers, inbox, toAsked, st, kept, read, reply, part, told, runs

(* A year of short months.                                                 *)
ShortMonths == <<3, 2>>

BM == INSTANCE BaseMeasure
SP == INSTANCE BaseSelfpos
UB == INSTANCE GnssUbx WITH budget <- ubUsed
CC == INSTANCE CasterClient
CS == INSTANCE CasterServer
PL == INSTANCE SimPlan WITH Lengths <- ShortMonths, known <- plKnown, sent <- plSent
ST == INSTANCE SimTools WITH MaxRequests <- StRequests, asked <- toAsked

bm == <<cfg, saved, task, acc, httpd, licensed, on, budget, asked>>
sp == <<issue, sky, antenna, sent, queue, parts, eph, ref, win, verdict, alerted, left, wasAway>>
ub == <<rx, module, want, pc, todo, pending, redo, known, sv, relaxed, raw, round, late, ubUsed>>
cc == <<ccFrames, up, rc, panel, route, ccUsed, torn>>
cs == <<csFrames, feed, bc, socks, ls, csUsed, half>>
pl == <<day, plKnown, plan, plSent, use, flash, saving, spUsed, contract, real>>
to == <<sim, numbers, inbox, toAsked, st, kept, read, reply, part, told, runs>>
stationVars == <<focus, bm, sp, ub, cc, cs, pl, to>>

(* A part that is not in focus starts in one of its initial states.        *)
StationInit ==
    /\ focus \in {"measure", "selfpos", "receiver", "client", "server", "traffic", "sim"}
    /\ BM!BmInit /\ (licensed \/ focus = "measure")
    /\ SP!SpInit
    /\ UB!UbxInit
    /\ focus = "receiver" \/ (module = [x20 |-> FALSE, all |-> FALSE, weak |-> FALSE]
                              /\ want = [role |-> "rover", fixed |-> FALSE, measuring |-> FALSE])
    /\ CC!CcInit /\ (route = 0 \/ focus = "client")
    /\ CS!CsInit
    /\ PL!PlInit
    /\ ST!StInit

StationNext ==
    /\ UNCHANGED focus
    /\ \/ focus = "measure"  /\ BM!BmNext  /\ UNCHANGED <<sp, ub, cc, cs, pl, to>>
       \/ focus = "selfpos"  /\ SP!SpNext  /\ UNCHANGED <<bm, ub, cc, cs, pl, to>>
       \/ focus = "receiver" /\ UB!UbxNext /\ UNCHANGED <<bm, sp, cc, cs, pl, to>>
       \/ focus = "client"   /\ CC!CcNext  /\ UNCHANGED <<bm, sp, ub, cs, pl, to>>
       \/ focus = "server"   /\ CS!CsNext  /\ UNCHANGED <<bm, sp, ub, cc, pl, to>>
       \/ focus = "traffic"  /\ PL!PlNext  /\ UNCHANGED <<bm, sp, ub, cc, cs, to>>
       \/ focus = "sim"      /\ ST!StNext  /\ UNCHANGED <<bm, sp, ub, cc, cs, pl>>

(* The fairness of each part is that of its own module, while in focus;    *)
(* that of SimTools serves none of these properties.                       *)
StationFairness ==
    /\ WF_bm(focus = "measure" /\ BM!StartIfActive)
    /\ WF_bm(focus = "measure" /\ BM!Measures)
    /\ WF_bm(focus = "measure" /\ BM!Serves)
    /\ WF_sp(focus = "selfpos" /\ SP!FeedGood)
    /\ WF_sp(focus = "selfpos" /\ SP!SelfposTask)
    /\ WF_sp(focus = "selfpos" /\ SP!AlertDrift)
    /\ WF_ub(focus = "receiver" /\ UB!UbxTask)
    /\ WF_ub(focus = "receiver" /\ UB!SurveyEnds)
    /\ WF_cc(focus = "client" /\ CC!Starts)
    /\ WF_cc(focus = "client" /\ (CC!ConnectFails \/ CC!Connects))
    /\ WF_cc(focus = "client" /\ CC!Waits)
    /\ WF_cc(focus = "client" /\ (CC!SeesRoute \/ CC!SeesSave))
    /\ WF_cc(focus = "client" /\ CC!Sends)
    /\ WF_cc(focus = "client" /\ CC!Recovers)
    /\ WF_cs(focus = "server" /\ CS!Broadcasts)
    /\ WF_cs(focus = "server" /\ CS!Refuses)
    /\ SF_cs(focus = "server" /\ CS!Adds)

StationSpec == StationInit /\ [][StationNext]_stationVars /\ StationFairness

---------------------------------------------------------------------------
(* A measure of hours survives the power cuts: NVS has all but the last    *)
(* ten minutes of one that runs (base_measure.c:71, 214), and it always    *)
(* ends with a base that is a base again.                                  *)
MeasureKept == BM!CutCostsLittle /\ BM!MeasureEnds

(* An alarm says that the antenna has been away from the very position     *)
(* that is transmitted: no lost subframe, no mixed ephemeris, no stale     *)
(* window or reference gives a false one (base_selfpos.c:178, 232).        *)
AlarmEarned == SP!SpTypeOK /\ SP!EphWhole /\ SP!AlarmEarned

(* An antenna that stays elsewhere is told, when its satellites are there  *)
(* (base_selfpos.c:891-927, alerts.c:525-548).                             *)
MovedIsTold == <>[](focus = "selfpos") => SP!MovedIsTold

(* No caster and no rover ever gets half a frame, and a rover that is told *)
(* 200 has a place (main.c:99-104, ntrip_client.c:182-188,                 *)
(* ntrip_caster_server.c:230-266).                                         *)
WholeFrames ==
    /\ BM!BmTypeOK /\ CC!CcTypeOK /\ CS!CsTypeOK
    /\ CC!NoHalfFrames /\ CS!WholeFramesOnly /\ CS!OkMeansAPlace

(* What is counted and asked of the SIM is not lost: the traffic but for   *)
(* what was not yet saved, the requests, the arrival of another card; and  *)
(* today is always in the period it is counted in (data_usage.h:8-10,      *)
(* sim_plan.c:133-170, sim_tools.c:411-437, 507-534).                      *)
SimAccounted ==
    /\ PL!PlTypeOK /\ PL!TrafficCounted /\ PL!PeriodHoldsToday
    /\ ST!StTypeOK /\ ST!SwapTold /\ ST!NoRequestLost

(* The corrections go on: the base leaves a network that is no longer the  *)
(* active one, and no rover keeps the next one out of the caster           *)
(* (ntrip_client.c:265-267, 296-304, ntrip_caster_server.c:274-330).       *)
CorrectionsFlow == CC!RouteFollowed /\ CS!NextRoverServed

(* The receiver ends up as a base, with nothing of its life as a rover,    *)
(* and the other way round (gnss_ubx.c:195-206, 750-752, 793-797).         *)
BaseServes == [](UB!UbxTypeOK /\ UB!RoverClean) /\ UB!BaseServes
==============================================================================
