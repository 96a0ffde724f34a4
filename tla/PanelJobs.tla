----------------------------- MODULE PanelJobs ------------------------------
(***************************************************************************)
(* The long operations of the panel (main/web_ui.c): speed test, list of   *)
(* the mountpoints, caster test and format of the microSD share one flag,  *)
(* s_bg_busy; the test of the alarms has its own.  Each runs in a task     *)
(* that answers the request and gives the flag back; the server handles    *)
(* one request at a time.                                                  *)
(***************************************************************************)
EXTENDS FiniteSets, Integers

CONSTANT PjMaxFailures   \* memory, socket or task that cannot be had

Heavy == {"speed", "mountpoints", "caster", "format"}
Kinds == Heavy \cup {"alerts"}

VARIABLES
    bgBusy, alertsBusy,   \* s_bg_busy, s_alerts_test_busy
    jobTask,              \* per operation: "none", "works", "answered"
    waiting,              \* operations whose request has no answer yet
    updating,             \* ota_update_in_progress
    failures

pjVars == <<bgBusy, alertsBusy, jobTask, waiting, updating, failures>>

PjInit == /\ bgBusy = FALSE /\ alertsBusy = FALSE /\ jobTask = [k \in Kinds |-> "none"]
          /\ waiting = {} /\ updating = FALSE /\ failures = 0

---------------------------------------------------------------------------
(* The handlers.  A request that is not valid, or comes while the flag is  *)
(* taken, is answered at once and changes nothing.                         *)

Taken(k) == IF k = "alerts" THEN alertsBusy ELSE bgBusy
MayAsk(k) == /\ k \notin waiting /\ ~Taken(k)
             /\ k = "speed" => ~updating     \* and memory enough

(* bg_claim, then a copy of the request and a task.                        *)
Claims(k) == IF k = "alerts" THEN alertsBusy' = TRUE /\ UNCHANGED bgBusy
             ELSE bgBusy' = TRUE /\ UNCHANGED alertsBusy
StartJob(k) ==
    /\ MayAsk(k) /\ Claims(k)
    /\ waiting' = waiting \cup {k} /\ jobTask' = [jobTask EXCEPT ![k] = "works"]
    /\ UNCHANGED <<updating, failures>>
SpeedTest   == StartJob("speed")
Mountpoints == StartJob("mountpoints")
CasterTest  == StartJob("caster")
Format      == StartJob("format")
AlertsTest  == StartJob("alerts")

(* Mutant: a task that cannot be had leaves the flag taken.                *)
GivesNothingBack(k) == Claims(k)

(* No copy of the request or no task: the flag is given back and the       *)
(* request answered with an error.                                         *)
GivesBack(k) == UNCHANGED <<bgBusy, alertsBusy>>
JobNotStarted ==
    /\ failures < PjMaxFailures /\ failures' = failures + 1
    /\ \E k \in Kinds : MayAsk(k) /\ GivesBack(k)
    /\ UNCHANGED <<jobTask, waiting, updating>>

---------------------------------------------------------------------------
(* The tasks.                                                              *)
AnswersJob(k) ==
    /\ jobTask[k] = "works" /\ jobTask' = [jobTask EXCEPT ![k] = "answered"]
    /\ waiting' = waiting \ {k}
    /\ UNCHANGED <<bgBusy, alertsBusy, updating, failures>>
EndsJob(k) ==
    /\ jobTask[k] = "answered" /\ jobTask' = [jobTask EXCEPT ![k] = "none"]
    /\ IF k = "alerts" THEN alertsBusy' = FALSE /\ UNCHANGED bgBusy
       ELSE bgBusy' = FALSE /\ UNCHANGED alertsBusy
    /\ UNCHANGED <<waiting, updating, failures>>

(* An update takes its own lock only (OtaUpdate).                          *)
UpdateGoes == updating' = ~updating /\ UNCHANGED <<bgBusy, alertsBusy, jobTask, waiting, failures>>

---------------------------------------------------------------------------
Runs(k) == AnswersJob(k) \/ EndsJob(k)
PjNext ==
    \/ SpeedTest \/ Mountpoints \/ CasterTest \/ Format \/ AlertsTest \/ JobNotStarted
    \/ (\E k \in Kinds : Runs(k)) \/ UpdateGoes
PjFairness == \A k \in Kinds : WF_pjVars(Runs(k))
PjSpec == PjInit /\ [][PjNext]_pjVars /\ PjFairness

---------------------------------------------------------------------------
(* The variables keep their types, and one heavy operation runs at a time  *)
(* (web_ui.c:2959-2963).                                                   *)
PjTypeOK ==
    /\ waiting \subseteq Kinds /\ \A k \in Kinds : jobTask[k] \in {"none", "works", "answered"}
    /\ Cardinality({k \in Heavy : jobTask[k] # "none"}) <= 1

(* Whatever fails, every request gets its answer and the panel can start   *)
(* the next operation (web_ui.c:2736-2737).                                *)
PanelFrees == []<>~bgBusy /\ []<>~alertsBusy /\ \A k \in Kinds : []<>(k \notin waiting)

(* The speed test never runs together with an update (web_ui.c:3003-3004). *)
SpeedTestApart == ~(updating /\ jobTask["speed"] = "works")
=============================================================================
