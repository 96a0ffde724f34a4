------------------------------- MODULE GnssUbx -------------------------------
(***************************************************************************)
(* The configuration of a u-blox receiver (main/gnss_ubx.c) and the        *)
(* recognition of its answers (main/gnss_ubx_ack.c).  The receiver keeps   *)
(* what it was told in its own RAM, which a restart of the board leaves    *)
(* alone and a power cut or a reset of the receiver empties; each role     *)
(* undoes what the other has left there.                                   *)
(*                                                                         *)
(* A UBX-CFG-VALSET is one step, its three attempts together: a group of   *)
(* keys is applied as a whole or, with a key the module does not know, is  *)
(* refused as a whole.  A round of svin_poll_task is ten seconds.          *)
(***************************************************************************)
EXTENDS Integers, Sequences, SequencesExt

CONSTANTS
    Period,     \* rounds between two attempts of the groups in wait (6)
    Tries,      \* UBX_PENDING_TRIES
    PendingMax, \* UBX_PENDING_MAX
    RelaxAfter, \* SVIN_RELAX_AFTER_S, in rounds
    MaxAge,     \* ages stop here, above Period * (Tries + 1)
    Faults,     \* what the bus may do: "lost", "mute", "late", "poll"
    MaxBad,     \* bound: commands without an answer
    MaxBoots    \* bound: restarts of the board

VARIABLES
    rx,       \* the receiver: its RAM, its survey-in
    module,   \* what it is: a ZED-X20P, a module that knows every key, with good signals
    want,     \* the settings read at the boot: role, fixed position, measure, survey
    pc,       \* where app_main or svin_poll_task is
    todo,     \* the groups it sends before it goes on
    pending,  \* s_pending
    redo,     \* pending_retry: the groups it has not come to yet
    known,    \* gnss_ubx_ack_model(): answered, s_x20p_signals_done
    sv,       \* status_svin_get
    relaxed,  \* svin_relaxed
    raw,      \* raw_log_wanted_rate and base_selfpos_wanted_rate; applied
    round,    \* loop_count, modulo Period
    late,     \* an answer that comes after its window
    budget    \* commands lost, restarts, changes of raw

ubxVars == <<rx, module, want, pc, todo, pending, redo, known, sv, relaxed, raw,
             round, late, budget>>
wire == <<rx, late, budget>>

Roles == [role : {"base"}, fixed : BOOLEAN, measuring : {FALSE}]
           \cup [role : {"rover"}, fixed : {FALSE}, measuring : BOOLEAN]
Factory == [mode |-> "off", acc |-> "asked", rate |-> "none", rtcm |-> FALSE,
            t1005 |-> FALSE, raw |-> "off", hp |-> FALSE, plan |-> FALSE]
NoSurvey == [st |-> "none", age |-> 0, own |-> FALSE]
NoSv == [have |-> FALSE, st |-> "none", age |-> 0]

UbxInit ==
    /\ rx = [ram |-> Factory, survey |-> NoSurvey]
    /\ module \in [x20 : BOOLEAN, all : BOOLEAN, weak : BOOLEAN]
    /\ want \in Roles
    /\ pc = "model" /\ todo = <<>> /\ pending = <<>> /\ redo = <<>>
    /\ known = [model |-> FALSE, plan |-> FALSE]
    /\ sv = NoSv /\ relaxed = FALSE
    /\ raw = [want |-> "off", applied |-> "unset"]
    /\ round = 0 /\ late = "none"
    /\ budget = [bad |-> 0, boots |-> 0, raw |-> 0]

---------------------------------------------------------------------------
(* The wire.                                                               *)

(* The module takes a group: a survey-in begins with every TMODE of its    *)
(* own, and the engine starts again when the signals change.  An age of 1  *)
(* is older than the group put in wait next.                               *)
Taken(kv, age) ==
    LET begun == [st |-> "run", age |-> age, own |-> TRUE]
    IN  [ram |-> [k \in DOMAIN rx.ram |-> IF k \in DOMAIN kv THEN kv[k] ELSE rx.ram[k]],
         survey |-> IF "mode" \in DOMAIN kv
                      THEN IF kv.mode = "survey" THEN begun ELSE NoSurvey
                      ELSE IF "plan" \in DOMAIN kv /\ rx.survey.st # "none"
                             THEN [rx.survey EXCEPT !.st = "run", !.age = 1]
                             ELSE rx.survey]

Accepts(kv) == module.all \/ "other" \notin DOMAIN kv
Verdict(kv) == IF Accepts(kv) THEN "ack" ELSE "nak"

(* ubx_send, gnss_ubx_ack_arm, _feed_byte and _wait: the answer says what  *)
(* the module did, unless it is that of an earlier command, later than the *)
(* window of that one; nothing compares the two.                           *)
Obeyed(kv) == IF Accepts(kv) THEN Taken(kv, 0) ELSE rx
Spends == budget.bad < MaxBad /\ budget' = [budget EXCEPT !.bad = @ + 1]

Answered(kv, answer) ==
    /\ late' = "none"
    /\ \/ /\ answer \in {Verdict(kv)} \cup ({late} \ {"none"})
          /\ rx' = Obeyed(kv) /\ UNCHANGED budget
       \/ /\ late # "none" /\ answer = late
          /\ Spends /\ UNCHANGED rx

(* Three attempts, and no answer within 500 ms of any: the receiver had    *)
(* none of them, or took the last or an earlier one.                       *)
Unanswered(kv) ==
    /\ Spends
    /\ \/ "lost" \in Faults /\ UNCHANGED rx
       \/ "mute" \in Faults /\ Accepts(kv) /\ \E age \in {0, 1} : rx' = Taken(kv, age)
    /\ late' \in {"none"} \cup (IF "late" \in Faults THEN {Verdict(kv)} ELSE {})

(* ubx_valset.                                                             *)
Valset(kv, answer) == Answered(kv, answer) \/ (answer = "none" /\ Unanswered(kv))

---------------------------------------------------------------------------
(* What each role asks for.                                                *)

Group(kv, kept) == [kv |-> kv, kept |-> kept]
Singles(kv) == SetToSeq({Group([x \in {k} |-> kv[k]], FALSE) : k \in DOMAIN kv})

(* configure_x20p_signals: it restarts the engine, so it is not repeated.  *)
PlanGroup == Group([plan |-> TRUE], FALSE)
Signals(model) == IF model /\ module.x20 THEN <<PlanGroup>> ELSE <<>>

(* gnss_ubx_configure_base, the last group: the coordinates or a survey.   *)
Tmode == IF want.fixed THEN [mode |-> "fixed"] ELSE [mode |-> "survey", acc |-> "asked"]

(* gnss_ubx_configure_base, mute_other_ports: "other" is a message that    *)
(* not every module has.                                                   *)
BaseGroups ==
    << Group([rate |-> "base"], TRUE), Group([rtcm |-> TRUE], TRUE),
       Group([t1005 |-> TRUE, other |-> TRUE], TRUE), Group(Tmode, TRUE) >>

(* gnss_ubx_configure_rover: nothing without an answer is kept.            *)
RoverGroups ==
    << Group([mode |-> "off"], FALSE), Group([hp |-> want.measuring], FALSE),
       Group([rate |-> IF want.measuring THEN "base" ELSE "rover"], FALSE),
       Group([raw |-> "off"], FALSE), Group([rtcm |-> FALSE], FALSE) >>

---------------------------------------------------------------------------
(* At the boot.                                                            *)

(* A poll of UBX-MON-VER: the answer is read, or all of them are lost.     *)
PollsModel(read) ==
    \/ read /\ UNCHANGED budget
    \/ ~read /\ "lost" \in Faults /\ Spends

(* wait_model, gnss_ubx_poll_version, then the groups of the role.         *)
WaitsModel ==
    /\ pc = "model"
    /\ \E read \in BOOLEAN :
         /\ PollsModel(read)
         /\ known' = [model |-> read, plan |-> read /\ module.x20]
         /\ todo' = Signals(read) \o
                    (IF want.role = "base" THEN BaseGroups ELSE RoverGroups)
    /\ pc' = "groups"
    /\ UNCHANGED <<rx, module, want, pending, redo, sv, relaxed, raw, round, late>>

(* Mutant: what has no answer is forgotten.                                *)
KeptNot(kv) == pending

(* pending_add.                                                            *)
Kept(kv) ==
    IF Len(pending) < PendingMax THEN Append(pending, [kv |-> kv, tries |-> 0, age |-> 0])
                            ELSE pending

(* ubx_valset_group: what is refused as a whole is sent key by key.        *)
SendsGroup ==
    /\ todo # <<>>
    /\ LET g == Head(todo) IN
         \E answer \in {"ack", "nak", "none"} :
           /\ Valset(g.kv, answer)
           /\ pending' = (IF answer = "none" /\ g.kept THEN Kept(g.kv) ELSE pending)
           /\ todo' = (IF answer = "nak" /\ DOMAIN g.kv \notin {{k} : k \in DOMAIN g.kv}
                         THEN Singles(g.kv) ELSE <<>>) \o Tail(todo)
    /\ UNCHANGED <<module, want, pc, redo, known, sv, relaxed, raw, round>>

(* The end of gnss_ubx_configure_base or _rover: a base creates            *)
(* svin_poll_task.                                                         *)
Configured ==
    /\ pc = "groups" /\ todo = <<>>
    /\ pc' = (IF want.role = "base" THEN "poll" ELSE "done")
    /\ UNCHANGED <<wire, module, want, todo, pending, redo, known, sv, relaxed, raw, round>>

---------------------------------------------------------------------------
(* svin_poll_task, one round.                                              *)

At(here, next) == pc = here /\ todo = <<>> /\ redo = <<>> /\ pc' = next

(* UBX-NAV-SVIN, read in gnss_ubx_ack_feed_byte.                           *)
PollsSurvey ==
    /\ At("poll", "relax")
    /\ \/ /\ ~want.fixed /\ UNCHANGED budget
          /\ sv' = [have |-> TRUE, st |-> rx.survey.st, age |-> rx.survey.age]
       \/ want.fixed /\ UNCHANGED <<sv, budget>>
       \/ "poll" \in Faults /\ ~want.fixed /\ Spends /\ UNCHANGED sv
    /\ UNCHANGED <<rx, late, module, want, todo, pending, redo, known, relaxed, raw, round>>

(* A survey that has not ended in thirty minutes: once, a wider limit.     *)
Stuck == ~want.fixed /\ ~relaxed /\ sv.have /\ sv.st = "run" /\ sv.age >= RelaxAfter
Relaxes ==
    /\ At("relax", "retry")
    /\ relaxed' = (relaxed \/ Stuck)
    /\ todo' = IF Stuck THEN <<Group([acc |-> "wide"], FALSE)>> ELSE <<>>
    /\ UNCHANGED <<wire, module, want, pending, redo, known, sv, raw, round>>

(* pending_retry: the list, taken from the start; the survey that runs     *)
(* since the command was sent is its own.                                  *)
Retries ==
    /\ At("retry", "retried")
    /\ IF round = Period - 1 THEN redo' = pending /\ pending' = <<>>
                             ELSE UNCHANGED <<redo, pending>>
    /\ UNCHANGED <<wire, module, want, todo, known, sv, relaxed, raw, round>>

Begun(p) == "mode" \in DOMAIN p.kv /\ p.kv.mode = "survey"
            /\ sv.have /\ sv.st = "run" /\ sv.age <= p.age
RetriesOne ==
    /\ redo # <<>> /\ todo = <<>> /\ redo' = Tail(redo)
    /\ LET p == Head(redo) IN
         IF Begun(p) \/ p.tries >= Tries
           THEN UNCHANGED <<wire, pending, todo>>
           ELSE \E answer \in {"ack", "nak", "none"} :
                  /\ Valset(p.kv, answer)
                  /\ pending' = (IF answer = "none" THEN Append(pending, [p EXCEPT !.tries = @ + 1])
                                                   ELSE pending)
                  /\ todo' = (IF answer = "nak" THEN <<Group(p.kv, FALSE)>> ELSE <<>>)
    /\ UNCHANGED <<module, want, pc, known, sv, relaxed, raw, round>>

(* The model, asked again until it is known.                               *)
AsksModel ==
    /\ At("retried", "plan")
    /\ \E read \in BOOLEAN :
         IF known.model \/ round # 0 THEN read /\ UNCHANGED <<known, budget>>
         ELSE PollsModel(read) /\ known' = [known EXCEPT !.model = read]
    /\ UNCHANGED <<rx, late, module, want, todo, pending, redo, sv, relaxed, raw, round>>

(* A ZED-X20P recognized only now.                                         *)
LatePlan ==
    /\ At("plan", "raw")
    /\ todo' = IF known.plan THEN <<>> ELSE Signals(known.model)
    /\ known' = [known EXCEPT !.plan = @ \/ (known.model /\ module.x20)]
    /\ UNCHANGED <<wire, module, want, pending, redo, sv, relaxed, raw, round>>

(* RXM-RAWX and RXM-SFRBX: applied only when the receiver has answered.    *)
SendsRaw ==
    /\ At("raw", "rest")
    /\ IF raw.applied = raw.want THEN UNCHANGED <<wire, raw>>
       ELSE \E answer \in {"ack", "nak", "none"} :
              /\ Valset([raw |-> raw.want], answer)
              /\ raw' = (IF answer = "none" THEN raw ELSE [raw EXCEPT !.applied = raw.want])
    /\ UNCHANGED <<module, want, todo, pending, redo, known, sv, relaxed, round>>

(* vTaskDelay(10 s).                                                       *)
Older(age) == IF age < MaxAge THEN age + 1 ELSE age
Rests ==
    /\ At("rest", "poll")
    /\ round' = (round + 1) % Period
    /\ rx' = (IF rx.survey.st = "run" THEN [rx EXCEPT !.survey.age = Older(@)] ELSE rx)
    /\ pending' = [i \in DOMAIN pending |-> [pending[i] EXCEPT !.age = Older(@)]]
    /\ UNCHANGED <<late, budget, module, want, todo, redo, known, sv, relaxed, raw>>

UbxTask ==
    \/ WaitsModel \/ SendsGroup \/ Configured \/ PollsSurvey \/ Relaxes \/ Retries
    \/ RetriesOne \/ AsksModel \/ LatePlan \/ SendsRaw \/ Rests

---------------------------------------------------------------------------
(* Around it.                                                              *)

(* The receiver reaches the precision it was asked for: with weak signals  *)
(* only the wider one.                                                     *)
SurveyEnds ==
    /\ rx.survey.st = "run" /\ (module.weak => rx.ram.acc = "wide")
    /\ rx' = [rx EXCEPT !.survey.st = "done"]
    /\ UNCHANGED <<module, want, pc, todo, pending, redo, known, sv, relaxed, raw, round,
                   late, budget>>

(* The record of raw data or the check of the position asks for them.      *)
RawWanted ==
    /\ budget.raw = 0 /\ want.role = "base"
    /\ raw' = [raw EXCEPT !.want = "on"] /\ budget' = [budget EXCEPT !.raw = 1]
    /\ UNCHANGED <<rx, module, want, pc, todo, pending, redo, known, sv, relaxed, round, late>>

(* A restart of the board: the receiver goes on, or has lost its RAM (a    *)
(* power cut, gnss_ubx_hw_reset of a receiver that is silent).             *)
Restarts ==
    /\ budget.boots < MaxBoots
    /\ budget' = [budget EXCEPT !.boots = @ + 1, !.raw = 0]
    /\ \/ rx' = [ram |-> Factory, survey |-> NoSurvey]
       \/ rx' = [rx EXCEPT !.survey.own = FALSE,
                           !.survey.age = IF rx.survey.st = "run" THEN Older(@) ELSE @]
    /\ want' \in Roles
    /\ pc' = "model" /\ todo' = <<>> /\ pending' = <<>> /\ redo' = <<>>
    /\ known' = [model |-> FALSE, plan |-> FALSE]
    /\ sv' = NoSv /\ relaxed' = FALSE /\ raw' = [want |-> "off", applied |-> "unset"]
    /\ round' = 0 /\ late' = "none"
    /\ UNCHANGED module

UbxNext == UbxTask \/ SurveyEnds \/ RawWanted \/ Restarts
UbxFairness == WF_ubxVars(UbxTask) /\ WF_ubxVars(SurveyEnds)
UbxSpec == UbxInit /\ [][UbxNext]_ubxVars /\ UbxFairness

---------------------------------------------------------------------------
UbxTypeOK ==
    /\ want \in Roles /\ pending \in Seq([kv : {g.kv : g \in Range(BaseGroups)},
                                          tries : 0..Tries, age : 0..MaxAge])
    /\ Len(pending) <= PendingMax /\ round \in 0..Period - 1
    /\ known.plan => module.x20
    /\ late \in {"none", "ack", "nak"}

(* The receiver does what a base is for: it has this role's rate and       *)
(* messages, and the position asked for at this boot.                      *)
Serving ==
    /\ rx.ram.rate = "base" /\ rx.ram.rtcm /\ rx.ram.t1005
    /\ IF want.fixed THEN rx.ram.mode = "fixed"
       ELSE rx.ram.mode = "survey" /\ rx.survey.st = "done" /\ rx.survey.own
    /\ rx.ram.raw = raw.want

(* A base ends up sending corrections with its position, whatever the      *)
(* receiver was doing before and whichever answers were lost (gnss_ubx.c:  *)
(* 195-206).  Two exceptions: signals so weak that the limit must be       *)
(* relaxed, and a group that is refused, when a command is lost as well.   *)
BaseServes ==
    <>[](want.role = "rover" \/ Serving
         \/ (budget.bad > 0 /\ (module.weak \/ ~module.all)))

(* A rover keeps nothing of the base that the receiver was before the      *)
(* restart: no fixed position, no raw data among its NMEA, the format of   *)
(* its own (gnss_ubx.c: 750-752, 793-797).  With no command lost.          *)
RoverClean ==
    (pc = "done" /\ budget.bad = 0) =>
        /\ rx.ram.mode = "off" /\ rx.ram.hp = want.measuring
        /\ rx.ram.rate = (IF want.measuring THEN "base" ELSE "rover")
        /\ rx.ram.raw = "off" /\ ~rx.ram.rtcm /\ rx.ram.plan = module.x20
==============================================================================
