----------------------------- MODULE BaseMeasure -----------------------------
(***************************************************************************)
(* The measure of the position of the base (main/base_measure.c) and the   *)
(* panel's requests about it (main/web_ui.c): the base restarts as a       *)
(* rover, averages RTK positions for minutes or Galileo HAS positions for  *)
(* hours, saves the coordinates and restarts as a base.                    *)
(*                                                                         *)
(* cfg is the configuration in NVS, which RAM equals (settings_update      *)
(* changes both).  A tick of a task is a stretch of its loop, in which the *)
(* receiver gives samples of one sort.                                     *)
(***************************************************************************)
EXTENDS Integers

CONSTANTS
    FixedTarget, FixedMin, FloatMin,  \* MEASURE_..., in ticks
    Timeout, NoCaster,                \* MEASURE_TIMEOUT_S, MEASURE_NO_CASTER_S
    Warmup, SaveEvery, NoData,        \* HAS_WARMUP_S, HAS_SAVE_EVERY_S, HAS_NO_DATA_S
    MinGood, Hours,                   \* HAS_MIN_PPP_N, hours asked for
    MaxRequests, MaxCuts              \* bounds: requests of the panel, power cuts

VARIABLES
    cfg,       \* base_measure_active, _method, device_mode, _msg and the fixed coordinates
    saved,     \* s_has in NVS ("basemeas"/"has")
    task,      \* measure_task or has_task: what it is, what it does next, with what
    acc,       \* s_fixed, s_float, s_has, elapsed
    httpd,     \* base_measure_post_handler
    licensed,  \* license_has(LIC_BASE)
    on,        \* between app_main and a reset
    budget,    \* requests and power cuts so far
    asked      \* history: the number of measures asked for

bmVars == <<cfg, saved, task, acc, httpd, licensed, on, budget, asked>>

None   == [of |-> 0, done |-> 0, good |-> 0]
NoAcc  == [elapsed |-> 0, fixed |-> 0, float |-> 0, never |-> TRUE,
           has |-> None, base |-> 0, last |-> 0, quiet |-> 0]
Task(kind, next) == [is |-> kind, do |-> next, ok |-> FALSE, of |-> asked]
NoTask == [is |-> "none", do |-> "run", ok |-> FALSE, of |-> 0]
Idle   == [act |-> "none", do |-> "idle"]

BmInit ==
    /\ cfg = [active |-> FALSE, method |-> "rtk", mode |-> "base", msg |-> "none",
              pos |-> [of |-> 0, from |-> "installer"]]
    /\ saved = None /\ task = NoTask /\ acc = NoAcc /\ httpd = Idle
    /\ licensed \in BOOLEAN /\ on = FALSE
    /\ budget = [requests |-> 0, cuts |-> 0]
    /\ asked = 0

---------------------------------------------------------------------------
(* Boot, reset.                                                            *)

(* has_load: the progress of a measure that was interrupted.               *)
HasLoad == [NoAcc EXCEPT !.has = saved, !.base = saved.done, !.last = saved.done]

(* base_measure_start_if_active: without the license the measure ends.     *)
StartIfActive ==
    /\ ~on /\ on' = TRUE
    /\ task' = CASE ~cfg.active -> NoTask
                 [] cfg.active /\ ~licensed -> Task("main", "clear")
                 [] cfg.active /\ licensed -> Task(cfg.method, "run")
    /\ acc' = IF cfg.active /\ licensed /\ cfg.method = "has" THEN HasLoad ELSE NoAcc
    /\ UNCHANGED <<cfg, saved, httpd, licensed, budget, asked>>

Off == on' = FALSE /\ task' = NoTask /\ acc' = NoAcc /\ httpd' = Idle

PowerCut ==
    /\ on /\ budget.cuts < MaxCuts /\ budget' = [budget EXCEPT !.cuts = @ + 1]
    /\ Off /\ UNCHANGED <<cfg, saved, licensed, asked>>

LicenseChanges == on /\ licensed' = ~licensed /\ asked = 1 /\ httpd = Idle
                  /\ UNCHANGED <<cfg, saved, task, acc, httpd, on, budget, asked>>

---------------------------------------------------------------------------
(* measure_task: one tick of samples, then the ends it looks for, in this  *)
(* order.                                                                  *)

Running(kind) == on /\ task.is = kind /\ task.do = "run"

Finish(ok) == task' = [task EXCEPT !.do = IF task.is = "has" THEN "clear" ELSE "save", !.ok = ok]

RtkEnds(a) ==
    CASE a.never /\ a.elapsed >= NoCaster -> Finish(FALSE)
      [] OTHER ->
         CASE a.fixed >= FixedTarget -> Finish(TRUE)
           [] a.fixed < FixedTarget /\ a.elapsed >= Timeout ->
                Finish(a.fixed >= FixedMin \/ a.float >= FloatMin)
           [] OTHER -> UNCHANGED task

(* A sample far from the mean counts for nothing.                          *)
Averaged(a, sample) ==
    [a EXCEPT !.fixed = IF sample = "fixed" THEN @ + 1 ELSE @,
              !.float = IF sample = "float" THEN @ + 1 ELSE @]

MeasureTick == \E sample \in {"none", "fixed", "float", "outlier"}, connected \in BOOLEAN :
    /\ Running("rtk")
    /\ sample # "none" => connected \/ ~acc.never
    /\ acc' = [Averaged(acc, sample) EXCEPT !.elapsed = @ + 1, !.never = @ /\ ~connected]
    /\ RtkEnds(acc')
    /\ UNCHANGED <<cfg, saved, httpd, licensed, on, budget, asked>>

(* What the fixed position is then made of.                                *)
From == CASE task.is = "has" -> "has"
          [] task.is # "has" /\ acc.fixed >= FixedMin -> "fixed"
          [] OTHER -> "float"

---------------------------------------------------------------------------
(* has_task.  A solution that is not PPP, has old corrections, too much    *)
(* uncertainty or a jump is bad: it is seen, and not averaged.             *)

HasDone(a) == a.base + (IF a.elapsed > Warmup THEN a.elapsed - Warmup ELSE 0)

(* Mutant: a save every ten minutes and one.                               *)
HasSavesLate(a) == a.has.done - a.last > SaveEvery

(* Every ten minutes of measure the progress goes to NVS (has_save).       *)
HasSaves(a) == a.has.done - a.last >= SaveEvery

(* has_is_jump and the other tests: only a good one, after the warm-up.    *)
HasAveraged(a, sol) == IF a.elapsed >= Warmup /\ sol = "good" THEN a.has.good + 1 ELSE a.has.good

(* The count after one more tick with such a solution.                     *)
HasNow(sol) ==
    LET one == [acc EXCEPT !.elapsed = @ + 1, !.quiet = IF sol = "none" THEN @ + 1 ELSE 0]
    IN  [one EXCEPT !.has.of = IF @ = 0 THEN task.of ELSE @, !.has.done = HasDone(one),
                    !.has.good = HasAveraged(acc, sol)]

HasEnds(a) ==
    CASE a.quiet >= NoData -> Finish(FALSE)
      [] a.quiet < NoData /\ a.has.done >= Hours -> Finish(a.has.good >= MinGood)
      [] OTHER -> UNCHANGED task

HasTick == \E sol \in {"none", "bad", "good"} :
    /\ Running("has")
    /\ LET now == HasNow(sol)
       IN  /\ acc' = IF HasSaves(now) THEN [now EXCEPT !.last = now.has.done] ELSE now
           /\ saved' = IF now.quiet < NoData /\ HasSaves(now) THEN now.has ELSE saved
           /\ HasEnds(now)
    /\ UNCHANGED <<cfg, httpd, licensed, on, budget, asked>>

---------------------------------------------------------------------------
(* finish_at, three steps apart: the progress is erased (has_clear), the   *)
(* outcome saved, and a second later the board restarts.                   *)

FinishClear ==
    /\ on /\ task.do = "clear" /\ saved' = None
    /\ task' = [task EXCEPT !.do = "save"]
    /\ UNCHANGED <<cfg, acc, httpd, licensed, on, budget, asked>>

FinishSave ==
    /\ on /\ task.do = "save"
    /\ cfg' = [cfg EXCEPT !.active = FALSE, !.mode = "base",
                          !.msg = IF task.ok THEN "done" ELSE "failed",
                          !.pos = IF task.ok THEN [of |-> task.of, from |-> From] ELSE @]
    /\ task' = [task EXCEPT !.do = "restart"]
    /\ UNCHANGED <<saved, acc, httpd, licensed, on, budget, asked>>

FinishRestart ==
    /\ on /\ task.do = "restart" /\ Off
    /\ UNCHANGED <<cfg, saved, licensed, budget, asked>>

---------------------------------------------------------------------------
(* base_measure_post_handler.                                              *)

Request == \E act \in {"rtk", "has", "cancel"} :
    /\ on /\ httpd = Idle /\ budget.requests < MaxRequests
    /\ budget' = [budget EXCEPT !.requests = @ + 1]
    /\ CASE act \in {"rtk", "has"} ->
              IF licensed THEN httpd' = [act |-> act, do |-> IF act = "has" THEN "clear" ELSE "save"]
              ELSE UNCHANGED httpd
         \* progress.active, then the peek of base_measure_request_cancel
         [] act = "cancel" ->
              IF task.is \in {"rtk", "has"} /\ cfg.active THEN httpd' = [act |-> act, do |-> "save"]
              ELSE UNCHANGED httpd
    /\ UNCHANGED <<cfg, saved, task, acc, licensed, on, asked>>

HttpdClear ==
    /\ on /\ httpd.do = "clear" /\ saved' = None
    /\ httpd' = [httpd EXCEPT !.do = IF httpd.act = "has" THEN "save" ELSE "restart"]
    /\ UNCHANGED <<cfg, task, acc, licensed, on, budget, asked>>

HttpdStart ==
    /\ on /\ httpd.do = "save" /\ httpd.act # "cancel"
    /\ cfg' = [cfg EXCEPT !.active = TRUE, !.method = httpd.act, !.mode = "rover",
                          !.msg = "running"]
    /\ httpd' = [httpd EXCEPT !.do = "restart"]
    /\ asked' = asked + 1
    /\ UNCHANGED <<saved, task, acc, licensed, on, budget>>

HttpdCancel ==
    /\ on /\ httpd.do = "save" /\ httpd.act = "cancel"
    /\ cfg' = [cfg EXCEPT !.active = FALSE, !.mode = "base", !.msg = "cancelled"]
    /\ httpd' = [httpd EXCEPT !.do = "clear"]
    /\ UNCHANGED <<saved, task, acc, licensed, on, budget, asked>>

HttpdRestart ==
    /\ on /\ httpd.do = "restart" /\ Off
    /\ UNCHANGED <<cfg, saved, licensed, budget, asked>>

---------------------------------------------------------------------------
Measures == MeasureTick \/ HasTick \/ FinishClear \/ FinishSave \/ FinishRestart
Serves   == HttpdClear \/ HttpdStart \/ HttpdCancel \/ HttpdRestart

BmNext == StartIfActive \/ Measures \/ Serves \/ Request \/ PowerCut \/ LicenseChanges

(* The board boots and its tasks run.                                      *)
BmFairness == WF_bmVars(StartIfActive) /\ WF_bmVars(Measures) /\ WF_bmVars(Serves)
BmSpec == BmInit /\ [][BmNext]_bmVars /\ BmFairness

---------------------------------------------------------------------------
BmTypeOK ==
    /\ cfg.mode \in {"base", "rover"} /\ cfg.method \in {"rtk", "has"}
    /\ cfg.active => cfg.mode = "rover"
    /\ acc.elapsed \in 0 .. Timeout + Warmup + Hours
    /\ task.is \in {"none", "main", "rtk", "has"} /\ httpd.act \in {"none", "rtk", "has", "cancel"}

(* Hours are not lost to a power cut (base_measure.c:71): of a measure     *)
(* that runs, and that the panel is not ending or starting again, NVS has  *)
(* all but the last ten minutes.                                           *)
CutCostsLittle ==
    [][PowerCut /\ Running("has") /\ httpd = Idle =>
          saved.done + SaveEvery > acc.has.done]_bmVars

(* The same of a measure that is being concluded: has_finish erases the    *)
(* progress before the outcome is saved.                                   *)
HoursKept ==
    [][PowerCut /\ cfg.active /\ task.is = "has" /\ task.ok /\ httpd = Idle =>
          saved.done + SaveEvery > acc.has.done]_bmVars

(* A measure ends whatever cuts it, and the board is a base again.        *)
MeasureEnds == []<>(cfg.mode = "base" /\ ~cfg.active)
=============================================================================
