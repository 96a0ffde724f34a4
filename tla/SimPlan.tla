------------------------------ MODULE SimPlan -------------------------------
(***************************************************************************)
(* The plan of the SIM: its renewals (main/sim_plan.c) and the traffic     *)
(* counted from one to the next (main/data_usage.c), which live in the NVS *)
(* one key at a time.                                                      *)
(*                                                                         *)
(* The calendar is a small one: months of Lengths[1], Lengths[2]... days,  *)
(* again and again.  A date is <<month, day>> and compares by its number.  *)
(***************************************************************************)
EXTENDS Integers, Sequences

CONSTANTS
    Lengths,     \* the days of each month of the cycle
    Months,      \* months of the run
    Every,       \* sim_renew_every_days
    PlanAhead,   \* a date is at most this many days away
    Notice1, Notice2,   \* sim_notice1_days, sim_notice2_days
    MaxTraffic, MaxSimCuts, MaxPlans

VARIABLES
    day,         \* today, as a number; the clock is right or not known
    known,
    plan,        \* sim_renew_date, sim_renew_mode, sim_renew_every_days
    sent,        \* the keys n1, n2, exp of "simplan"
    use,         \* s_month, s_day, s_cell_month
    flash,       \* the keys m, d, cm of "datause"
    saving,      \* save(): what it has still to write
    spUsed,
    contract,    \* history: the day of the month that was agreed
    real         \* history of the period: traffic spent, not yet saved, lost to cuts

planVars == <<day, known, plan, sent, use, flash, saving, spUsed, contract, real>>

---------------------------------------------------------------------------
(* Dates.                                                                  *)

LenOf(m) == Lengths[1 + (m % Len(Lengths))]
FirstOf[m \in 0..(Months + 2)] == IF m = 0 THEN 1 ELSE FirstOf[m - 1] + LenOf(m - 1)

Number(date) == FirstOf[date[1]] + date[2] - 1                 \* ymd_to_time
DateOf(n) == LET m == CHOOSE m \in 0..(Months + 1) : FirstOf[m] <= n /\ n < FirstOf[m + 1]
             IN <<m, n - FirstOf[m] + 1>>                       \* time_to_ymd
Between(a, b) == Number(b) - Number(a)                         \* days_between
AddDays(date, n) == DateOf(Number(date) + n)
AddMonths(date, n, wanted) ==
    LET m == date[1] + n IN <<m, IF wanted > LenOf(m) THEN LenOf(m) ELSE wanted>>

Today == DateOf(day)
None  == <<0, 0>>
Modes == {"single", "monthly", "days"}        \* SIM_RENEW_...

(* sim_plan_period_start, sim_plan_period_days.                            *)
PeriodStart(p, today) ==
    IF p.date = None \/ p.mode = "single" THEN <<today[1], 1>>
    ELSE IF p.mode = "monthly"
    THEN LET this == AddMonths(today, 0, p.date[2])
         IN IF Number(this) <= Number(today) THEN this ELSE AddMonths(today, -1, p.date[2])
    ELSE LET diff == Between(p.date, today)
             k    == IF diff >= 0 THEN diff \div Every
                     ELSE -((-diff + Every - 1) \div Every)
         IN AddDays(p.date, k * Every)

PeriodDays(p, start) ==
    IF p.date = None \/ p.mode = "single" THEN LenOf(start[1])
    ELSE IF p.mode = "monthly" THEN Between(start, AddMonths(start, 1, p.date[2]))
    ELSE Every

---------------------------------------------------------------------------
(* The run begins on the first day of the second month, its count begun.   *)
FirstDay == FirstOf[1]
NothingSpent == [spent |-> 0, unsaved |-> 0, lost |-> 0]

PlInit ==
    /\ day = FirstDay /\ known = FALSE
    /\ plan = [date |-> None, mode |-> "single"]
    /\ sent = [n1 |-> None, n2 |-> None, exp |-> None]
    /\ use = [month |-> <<1, 1>>, day |-> <<1, 1>>, cell |-> 0] /\ flash = use /\ saving = <<>>
    /\ spUsed = [traffic |-> 0, cuts |-> 0, plans |-> 0]
    /\ contract = 0 /\ real = NothingSpent

plRest == <<sent, use, flash, saving>>

(* The form of the panel: a date to come, monthly or every so many days.   *)
SetsPlan ==
    /\ spUsed.plans < MaxPlans /\ spUsed' = [spUsed EXCEPT !.plans = @ + 1]
    /\ saving = <<>>
    /\ \E n \in day..(day + PlanAhead), m \in Modes :
         plan' = [date |-> DateOf(n), mode |-> m] /\ contract' = DateOf(n)[2]
    /\ UNCHANGED <<day, known, real, plRest>>

ClockSet == ~known /\ known' = TRUE
            /\ UNCHANGED <<day, plan, spUsed, contract, real, plRest>>

(* A day is longer than the 30 s of a look at the period and the ten       *)
(* minutes between two saves.                                              *)
NextDay ==
    /\ day + 1 < FirstOf[Months] /\ day' = day + 1
    /\ saving = <<>>
    /\ known => /\ use.day = Today /\ use.month = PeriodStart(plan, Today)
                /\ flash.day = Today /\ flash.month = use.month
                /\ (plan.date # None /\ plan.mode # "single") => Between(Today, plan.date) >= 0
    /\ UNCHANGED <<known, plan, spUsed, contract, real, plRest>>

(* data_usage_add, on the mobile network.                                  *)
Traffic ==
    /\ spUsed.traffic < MaxTraffic /\ spUsed' = [spUsed EXCEPT !.traffic = @ + 1]
    /\ use' = [use EXCEPT !.cell = @ + 1]
    /\ real' = [real EXCEPT !.spent = @ + 1, !.unsaved = @ + 1]
    /\ UNCHANGED <<day, known, plan, sent, flash, saving, contract>>

---------------------------------------------------------------------------
(* alerts_task: sim_plan_tick.                                             *)

Recurs == plan.date # None /\ plan.mode # "single"     \* a renewal that comes again
Left   == Between(Today, plan.date)

NextRenewal ==
    LET Later(k) == IF plan.mode = "monthly" THEN AddMonths(plan.date, k, plan.date[2])
                                      ELSE AddDays(plan.date, k * Every)
        first == CHOOSE k \in 1..day : /\ Between(Today, Later(k)) >= 0
                                       /\ \A j \in 1..(k - 1) : Between(Today, Later(j)) < 0
    IN Later(first)

Renews ==
    /\ known /\ Recurs /\ Left < 0
    /\ plan' = [plan EXCEPT !.date = NextRenewal]
    /\ UNCHANGED <<day, known, spUsed, contract, real, plRest>>

(* Two notices for a renewal, remembered by its date; for a plan that ended *)
(* and does not recur one a day.                                           *)
Notices ==
    /\ known /\ plan.date # None
    /\ \/ /\ Left < 0 /\ ~Recurs /\ sent.exp # Today
          /\ sent' = [sent EXCEPT !.exp = Today]
       \/ /\ Left >= 0 /\ Left <= Notice2 /\ sent.n2 # plan.date
          /\ sent' = [sent EXCEPT !.n1 = plan.date, !.n2 = plan.date]
       \/ /\ Left <= Notice1 /\ Left > Notice2 /\ sent.n1 # plan.date
          /\ sent' = [sent EXCEPT !.n1 = plan.date]
    /\ UNCHANGED <<day, known, plan, use, flash, saving, spUsed, contract, real>>

---------------------------------------------------------------------------
(* sys_monitor_task: data_usage_tick.                                      *)

(* roll_period: a new period begins at zero.  Until the time is known it   *)
(* goes on with the period that was saved.                                 *)
Rolls ==
    /\ known /\ saving = <<>>
    /\ LET start == PeriodStart(plan, Today)
           new   == start # use.month
       IN /\ use.day # Today \/ use.month # start
          /\ use' = [month |-> start, day |-> Today, cell |-> IF new THEN 0 ELSE use.cell]
          /\ real' = IF new THEN NothingSpent ELSE real
    /\ UNCHANGED <<day, known, plan, sent, flash, saving, spUsed, contract>>

(* save, every ten minutes: the values as they are now, key after key.     *)
Saves ==
    /\ saving = <<>> /\ use # flash
    /\ saving' = <<[key |-> "month", val |-> use.month], [key |-> "day", val |-> use.day],
                   [key |-> "cell", val |-> <<use.cell, use.cell>>]>>
    /\ UNCHANGED <<day, known, plan, sent, use, flash, spUsed, contract, real>>

Writes ==
    /\ saving # <<>> /\ saving' = Tail(saving)
    /\ LET w == Head(saving)
       IN /\ flash' = CASE w.key = "month" -> [flash EXCEPT !.month = w.val]
                        [] w.key = "day"   -> [flash EXCEPT !.day = w.val]
                        [] w.key = "cell"  -> [flash EXCEPT !.cell = w.val[1]]
          /\ real' = IF w.key = "cell" THEN [real EXCEPT !.unsaved = use.cell - w.val[1]]
                                       ELSE real
    /\ UNCHANGED <<day, known, plan, sent, use, spUsed, contract>>

(* The power goes; data_usage_start, load.                                 *)
PowerCut ==
    /\ spUsed.cuts < MaxSimCuts /\ spUsed' = [spUsed EXCEPT !.cuts = @ + 1]
    /\ known' = FALSE /\ use' = flash /\ saving' = <<>>
    /\ real' = [real EXCEPT !.lost = @ + real.unsaved, !.unsaved = 0]
    /\ UNCHANGED <<day, plan, sent, flash, contract>>

---------------------------------------------------------------------------
PlNext ==
    \/ SetsPlan \/ ClockSet \/ NextDay \/ Traffic \/ PowerCut
    \/ Renews \/ Notices \/ Rolls \/ Saves \/ Writes
PlSpec == PlInit /\ [][PlNext]_planVars

---------------------------------------------------------------------------
(* The variables keep their types.                                         *)
PlTypeOK ==
    /\ day \in FirstDay..(FirstOf[Months] - 1) /\ known \in BOOLEAN
    /\ plan.mode \in Modes /\ Len(saving) <= 3
    /\ use.cell \in 0..MaxTraffic /\ flash.cell \in 0..MaxTraffic

(* Whatever the plan, today is in the period it is counted in.             *)
PeriodHoldsToday ==
    LET start == PeriodStart(plan, Today)
    IN Number(start) <= day /\ day < Number(start) + PeriodDays(plan, start)

(* At worst the traffic since the last save is lost to a power cut         *)
(* (data_usage.h:8-10): the counter is never further behind than that.     *)
TrafficCounted == real.spent - use.cell <= real.lost

(* The traffic of a period that is over is not counted again in the next:  *)
(* expected to fail, a save writes the period before its traffic.          *)
CountedOnce == (known /\ use.month = PeriodStart(plan, Today)) => use.cell <= real.spent

(* A renewal on the 31st is on the 28th only in February (sim_plan.c:      *)
(* 89-90): expected to fail, the date saved after it goes on from there.   *)
RenewalDayKept ==
    (plan.date # None /\ plan.mode = "monthly")
      => plan.date[2] = IF contract > LenOf(plan.date[1]) THEN LenOf(plan.date[1]) ELSE contract
=============================================================================
