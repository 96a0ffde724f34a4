------------------------------ MODULE License -------------------------------
(***************************************************************************)
(* The licence of the receiver (main/license.c): the key made once, the    *)
(* signed licence bound to it and the days that tell what has expired, all *)
(* in the NVS; what is granted is decided at the start and holds until the *)
(* next.                                                                   *)
(*                                                                         *)
(* Time is counted in days.  A signature is the key it is bound to.  The   *)
(* packages never expire; "extras" stands for the options that may.        *)
(***************************************************************************)
EXTENDS Integers, FiniteSetsExt

CONSTANTS
    Grace,       \* GRACE_S
    Term,        \* days from the issue to the expiry of the extras
    Ahead,       \* how far in the future a clock can be wrong
    LastDay, MaxLicCuts, MaxWrong, MaxRequests

Entries == {"dkey", "pack", "contact", "lasttime"}
NoLic   == [key |-> 0, issued |-> 0]
Empty   == [dkey |-> 0, pack |-> NoLic, contact |-> 0, lasttime |-> 0]

VARIABLES
    today,      \* the true day
    clock,      \* of the receiver: valid or not, how far ahead
    nvs,        \* the two partitions: "main" and "nvs_lic"
    twoParts,   \* the partition table has nvs_lic
    lc,         \* the program: pc and the static variables of license.c
    job,        \* the job under way: "none", or its step, with its answer
    lcUsed,     \* bounds used up
    firstKey,   \* history: the first key this receiver ever had
    bad         \* history: a day of the future has been saved

licVars == <<today, clock, nvs, twoParts, lc, job, lcUsed, firstKey, bad>>

Off == [pc |-> "off", todo |-> {}, key |-> 0, lic |-> NoLic, contact |-> 0, time |-> 0,
        stored |-> FALSE, granted |-> FALSE, suspended |-> 0, busy |-> FALSE,
        tail |-> FALSE]
Idle == [step |-> "none", lic |-> NoLic, new |-> FALSE]

(* A receiver that was activated before it had the partition, one that     *)
(* never had it, and one that is new.                                      *)
LcInit ==
    /\ today = 1 /\ clock = [valid |-> FALSE, ahead |-> 0]
    /\ twoParts \in BOOLEAN
    /\ \E used \in BOOLEAN :
         /\ nvs = [main |-> IF used THEN [dkey |-> 1, pack |-> [key |-> 1, issued |-> 1],
                                          contact |-> 1, lasttime |-> 1] ELSE Empty,
                   part |-> Empty]
         /\ firstKey = IF used THEN 1 ELSE 0
    /\ lc = Off /\ job = Idle /\ bad = FALSE
    /\ lcUsed = [cuts |-> 0, wrong |-> 0, requests |-> 0]

---------------------------------------------------------------------------
(* Around: the day, the clock, the power.                                  *)

timeOk == clock.valid
Now    == today + clock.ahead           \* time(NULL)

NextDay ==
    /\ today < LastDay /\ today' = today + 1
    /\ UNCHANGED <<clock, nvs, twoParts, lc, job, lcUsed, firstKey, bad>>

ClockSet ==
    /\ lc.pc = "up"
    /\ \/ clock # [valid |-> TRUE, ahead |-> 0] /\ clock' = [valid |-> TRUE, ahead |-> 0]
          /\ UNCHANGED lcUsed
       \/ /\ lcUsed.wrong < MaxWrong /\ clock.ahead = 0
          /\ lcUsed' = [lcUsed EXCEPT !.wrong = @ + 1]
          /\ clock' = [valid |-> TRUE, ahead |-> Ahead]
    /\ UNCHANGED <<today, nvs, twoParts, lc, job, firstKey, bad>>

PowerCut ==
    /\ lc.pc # "off" /\ lcUsed.cuts < MaxLicCuts
    /\ lcUsed' = [lcUsed EXCEPT !.cuts = @ + 1]
    /\ lc' = Off /\ job' = Idle
    /\ clock' \in {clock, [valid |-> FALSE, ahead |-> 0]}     \* kept by a mere restart
    /\ UNCHANGED <<today, nvs, twoParts, firstKey, bad>>

---------------------------------------------------------------------------
(* license_init.                                                           *)

IsSet(p, e)  == nvs[p][e] # Empty[e]
Present(p)   == {e \in Entries : IsSet(p, e)}
Store        == IF twoParts THEN nvs.part ELSE nvs.main     \* lic_open
Put(e, v)    == nvs' = IF twoParts THEN [nvs EXCEPT !.part[e] = v] ELSE [nvs EXCEPT !.main[e] = v]

(* lic_storage_init, lic_migrate: a partition with anything in it has been *)
(* filled already.  (nvs_lic that cannot be read is not modelled.)         *)
PowerOn ==
    /\ lc.pc = "off"
    /\ lc' = IF twoParts /\ Present("part") = {} /\ Present("main") # {}
             THEN [lc EXCEPT !.pc = "migrate", !.todo = Present("main")]
             ELSE [lc EXCEPT !.pc = "start"]
    /\ UNCHANGED <<today, clock, nvs, twoParts, job, lcUsed, firstKey, bad>>

(* lic_copy_entry, in whatever order the entries are found; each is in the *)
(* flash at once.                                                          *)
Migrates ==
    /\ lc.pc = "migrate"
    /\ \/ \E e \in lc.todo : /\ nvs' = [nvs EXCEPT !.part[e] = nvs.main[e]]
                             /\ lc' = [lc EXCEPT !.todo = @ \ {e}]
       \/ lc.todo = {} /\ lc' = [lc EXCEPT !.pc = "start"] /\ UNCHANGED nvs
    /\ UNCHANGED <<today, clock, twoParts, job, lcUsed, firstKey, bad>>

LoadTimes(l) == [l EXCEPT !.contact = Store.contact, !.time = Store.lasttime]

(* load_or_create_device_key, made only when there is none.  A key counts  *)
(* as new when the receiver has had one before.                            *)
LoadsKey ==
    /\ lc.pc = "start"
    /\ LET k == IF Store.dkey # 0 THEN Store.dkey ELSE firstKey + 1
       IN /\ Put("dkey", k)
          /\ lc' = LoadTimes([lc EXCEPT !.pc = "key", !.key = k])
          /\ firstKey' = IF firstKey = 0 THEN k ELSE firstKey
    /\ UNCHANGED <<today, clock, twoParts, job, lcUsed, bad>>

(* parse_license, verify_sig: bound to this key, or not valid.             *)
Verified(pack, key) == IF pack.key = key THEN pack ELSE NoLic
LoadStored == Verified(Store.pack, lc.key)

(* boot_task: the latest day that is surely past stands for today; extras  *)
(* that have not expired, unless the licence should have been renewed and  *)
(* nothing was heard from the server for Grace days.                       *)
Latest(l, contact, time) == Max({IF timeOk THEN Now ELSE 0, l.issued, contact, time})
RenewAfter(l) == l.issued + 1
Expiry(l)     == l.issued + Term
Ref(l, contact) == Max({contact, l.issued})
Silent(l, contact, now) == now - Ref(l, contact)
Unexpired(l, now) == l # NoLic /\ Expiry(l) > now
IsSuspended(l, contact, now) ==
    Unexpired(l, now) /\ now >= RenewAfter(l) /\ Silent(l, contact, now) > Grace

Grants ==
    /\ lc.pc = "key"
    /\ LET l   == LoadStored
           now == Latest(l, lc.contact, lc.time)
           out == IsSuspended(l, lc.contact, now)
       IN lc' = [lc EXCEPT !.pc = "up", !.lic = l, !.stored = Store.pack # NoLic,
                           !.granted = Unexpired(l, now) /\ ~out,
                           !.suspended = IF out THEN Silent(l, lc.contact, now) ELSE 0]
    /\ UNCHANGED <<today, clock, nvs, twoParts, job, lcUsed, firstKey, bad>>

---------------------------------------------------------------------------
(* The tasks: alerts_task (license_tick), the panel, the job.              *)

(* store_last_time: never an older day than the one in the NVS.            *)
TickTime ==
    /\ lc.pc = "up" /\ timeOk /\ Now > lc.time
    /\ IF Store.lasttime >= Now
       THEN lc' = [lc EXCEPT !.time = Store.lasttime] /\ UNCHANGED <<nvs, bad>>
       ELSE /\ lc' = [lc EXCEPT !.time = Now] /\ Put("lasttime", Now)
            /\ bad' = (bad \/ clock.ahead > 0)
    /\ UNCHANGED <<today, clock, twoParts, job, lcUsed, firstKey>>

Due == lc.lic = NoLic \/ Now >= RenewAfter(lc.lic) \/ Now - lc.contact > 1

Starts(step) ==      \* start_job, take_busy
    /\ lcUsed.requests < MaxRequests
    /\ lcUsed' = [lcUsed EXCEPT !.requests = @ + 1]
    /\ ~lc.busy /\ lc' = [lc EXCEPT !.busy = TRUE] /\ job' = [Idle EXCEPT !.step = step]
    /\ UNCHANGED <<today, clock, nvs, twoParts, firstKey, bad>>

(* license_request_renew, from license_tick when due or from the panel.    *)
TickRenew  == lc.pc = "up" /\ (lc.lic # NoLic \/ lc.stored) /\ timeOk /\ Due /\ Starts("renew")
PanelRenew == lc.pc = "up" /\ (lc.lic # NoLic \/ lc.stored) /\ Starts("renew")
Activate   == lc.pc = "up" /\ Starts("activate")

(* post_signed: no answer, or a licence the server does not know the key   *)
(* of; 304; or a new licence, signed today.                                *)
ServerKnows == lc.key = firstKey
Asking      == job.step \in {"activate", "renew"}
Answered    == Asking /\ ServerKnows

JobEnds(l) == /\ lc' = [l EXCEPT !.busy = FALSE] /\ job' = Idle

Fails ==
    /\ Asking /\ JobEnds(lc)
    /\ UNCHANGED <<today, clock, nvs, twoParts, lcUsed, firstKey, bad>>

Unchanged304 ==
    /\ Answered /\ job.step = "renew" /\ lc.lic # NoLic
    /\ job' = [job EXCEPT !.step = "contact"]
    /\ UNCHANGED <<today, clock, nvs, twoParts, lc, lcUsed, firstKey, bad>>

(* accept_license: licence, signature and key name in one blob.            *)
StoresPack(l) == Put("pack", l)

Accepts ==
    /\ Answered
    /\ LET l == [key |-> lc.key, issued |-> today]
       IN /\ StoresPack(l)
          /\ job' = [step |-> "ram", lic |-> l, new |-> lc.lic = NoLic \/ today > lc.lic.issued]
    /\ UNCHANGED <<today, clock, twoParts, lc, lcUsed, firstKey, bad>>

TakesOver ==
    /\ job.step = "ram"
    /\ lc' = [lc EXCEPT !.lic = job.lic, !.stored = TRUE]
    /\ job' = [job EXCEPT !.step = IF job.new THEN "reset" ELSE "contact"]
    /\ UNCHANGED <<today, clock, nvs, twoParts, lcUsed, firstKey, bad>>

(* reset_last_time: the day of the server counts.                          *)
ResetsTime ==
    /\ job.step = "reset" /\ job' = [job EXCEPT !.step = "contact"]
    /\ IF lc.time > job.lic.issued + 1
       THEN Put("lasttime", job.lic.issued) /\ lc' = [lc EXCEPT !.time = job.lic.issued]
       ELSE UNCHANGED <<nvs, lc>>
    /\ UNCHANGED <<today, clock, twoParts, lcUsed, firstKey, bad>>

(* note_contact: the issue of a new licence, else the clock if it is valid.*)
NotesContact ==
    /\ job.step = "contact"
    /\ LET day == IF job.new THEN job.lic.issued ELSE Now
       IN IF job.new \/ timeOk
          THEN Put("contact", day) /\ JobEnds([lc EXCEPT !.contact = day])
          ELSE JobEnds(lc) /\ UNCHANGED nvs
    /\ bad' = IF job.new THEN Store.lasttime > today + 1 ELSE bad \/ (timeOk /\ clock.ahead > 0)
    /\ UNCHANGED <<today, clock, twoParts, lcUsed, firstKey>>

(* license_forget: first the licence, then the days; busy goes before the  *)
(* last two assignments.                                                   *)
Forgets == lc.pc = "up" /\ Starts("forget")

ErasesPack ==
    /\ job.step = "forget" /\ Put("pack", NoLic) /\ job' = [job EXCEPT !.step = "forget2"]
    /\ UNCHANGED <<today, clock, twoParts, lc, lcUsed, firstKey, bad>>

ErasesDays ==
    /\ job.step = "forget2"
    /\ LET p == IF twoParts THEN "part" ELSE "main"
       IN nvs' = [nvs EXCEPT ![p].contact = 0, ![p].lasttime = 0]
    /\ JobEnds([lc EXCEPT !.lic = NoLic, !.time = 0, !.tail = TRUE])
    /\ UNCHANGED <<today, clock, twoParts, lcUsed, firstKey, bad>>

ForgetEnds ==
    /\ lc.tail /\ lc' = [lc EXCEPT !.tail = FALSE, !.contact = 0, !.stored = FALSE]
    /\ UNCHANGED <<today, clock, nvs, twoParts, job, lcUsed, firstKey, bad>>

---------------------------------------------------------------------------
LcNext ==
    \/ NextDay \/ ClockSet \/ PowerCut
    \/ PowerOn \/ Migrates \/ LoadsKey \/ Grants
    \/ TickTime \/ TickRenew \/ PanelRenew \/ Activate
    \/ Fails \/ Unchanged304 \/ Accepts \/ TakesOver \/ ResetsTime \/ NotesContact
    \/ Forgets \/ ErasesPack \/ ErasesDays \/ ForgetEnds
LcSpec == LcInit /\ [][LcNext]_licVars

---------------------------------------------------------------------------
(* The variables keep their types.                                         *)
LcTypeOK ==
    /\ lc.pc \in {"off", "migrate", "start", "key", "up"} /\ lc.todo \subseteq Entries
    /\ \A p \in {"main", "part"} :
         nvs[p].contact \in 0..(LastDay + Ahead) /\ nvs[p].lasttime \in 0..(LastDay + Ahead)
    /\ job.step \in {"none", "activate", "renew", "ram", "reset", "contact", "forget", "forget2"}
    /\ lc.busy = (job.step # "none")

(* With no operation under way the licence in use is the one in the flash: *)
(* a renewal that overlapped a "forget" would bring one back without the   *)
(* other (license.c:897-906).                                              *)
LicenceIsStored ==
    (lc.pc = "up" /\ ~lc.busy) => lc.lic = LoadStored

(* A start withholds no extra that has not expired while the server was    *)
(* heard of lately; not even after a wrong clock, once the server has      *)
(* signed a new licence (license.c:585-588, 731-741).                      *)
Deserved ==
    LET l == LoadStored
    IN l # NoLic /\ Expiry(l) > today + 1 /\ Silent(l, Store.contact, today) < Grace
NothingWithheld ==
    [][(lc.pc = "key" /\ lc'.pc = "up" /\ Deserved /\ ~bad /\ clock.ahead = 0)
         => lc'.granted]_licVars

(* "NEVER make it again, the licence is bound to this key" (license.c:     *)
(* 297-300, 306-309): expected to fail, the power goes while the licence   *)
(* is copied and the copy counts as done (license.c:92-95).                *)
KeyKept == lc.key # 0 => lc.key = firstKey
=============================================================================
