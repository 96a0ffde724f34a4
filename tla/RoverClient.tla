------------------------------ MODULE RoverClient ------------------------------
(***************************************************************************)
(* ntrip_rover_client_task: the rover reads its settings, chooses a base   *)
(* when the choice is automatic, connects to it, passes the corrections on *)
(* to the receiver, and at the end of the session judges the base.  The    *)
(* caster, the bases, the link, the sky and the panel act beside it.       *)
(*                                                                         *)
(* A tick is one attempt: a wait between two (5 s to 120 s, with the 20 s   *)
(* that recv waits for a mute base), or as long a piece of a session that  *)
(* receives.  No-RTK time is long enough (30 s) from one tick to the next. *)
(***************************************************************************)
EXTENDS BaseAuto

CONSTANTS
    Check,        \* BASE_AUTO_CHECK_S; the check after a failed one comes in one tick
    Rejections,   \* error replies in a row that count as a refusal (3)
    Hold,         \* ticks the receiver stays in RTK without corrections
    Kinds,        \* what bases may do, of those below
    Skies,        \* fixes the receiver may get, of those below
    Tables,       \* bases the table may list with coordinates
    Settings,     \* what the panel may save
    Changes,      \* what may change beside the task, of those below
    MaxChanges    \* how often

ASSUME ClientAssumption ==
    /\ NoBase \notin Bases
    /\ Check \in Nat \ {0} /\ Rejections \in Nat \ {0} /\ Hold \in Nat
    /\ Kinds \subseteq {"sends", "mute", "refuses", "errs"}
    /\ Skies \subseteq {"none", "single", "rtk"}
    /\ Tables \subseteq SUBSET Bases
    /\ Settings \subseteq [auto : BOOLEAN, mount : Bases, account : {1, 2}]
    /\ Changes \subseteq {"kind", "place", "sky", "table", "net", "route", "drop", "save"}
    /\ MaxChanges \in Nat

VARIABLES
    \* the world
    kind,      \* what each base does when the rover connects to it
    table,     \* bases listed with their coordinates
    readable,  \* the caster gives its table
    place, sky,
    net,       \* the caster can be reached
    saved,     \* app_settings_t, as far as the rover reads it
    changes,   \* how much has changed so far
    missed,    \* history: the last save came while the task was reading the settings
    age,       \* ticks since the receiver got a correction
    \* the task
    pc,
    cfg,       \* s_task_cfg: rover_mountpoint and the credentials
    a,         \* s_auto: enabled, first, current, fallback, check (ticks to the
               \* next reading of the table), calm (no RTK for a while), rtk and
               \* pos (last sample), got (got_from)
    silent, rej,   \* base and count: s_auto.silent, rej_name and rej_count
    bans,      \* s_auto.bans
    unread,    \* settings_generation differs from s_auto.gen
    rerouted,  \* net_route_id differs from that of the session
    session    \* of the session: open, whether it got data, why it ended

world == <<kind, table, readable, place, sky, net, saved, changes, missed>>
auto  == <<a, bans, silent, rej>>
vars  == <<world, age, pc, cfg, auto, unread, rerouted, session>>

NoPlace == "no place"
Closed  == [open |-> FALSE, got |-> FALSE, why |-> "lost"]
Nobody  == [name |-> NoBase, count |-> 0]

Fix == IF sky = "rtk" /\ age >= Hold THEN "single" ELSE sky

(* The types; of the list of exclusions, that it never outgrows its slots. *)
TypeOK ==
    /\ kind \in [Bases -> Kinds] /\ table \in Tables /\ readable \in BOOLEAN
    /\ place \in Places /\ sky \in Skies /\ net \in BOOLEAN
    /\ saved \in Settings /\ changes \in 0 .. MaxChanges
    /\ missed \in BOOLEAN /\ age \in 0 .. Hold
    /\ pc \in {"top", "read", "gen", "table", "connect", "session", "compare", "end", "wait"}
    /\ cfg \in [mount : Bases \union {NoBase}, account : {1, 2}]
    /\ a \in [on : BOOLEAN, first : BOOLEAN, check : 0 .. Check, calm : BOOLEAN,
              current : Bases \union {NoBase}, fallback : Bases \union {NoBase},
              rtk : BOOLEAN, pos : Places \union {NoPlace}, got : Bases \union {NoBase}]
    /\ silent \in [name : Bases \union {NoBase}, count : 0 .. Sessions]
    /\ rej \in [name : Bases \union {NoBase}, count : 0 .. Rejections]
    /\ bans \in [Bases -> BanType]
    /\ Cardinality({b \in Bases : bans[b] # Free}) <= Slots
    /\ unread \in BOOLEAN /\ rerouted \in BOOLEAN
    /\ session \in [open : BOOLEAN, got : BOOLEAN,
                    why : {"lost", "settings", "route", "switch"}]

-----------------------------------------------------------------------------
(* What the task does to its own record *)

(* Mutant: only the initial base is asked about. *)
DeliveredHome(x) == x.got # NoBase /\ x.got = x.fallback

(* auto_current_delivered: the RTK fix, if any, comes from the base in use. *)
Delivered(x) == x.got # NoBase /\ x.got = x.current

(* auto_read_settings *)
SettingsRead(x) ==
    LET anew == (saved.auto /\ ~x.on) \/ saved.mount # x.fallback
    IN  [x EXCEPT !.on = saved.auto, !.fallback = saved.mount,
                  !.current = IF @ = NoBase THEN saved.mount ELSE @,
                  !.first = @ \/ anew, !.check = IF anew THEN 0 ELSE @]

(* auto_sample *)
Sampled(x) ==
    [x EXCEPT !.rtk = (Fix = "rtk"), !.calm = @ /\ Fix # "rtk",
              !.pos = IF Fix = "none" THEN @ ELSE place]

(* auto_check, up to the table: whether it is worth the traffic. *)
Due(x) ==
    /\ x.on /\ x.pos # NoPlace
    /\ x.first \/ (x.check = 0 /\ ~(Delivered(x) /\ (x.rtk \/ ~x.calm)))

(* No base in the table, or a fix that is held: what follows a check that  *)
(* left an excluded base in use.                                           *)
NextCheck(x, reason) ==
    IF reason \in {"unread", "rtk"} /\ x.current # NoBase /\ Banned(bans, x.current)
    THEN 1 ELSE Check

(* ntrip_rover_client_fetch_mountpoints *)
Fetched == net /\ readable

(* base_auto_choose_ex as auto_check calls it: an RTK fix that does not    *)
(* come from the base in use counts as none.                               *)
Verdict(x) ==
    IF ~Fetched THEN "unread"
    ELSE Choose(table, x.pos, x.current, Delivered(x) /\ x.rtk, ~Delivered(x) \/ x.calm,
                x.first, bans)

(* auto_check, from the table on *)
Checked(x) ==
    LET why == Verdict(x)
    IN  [x EXCEPT !.first = FALSE, !.check = NextCheck(x, why),
                  !.current = IF why = "change" THEN Nearest(Usable(table, bans), x.pos) ELSE @]

(* The base in use has just been excluded. *)
Moved(x, verdict) ==
    CASE verdict = "fallback" -> [x EXCEPT !.current = x.fallback]
      [] verdict = "rechoose" -> [x EXCEPT !.first = TRUE, !.check = 0]
      [] verdict = "renewed"  -> x

(* One tick for everything that has a time. *)
Pass ==
    /\ bans' = Aged(bans)
    /\ age' = IF age < Hold THEN age + 1 ELSE age
(* Mutant: the reading of the table never falls due by itself. *)
LaterNoCheck(x) == [x EXCEPT !.calm = TRUE]

Later(x) == [x EXCEPT !.check = IF @ > 0 THEN @ - 1 ELSE 0, !.calm = TRUE]

-----------------------------------------------------------------------------
(* The steps of the task *)

(* net_wait_ready gives up after 30 s; settings_get_into, the first of     *)
(* three readings: the credentials, the choice, and the generation.        *)
Top ==
    /\ pc = "top" /\ pc' = "read"
    /\ cfg' = [mount |-> saved.mount, account |-> saved.account] /\ missed' = FALSE
    /\ UNCHANGED <<kind, table, readable, place, sky, net, saved, changes, age, auto,
                   unread, rerouted, session>>

Read ==
    /\ pc = "read" /\ pc' = "gen" /\ a' = SettingsRead(a)
    /\ UNCHANGED <<world, age, cfg, silent, rej, bans, unread, rerouted, session>>

(* The generation is read last, and stands for all that was read before.   *)
Begin ==
    LET y == Sampled(a)
        z == IF y.first /\ y.pos = NoPlace THEN [y EXCEPT !.current = y.fallback] ELSE y
    IN  /\ pc = "gen" /\ unread' = FALSE
        /\ IF a.on
           THEN a' = z /\ pc' = IF Due(z) THEN "table" ELSE "connect"
           ELSE a' = [a EXCEPT !.current = cfg.mount] /\ pc' = "connect"
        /\ cfg' = [cfg EXCEPT !.mount = a'.current]
        /\ UNCHANGED <<world, age, silent, rej, bans, rerouted, session>>

(* The table may take its time: what was sampled before it is used after. *)
Table ==
    /\ pc = "table" /\ a' = Checked(a)
    /\ IF session.open
       THEN IF Verdict(a) = "change"
            THEN pc' = "end" /\ session' = [session EXCEPT !.why = "switch"] /\ UNCHANGED cfg
            ELSE pc' = "session" /\ UNCHANGED <<session, cfg>>
       ELSE pc' = "connect" /\ cfg' = [cfg EXCEPT !.mount = a'.current] /\ UNCHANGED session
    /\ UNCHANGED <<world, age, silent, rej, bans, unread, rerouted>>

(* What the caster's reply says: of the account (401, 402, 429), or of the *)
(* mountpoint (403, 404, the table instead).                               *)
OfAccount    == cfg.account # 1
OfMountpoint == ~OfAccount /\ kind[cfg.mount] = "refuses"

(* ntrip_rover_connect *)
Reply ==
    CASE ~net \/ OfAccount         -> "failed"
      [] net /\ OfMountpoint       -> "refused"
      [] OTHER -> IF kind[cfg.mount] = "errs" THEN "rejected" ELSE "accepted"

(* The connection fails: the third error reply in a row counts as a   *)
(* refusal, a failed link for nothing.                                     *)
Rejected ==
    LET base   == a.current
        count  == (IF rej.name = base THEN rej.count ELSE 0)
                  + (IF Reply = "rejected" THEN 1 ELSE 0)
        giveUp == Reply = "refused" \/ count >= Rejections
    IN  /\ rej' = [name |-> base, count |-> IF giveUp THEN 0 ELSE count]
        /\ IF a.on /\ giveUp
           THEN /\ bans' \in BanAdd(bans, base)
                /\ a' = Moved(a, IF FallbackFree(bans', base, a.fallback)
                                 THEN "fallback" ELSE "rechoose")
           ELSE UNCHANGED <<a, bans>>
        /\ pc' = "wait" /\ UNCHANGED <<age, session>>

(* The first corrections may come with the reply. *)
Accepted ==
    \E extra \in {FALSE, kind[cfg.mount] = "sends"} :
        /\ session' = [open |-> TRUE, got |-> extra, why |-> "lost"]
        /\ a' = [a EXCEPT !.calm = FALSE, !.got = IF extra THEN cfg.mount ELSE @]
        /\ bans' = IF extra THEN Forgive(bans, cfg.mount) ELSE bans
        /\ age' = IF extra THEN 0 ELSE age
        /\ rej' = [rej EXCEPT !.count = 0]
        /\ pc' = "session"

Connect ==
    /\ pc = "connect" /\ rerouted' = FALSE
    /\ IF Reply = "accepted" THEN Accepted ELSE Rejected
    /\ UNCHANGED <<world, cfg, silent, unread>>

(* Mutant: the credentials are not compared. *)
DiffersMount(x) == ~x.on /\ saved.mount # cfg.mount

(* What peek_rover_changed compares. *)
Differs(x) == \/ saved.account # cfg.account
              \/ ~x.on /\ saved.mount # cfg.mount

(* The settings, the link and the base are looked at, in this order.       *)
LookedAt(x, differs) ==
    LET y   == IF x.on THEN Sampled(x) ELSE x
        why == IF differs THEN "settings" ELSE IF rerouted THEN "route" ELSE "lost"
    IN  /\ session' = [session EXCEPT !.got = TRUE, !.why = why]
        /\ a' = IF why = "lost" THEN y ELSE x
        /\ pc' = IF why # "lost" THEN "end" ELSE IF Due(y) THEN "table" ELSE "session"

(* recv returns corrections, which go to the receiver.  Where the          *)
(* generation has moved, the choice is read again.                         *)
Receive ==
    LET heard == [Later(a) EXCEPT !.got = cfg.mount]
    IN  /\ pc = "session" /\ net /\ kind[cfg.mount] = "sends"
        /\ IF unread
           THEN /\ a' = SettingsRead(heard) /\ pc' = "compare"
                /\ session' = [session EXCEPT !.got = TRUE]
           ELSE LookedAt(heard, FALSE)
        /\ bans' = Aged(IF session.got THEN bans ELSE Forgive(bans, cfg.mount))
        /\ age' = 0 /\ UNCHANGED <<world, cfg, silent, rej, unread, rerouted>>

(* Then the generation, and the settings are compared with those in use.   *)
Compare ==
    /\ pc = "compare" /\ unread' = FALSE /\ LookedAt(a, Differs(a))
    /\ UNCHANGED <<world, age, cfg, silent, rej, bans, rerouted>>

Change(what) == what \in Changes /\ changes < MaxChanges /\ changes' = changes + 1

(* recv times out, or the caster closes. *)
Lost ==
    /\ pc = "session" /\ pc' = "end"
    /\ \/ (kind[cfg.mount] # "sends" \/ ~net) /\ UNCHANGED changes
       \/ Change("drop")
    /\ UNCHANGED <<kind, table, readable, place, sky, net, saved, missed, age, cfg, auto,
                   unread, rerouted, session>>

(* The end of the session: only one that was lost says something about its *)
(* base, which is the one it was opened to.  New settings and a new link   *)
(* wait three seconds only, less than a tick.                              *)
End ==
    LET base  == cfg.mount
        x     == [a EXCEPT !.got = IF ~session.got /\ @ = base THEN NoBase ELSE @]
        count == SilentCount(silent, base)
    IN  /\ pc = "end" /\ session' = Closed
        /\ pc' = IF session.why \in {"settings", "route"} THEN "top" ELSE "wait"
        /\ CASE ~a.on \/ session.why # "lost" ->
                   silent' = [silent EXCEPT !.count = 0] /\ a' = x /\ UNCHANGED bans
             [] OTHER ->
                CASE session.got ->
                       /\ silent' = [name |-> base, count |-> 0]
                       /\ a' = x /\ bans' = Forgive(bans, base)
                  [] ~session.got /\ count < Sessions ->
                       silent' = [name |-> base, count |-> count] /\ a' = x /\ UNCHANGED bans
                  [] OTHER ->
                       /\ silent' = [name |-> base, count |-> 0]
                       /\ bans' \in BanAdd(bans, base)
                       /\ a' = Moved(x, SilentVerdict(bans, bans', base, x.fallback))
        /\ UNCHANGED <<world, age, cfg, rej, unread, rerouted>>

(* The pause before the next attempt, which a save or a new link cuts short. *)
Wait ==
    /\ pc = "wait" /\ pc' = "top"
    /\ \/ Pass /\ a' = Later(a)
       \/ (unread \/ rerouted) /\ UNCHANGED <<a, bans, age>>
    /\ UNCHANGED <<world, cfg, silent, rej, unread, rerouted, session>>

Task ==
    Top \/ Read \/ Begin \/ Table \/ Connect \/ Receive \/ Compare \/ Lost \/ End \/ Wait

-----------------------------------------------------------------------------
(* Beside the task *)

NewKind ==
    /\ Change("kind") /\ \E b \in Bases, k \in Kinds : kind' = [kind EXCEPT ![b] = k]
    /\ UNCHANGED <<table, readable, place, sky, net, saved, missed, rerouted, unread>>
Move ==
    /\ Change("place") /\ place' \in Places
    /\ UNCHANGED <<kind, table, readable, sky, net, saved, missed, rerouted, unread>>
NewSky ==
    /\ Change("sky") /\ sky' \in Skies
    /\ UNCHANGED <<kind, table, readable, place, net, saved, missed, rerouted, unread>>
NewTable ==
    /\ Change("table") /\ table' \in Tables /\ readable' \in BOOLEAN
    /\ UNCHANGED <<kind, place, sky, net, saved, missed, rerouted, unread>>
Link ==
    /\ Change("net") /\ net' = ~net
    /\ UNCHANGED <<kind, table, readable, place, sky, saved, missed, rerouted, unread>>
Reroute ==
    /\ Change("route") /\ net /\ rerouted' = TRUE
    /\ UNCHANGED <<kind, table, readable, place, sky, net, saved, missed, unread>>

(* The panel: settings_update and the new generation, at any moment. *)
Save ==
    /\ Change("save") /\ saved' \in Settings \ {saved} /\ unread' = TRUE
    /\ missed' = (pc \in {"read", "gen", "compare"})
    /\ UNCHANGED <<kind, table, readable, place, sky, net, rerouted>>

Beside ==
    /\ NewKind \/ Move \/ NewSky \/ NewTable \/ Link \/ Reroute \/ Save
    /\ UNCHANGED <<age, pc, cfg, auto, session>>

(* The caster starts reachable, with its table; the changes do the rest. *)
Init ==
    /\ kind \in [Bases -> Kinds] /\ table \in Tables /\ readable = TRUE
    /\ place \in Places /\ sky \in Skies /\ net = TRUE /\ saved \in Settings
    /\ changes = 0 /\ missed = FALSE /\ age \in {0, Hold}
    /\ pc = "top" /\ cfg = [mount |-> NoBase, account |-> 1]
    /\ a = [on |-> FALSE, first |-> TRUE, check |-> 0, calm |-> TRUE, current |-> NoBase,
            fallback |-> NoBase, rtk |-> FALSE, pos |-> NoPlace, got |-> NoBase]
    /\ silent = Nobody /\ rej = Nobody
    /\ bans = [b \in Bases |-> Free]
    /\ unread = TRUE /\ rerouted = FALSE /\ session = Closed

Next == Task \/ Beside
Spec == Init /\ [][Next]_vars

(* Every call of the task has a timeout. *)
FairSpec == Spec /\ WF_vars(Task)

-----------------------------------------------------------------------------
(* Properties *)

Sending == session.open /\ session.got /\ net /\ kind[cfg.mount] = "sends"
Dead    == {b \in Bases : kind[b] # "sends"}

(* The panel's settings can be served: with a fixed base, that one sends;  *)
(* with the automatic choice, one that is listed does, the rover knows     *)
(* where it is, and the dead ones fit the list of exclusions.              *)
Works ==
    /\ net /\ saved.account = 1
    /\ IF saved.auto
       THEN /\ readable /\ sky # "none" /\ table \ Dead # {}
            /\ Cardinality(Dead) <= Slots
       ELSE saved.mount \notin Dead

(* A rover that can be served is, again and again: it does not stay for    *)
(* ever with a base that is mute, refuses or answers with errors, the      *)
(* initial one included.                                                   *)
Served == <>[]Works => []<>Sending

(* Where the sky allows RTK, the rover that can be served ends in one      *)
(* session, and no check of the table and no exclusion that ends, of a     *)
(* nearer base that is dead, takes it away from there.                     *)
RtkHeld == <>[](Works /\ saved.auto /\ sky = "rtk") => <>[]Sending

(* Where it does not, and all bases work, no listed base is nearer by the  *)
(* hysteresis than the one used: what was excluded is tried anew.  Not so  *)
(* for a choice that was turned on in a save that was missed.              *)
NearestUsed ==
    <>[](Works /\ ~missed /\ saved.auto /\ sky = "single" /\ Dead = {})
    => <>[](Sending => /\ cfg.mount \in table
                       /\ \A b \in table : Dist[place][cfg.mount] - Dist[place][b] < Hysteresis)

(* The base is kept or left only for these two reasons (base_auto.c).      *)
BaseKept == RtkHeld /\ NearestUsed

Obeys == /\ cfg.account = saved.account
         /\ ~saved.auto => cfg.mount = saved.mount

(* A session that goes on is one with the credentials of the panel and,    *)
(* with the automatic choice off, the panel's mountpoint; but for a save   *)
(* that was missed, until the session ends.                                *)
PanelObeyed == <>[](session.open /\ ~missed => Obeys)

(* The same of every save: new settings of the caster mean a new           *)
(* connection (ntrip_rover_client.c:1171).  Expected to fail: the          *)
(* generation is read after the settings it stands for.                    *)
SavesObeyed == <>[](session.open => Obeys)

(* The initial base is the reserve, used when the list cannot be read or   *)
(* the chosen base does not answer: if it works, the rover is served.      *)
FallbackTried ==
    <>[](net /\ saved.account = 1 /\ saved.auto /\ saved.mount \notin Dead) => []<>Sending
=============================================================================
