------------------------------ MODULE SimTools ------------------------------
(***************************************************************************)
(* What the base asks of its SIM (main/sim_tools.c): the credit, messages, *)
(* the number of the SIM and whether SIM or modem were replaced.  Requests *)
(* come from the panel; the task of the alarms carries them out in         *)
(* sim_tools_tick, in a fixed order of parts, each of which talks to the   *)
(* modem for seconds.  The modem's own commands are external.              *)
(***************************************************************************)
EXTENDS Integers, Sequences

CONSTANTS
    Sims,        \* the SIM cards that may be put in
    FirstSim,    \* the one whose number was written in the panel
    MaxRequests,
    MaxStEvents  \* power cuts, other cards, modems that go and messages, together

VARIABLES
    sim,         \* the card in the modem and whether the modem answers
    numbers,     \* of each card, whether it holds a number: None or a number
    inbox,       \* messages on the card, "reply" or "other"
    asked,       \* s_pending: what the panel asked
    st,          \* s_st: iccid, iccid_prev, phone, busy, credit, modem_silent
    kept,        \* NVS: iccid, auto (the automatic check of the day was made)
    read,        \* s_iccid_done, s_number_done, s_write_tried
    reply,       \* s_sms_reply_due_us: none, waiting or due
    part,        \* the part of sim_tools_tick that comes next
    told,        \* history: the cards whose arrival was announced
    runs         \* history: requests accepted and carried out; events

toolsVars == <<sim, numbers, inbox, asked, st, kept, read, reply, part, told, runs>>

None  == "none"
Asks  == {"credit", "ussd", "sms", "read", "delete"}
(* A number names the card it is the number of.                            *)
Manual == FirstSim

NothingRead == [iccid |-> FALSE, number |-> FALSE, tried |-> FALSE]

StInit ==
    /\ sim = [card |-> FirstSim, present |-> TRUE]
    /\ numbers = [c \in Sims |-> None] /\ inbox = <<>> /\ asked = None
    /\ st = [iccid |-> None, prev |-> None, phone |-> None, busy |-> FALSE, credit |-> None,
             silent |-> FALSE]
    /\ kept = [iccid |-> FirstSim, auto |-> FALSE]
    /\ read = NothingRead
    /\ reply = None /\ part = "off" /\ told = {FirstSim}
    /\ runs = [accepted |-> 0, done |-> 0, events |-> 0]

---------------------------------------------------------------------------
(* Around the task.                                                        *)

(* sim_tools_start, at every boot; what was in RAM is lost with the power. *)
Off(s) == [s EXCEPT !.iccid = None, !.prev = None, !.phone = None, !.busy = FALSE,
                    !.silent = FALSE]
PowersOn ==
    /\ part = "off" /\ part' = "request"
    /\ st' = [st EXCEPT !.iccid = kept.iccid]
    /\ UNCHANGED <<sim, numbers, inbox, asked, kept, read, reply, told, runs>>

(* The power goes; the SIM is changed with the base off.                   *)
PowerCut ==
    /\ part # "off" /\ runs.events < MaxStEvents
    /\ part' = "off"
    /\ runs' = [runs EXCEPT !.events = @ + 1,
                            !.accepted = runs.done]        \* what was asked is gone
    /\ st' = Off(st) /\ read' = NothingRead /\ asked' = None /\ reply' = None
    /\ UNCHANGED <<sim, numbers, inbox, kept, told>>

SwapsSim ==
    /\ part = "off" /\ runs.events < MaxStEvents
    /\ runs' = [runs EXCEPT !.events = @ + 1]
    /\ \E c \in Sims \ {sim.card} : sim' = [sim EXCEPT !.card = c]
    /\ inbox' = <<>>
    /\ UNCHANGED <<numbers, asked, st, kept, read, reply, part, told>>

ModemComesAndGoes ==
    /\ ~sim.present \/ runs.events < MaxStEvents
    /\ runs' = IF sim.present THEN [runs EXCEPT !.events = @ + 1] ELSE runs
    /\ sim' = [sim EXCEPT !.present = ~@]
    /\ UNCHANGED <<numbers, inbox, asked, st, kept, read, reply, part, told>>

MessageArrives ==
    /\ runs.events < MaxStEvents /\ runs' = [runs EXCEPT !.events = @ + 1]
    /\ \E m \in {"other"} \cup (IF reply = None THEN {} ELSE {"reply"}) :
         inbox' = Append(inbox, m)
    /\ UNCHANGED <<sim, numbers, asked, st, kept, read, reply, part, told>>

(* sim_tools_request, from the panel: one at a time.                       *)
Requests ==
    /\ part # "off" /\ runs.accepted < MaxRequests
    /\ ~st.busy /\ asked = None
    /\ \E a \in Asks : asked' = a
    /\ runs' = [runs EXCEPT !.accepted = @ + 1]
    /\ UNCHANGED <<sim, numbers, inbox, st, kept, read, reply, part, told>>

MinutePasses ==
    /\ reply = "waiting" /\ reply' = "due"
    /\ UNCHANGED <<sim, numbers, inbox, asked, st, kept, read, part, told, runs>>

---------------------------------------------------------------------------
(* sim_tools_tick, part by part.                                           *)

Goes(from, to) == part = from /\ part' = to

(* store_credit: the text it was read from stands for the amount.          *)
Credited(s, text) == [s EXCEPT !.credit = text]

(* do_credit: a code that answers at once, or a message whose answer is    *)
(* looked for a minute later.                                              *)
AsksCredit ==
    \/ st' = Credited(st, "reply") /\ reply' = reply
    \/ reply' = "waiting" /\ st' = st
    \/ UNCHANGED <<st, reply>>

(* run_action: busy while it lasts.                                        *)
TakesRequest ==
    /\ part = "request" /\ asked # None /\ ~st.busy
    /\ st' = [st EXCEPT !.busy = TRUE]
    /\ UNCHANGED <<sim, numbers, inbox, asked, kept, read, reply, part, told, runs>>

RunsRequest ==
    /\ Goes("request", "reply") /\ st.busy
    /\ asked' = None /\ runs' = [runs EXCEPT !.done = @ + 1]
    /\ LET s == [st EXCEPT !.busy = FALSE] IN
         \/ ~sim.present /\ st' = s /\ UNCHANGED <<inbox, reply>>
         \/ /\ sim.present /\ asked \in {"credit", "ussd"} /\ inbox' = inbox
            /\ \/ st' = Credited(s, "reply") /\ reply' = reply
               \/ st' = s /\ reply' = IF asked = "credit" THEN "waiting" ELSE reply
               \/ st' = s /\ reply' = reply
         \/ sim.present /\ asked \in {"sms", "read"} /\ st' = s /\ UNCHANGED <<inbox, reply>>
         \/ /\ sim.present /\ asked = "delete" /\ st' = s /\ reply' = reply
            /\ inbox' \in {inbox, <<>>}
    /\ UNCHANGED <<sim, numbers, kept, read, told>>

NoRequest ==
    /\ Goes("request", "reply") /\ asked = None /\ ~st.busy
    /\ UNCHANGED <<sim, numbers, inbox, asked, st, kept, read, reply, told, runs>>

(* The answer to the message of the credit: the last message on the card.  *)
LastMessage == IF inbox = <<>> THEN None ELSE inbox[Len(inbox)]
ReadsReply ==
    /\ Goes("reply", "iccid")
    /\ IF reply = "due"
       THEN /\ reply' = None
            /\ st' = IF sim.present /\ LastMessage # None
                     THEN Credited(st, LastMessage) ELSE st
       ELSE UNCHANGED <<reply, st>>
    /\ UNCHANGED <<sim, numbers, inbox, asked, kept, read, told, runs>>

(* read_ids: the card is read once per boot, a change is told, then saved. *)
SkipsCard ==
    /\ Goes("iccid", "number") /\ (read.iccid \/ ~sim.present)
    /\ UNCHANGED <<sim, numbers, inbox, asked, st, kept, read, reply, told, runs>>
(* Mutant: the card is saved as known before its arrival is told.          *)
ReadsCardSaving ==
    /\ Goes("iccid", "tell") /\ ~read.iccid /\ sim.present
    /\ read' = [read EXCEPT !.iccid = TRUE] /\ kept' = [kept EXCEPT !.iccid = sim.card]
    /\ st' = [st EXCEPT !.iccid = sim.card,
                        !.prev = IF st.iccid \notin {None, sim.card} THEN st.iccid ELSE @]
    /\ UNCHANGED <<sim, numbers, inbox, asked, reply, told, runs>>
ReadsCard ==
    /\ Goes("iccid", "tell") /\ ~read.iccid /\ sim.present
    /\ read' = [read EXCEPT !.iccid = TRUE]
    /\ st' = [st EXCEPT !.iccid = sim.card,
                        !.prev = IF st.iccid \notin {None, sim.card} THEN st.iccid ELSE @]
    /\ UNCHANGED <<sim, numbers, inbox, asked, kept, reply, told, runs>>
TellsSwap ==
    /\ Goes("tell", "save")
    /\ told' = IF st.prev # None THEN told \cup {st.iccid} ELSE told
    /\ UNCHANGED <<sim, numbers, inbox, asked, st, kept, read, reply, runs>>
SavesIds ==
    /\ Goes("save", "number") /\ kept' = [kept EXCEPT !.iccid = st.iccid]
    /\ UNCHANGED <<sim, numbers, inbox, asked, st, read, reply, told, runs>>

ReadsNumber ==
    /\ Goes("number", "write")
    /\ IF ~read.number /\ sim.present
       THEN /\ read' = [read EXCEPT !.number = TRUE]
            /\ st' = [st EXCEPT !.phone = numbers[sim.card]]
       ELSE UNCHANGED <<read, st>>
    /\ UNCHANGED <<sim, numbers, inbox, asked, kept, reply, told, runs>>

(* The number of the panel goes to a card that has none, once per boot.    *)
MayWrite ==
    /\ read.number /\ read.iccid /\ st.phone = None /\ st.prev = None /\ ~read.tried
WritesNumber ==
    /\ Goes("write", "health")
    /\ IF MayWrite
       THEN /\ read' = [read EXCEPT !.tried = TRUE]
            /\ \/ /\ sim.present
                  /\ numbers' = [numbers EXCEPT ![sim.card] = Manual]
                  /\ st' = [st EXCEPT !.phone = Manual]
               \/ UNCHANGED <<numbers, st>>
       ELSE UNCHANGED <<read, numbers, st>>
    /\ UNCHANGED <<sim, inbox, asked, kept, reply, told, runs>>

(* read_health: when a modem seen before stops answering, since when.      *)
ReadsHealth ==
    /\ Goes("health", "credit")
    /\ \/ st' = st                                   \* two minutes have not passed
       \/ st' = [st EXCEPT !.silent = ~sim.present]
    /\ UNCHANGED <<sim, numbers, inbox, asked, kept, read, reply, told, runs>>

(* The automatic check: the day is written down before it is made.         *)
ChecksCredit ==
    /\ Goes("credit", "request")
    /\ IF kept.auto THEN UNCHANGED <<kept, st, reply>>
       ELSE \/ UNCHANGED <<kept, st, reply>>               \* not its hour
            \/ /\ kept' = [kept EXCEPT !.auto = TRUE]
               /\ IF sim.present THEN AsksCredit ELSE UNCHANGED <<st, reply>>
    /\ UNCHANGED <<sim, numbers, inbox, asked, read, told, runs>>

---------------------------------------------------------------------------
Tick ==
    \/ TakesRequest \/ RunsRequest \/ NoRequest \/ ReadsReply
    \/ SkipsCard \/ ReadsCard \/ TellsSwap \/ SavesIds
    \/ ReadsNumber \/ WritesNumber \/ ReadsHealth \/ ChecksCredit
StNext ==
    \/ PowersOn \/ PowerCut \/ SwapsSim \/ ModemComesAndGoes \/ MessageArrives
    \/ Requests \/ MinutePasses \/ Tick
StFairness == WF_toolsVars(PowersOn) /\ WF_toolsVars(Tick)
StSpec == StInit /\ [][StNext]_toolsVars /\ StFairness

---------------------------------------------------------------------------
(* The variables keep their types.                                         *)
StTypeOK ==
    /\ sim.card \in Sims /\ asked \in Asks \cup {None}
    /\ st.iccid \in Sims \cup {None} /\ reply \in {None, "waiting", "due"}
    /\ part \in {"off", "request", "reply", "iccid", "tell", "save", "number", "write",
                "health", "credit"}

(* What the panel asked and was accepted is carried out, one at a time and *)
(* none overwritten by another (sim_tools.c:507-534, 606-617): every       *)
(* request is counted once, as waiting or as done.                         *)
NoRequestLost == runs.accepted = runs.done + (IF asked = None THEN 0 ELSE 1)

(* A replaced SIM is never taken for the usual one without its arrival     *)
(* having been told, wherever the power goes (sim_tools.c:411-437).        *)
SwapTold == kept.iccid \in told

(* The number of the panel is never written on another card (sim_tools.c:  *)
(* 451-453): expected to fail after a restart, which forgets the change.   *)
NumberOfItsSim == \A c \in Sims : numbers[c] \in {None, c}

(* The credit is read from the answer (sim_tools.c:614-624): expected to   *)
(* fail when the answer is late and an older message is the last one.      *)
CreditFromItsReply == st.credit # "other"
=============================================================================
