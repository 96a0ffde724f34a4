-------------------------- MODULE NetManagerProofs --------------------------
(***************************************************************************)
(* Proofs about NetManager, whatever happens to the networks, the modem    *)
(* and the panel: no counter outgrows the recovery it is for, and a 4G     *)
(* that carries the session is left alone.                                 *)
(***************************************************************************)
EXTENDS NetManager, TLAPS

USE WaitAssumption, FailsAssumption, WifisAssumption

Known == Wifis \union {NoNet}
Tasks ==
    [pc : Steps, active : {"none", "wifi", "cell"}, target : Known,
     check : NotYet .. ProbeFails - 1,
     cellFail : 0 .. DialFails, cellDead : 0 .. DeadCalls,
     cellWait : Wait.cell .. Wait.cellMax,
     keep : BOOLEAN, wifiDead : BOOLEAN, ethOk : BOOLEAN, ethDown : BOOLEAN,
     gwBad : 0 .. BadPings, gwOk : BOOLEAN,
     radioAgo : NotYet .. Wait.radioMax, radioWait : Wait.radio .. Wait.radioMax,
     idleAgo : NotYet .. Wait.idleMax, idleWait : Wait.idle .. Wait.idleMax]
Dues == [Timers -> 0 .. 60]

(* The steps that belong to one mode only.                                 *)
CfSteps == {"cf_join", "cf_cell", "cf_probe", "cf_failed", "cf_stay"}
InMode(pc) == (pc \in CfSteps => mode = "cellular_first") /\ (pc = "back_join" => mode = "both")

(* No PPP before the modem was initialised, none after a call that failed; *)
(* a modem noted as silent is not well, or was just restarted.             *)
NetInv ==
    /\ TypeOK /\ InMode(m.pc)
    /\ cell # "down" => ready
    /\ m.pc = "cf_failed" => cell = "down"
    /\ silent = 0 \/ due.reset > 0 \/ modem # "ok"
    /\ m.pc = "modem" => modem # "ok"

-----------------------------------------------------------------------------
(* The parts of the steps.                                                 *)

(* The type of the task's variables, with the names used here.             *)
LEMMA Types ==
    TypeOK <=> /\ LinkTypes /\ m \in Tasks /\ due \in Dues
               /\ silent \in 0 .. Wait.silent /\ uptime \in 0 .. Wait.window /\ ap \in BOOLEAN
BY DEF TypeOK, Tasks, Dues, Known

(* The durations.                                                          *)
LEMMA Waits ==
    /\ \A n \in {"check", "probe", "pause", "hold", "cell", "cellMax", "wifi", "wifiFast", "boot",
                 "back", "reset", "gateway", "ap"} : Wait[n] \in 1 .. 60
    /\ \A n \in {"window", "silent", "idle", "idleMax", "radio", "radioMax"} : Wait[n] \in Nat \ {0}
    /\ ProbeFails \in Nat \ {0} /\ DialFails \in Nat \ {0} /\ DeadCalls \in Nat \ {0}
    /\ BadPings \in Nat \ {0}
BY DEF WaitNames

(* A deadline that is set anew.                                            *)
LEMMA DueIn ==
    ASSUME NEW d \in Dues, NEW t \in Timers, NEW n \in 0 .. 60
    PROVE  [d EXCEPT ![t] = n] \in Dues
BY DEF Dues

(* A turn of the restarts: not at once again, if the modem had one.        *)
LEMMA ResetIn ==
    ASSUME NEW d \in Dues
    PROVE  NextReset(d) \in Dues /\ (ready => NextReset(d).reset > 0)
           /\ (~ready => NextReset(d).reset = d.reset)
<1>1. "reset" \in Timers /\ Wait.reset \in 1 .. 60
  BY Waits DEF Timers
<1> QED
  BY <1>1 DEF NextReset, Dues

(* What a pass does to the variables of the task.                          *)
LEMMA RowIn ==
    ASSUME NEW r \in Tasks
    PROVE  /\ OnWifi(r) \in Tasks /\ OnWifi(r).pc = "top"
           /\ OnCell(r) \in Tasks /\ OnCell(r).pc = "top"
           /\ Away(r) \in Tasks /\ Away(r).pc = "top"
           /\ Rest(r) \in Tasks /\ Rest(r).pc = "rest"
<1>1. 0 \in 0 .. DialFails /\ NotYet \in NotYet .. ProbeFails - 1
  BY Waits DEF NotYet
<1>2. {"top", "rest"} \subseteq Steps
  BY DEF Steps
<1>3. OnWifi(r) \in Tasks /\ OnWifi(r).pc = "top"
  BY <1>2 DEF OnWifi, Tasks
<1>4. Away(r) \in Tasks /\ Away(r).pc = "top"
  BY <1>2 DEF Away, Tasks
<1>5. Rest(r) \in Tasks /\ Rest(r).pc = "rest"
  BY <1>2 DEF Rest, Tasks
<1>6. OnCell(r) \in Tasks /\ OnCell(r).pc = "top"
  BY <1>1, <1>2 DEF OnCell, Tasks
<1> QED
  BY <1>3, <1>4, <1>5, <1>6

(* The check of the link in use: it is dead only with no session on it.    *)
LEMMA CheckedIn ==
    ASSUME m \in Tasks, due \in Dues
    PROVE  /\ Checked.check \in NotYet .. ProbeFails - 1 /\ Checked.due \in 0 .. 60
           /\ Checked.dead \in BOOLEAN /\ (Checked.dead => session = "none")
<1>1. m.check \in NotYet .. ProbeFails - 1 /\ due.check \in 0 .. 60
  BY DEF Tasks, Dues, Timers
<1>2. Wait.check \in 0 .. 60 /\ Wait.pause \in 0 .. 60 /\ Wait.probe \in 0 .. 60
  BY Waits
<1>3. CASE session # "none"
  BY <1>3, Waits DEF Checked, Check, NotYet
<1>4. CASE session = "none" /\ m.check = NotYet
  <2>1. Checked = [check |-> 0, due |-> Wait.check, dead |-> FALSE]
    BY <1>4 DEF Checked, Check
  <2>2. 0 \in NotYet .. ProbeFails - 1
    BY Waits DEF NotYet
  <2> QED
    BY <1>2, <1>4, <2>1, <2>2
<1>5. CASE session = "none" /\ m.check # NotYet /\ due.check > 0
  BY <1>1, <1>5 DEF Checked, Check
<1>6. CASE session = "none" /\ m.check # NotYet /\ ~(due.check > 0)
  <2>1. Checked = IF Reaches THEN Check(0, Wait.pause, FALSE)
                  ELSE IF m.check + 1 = ProbeFails THEN Check(NotYet, 0, TRUE)
                  ELSE Check(m.check + 1, Wait.probe, FALSE)
    BY <1>6 DEF Checked
  <2>2. m.check + 1 # ProbeFails => m.check + 1 \in NotYet .. ProbeFails - 1
    BY <1>1, <1>6, Waits DEF NotYet
  <2> QED
    BY <1>2, <1>6, <2>1, <2>2, Waits DEF Check, NotYet
<1> QED
  BY <1>3, <1>4, <1>5, <1>6

(* A step of the pass that keeps to the types and to what the steps mean.  *)
LEMMA PassKeeps ==
    ASSUME NetInv, UNCHANGED <<outside, mode, ready, session, route, panel, silent, uptime>>,
           m' \in Tasks, due' \in Dues, ap' \in BOOLEAN,
           wifi' \in Known, jam' \in BOOLEAN, dropped' \in BOOLEAN,
           cell' \in {"down", "up", "crooked"}, modem' \in {"ok", "mute", "gone"},
           status' \in {"none", "wifi", "cell"},
           InMode(m'.pc), cell' # "down" => ready, m'.pc = "cf_failed" => cell' = "down",
           silent = 0 \/ due'.reset > 0 \/ modem' # "ok", m'.pc = "modem" => modem' # "ok"
    PROVE  NetInv'
<1>1. LinkTypes'
  BY DEF NetInv, TypeOK, LinkTypes, outside, panel, Known
<1>2. TypeOK'
  <2>1. TypeOK
    BY DEF NetInv
  <2>2. silent' \in 0 .. Wait.silent /\ uptime' \in 0 .. Wait.window
    BY <2>1, Types
  <2> QED
    BY <1>1, <2>2 DEF TypeOK, Tasks, Dues, Known
<1>3. InMode(m.pc)'
  BY DEF InMode
<1> QED
  BY <1>2, <1>3 DEF NetInv

(* What NetInv says of the variables a pass may change.                    *)
LEMMA Now ==
    ASSUME NetInv
    PROVE  /\ m \in Tasks /\ due \in Dues /\ ap \in BOOLEAN
           /\ wifi \in Known /\ jam \in BOOLEAN /\ dropped \in BOOLEAN
           /\ cell \in {"down", "up", "crooked"} /\ modem \in {"ok", "mute", "gone"}
           /\ status \in {"none", "wifi", "cell"} /\ InMode(m.pc)
           /\ silent \in 0 .. Wait.silent
BY Types DEF NetInv, LinkTypes, Known

(* ... and one that leaves the modem alone.                                *)
LEMMA QuietKeeps ==
    ASSUME NetInv, UNCHANGED Others, UNCHANGED <<dropped, cell, modem>>,
           m' \in Tasks, due' \in Dues, due'.reset = due.reset,
           wifi' \in Known, jam' \in BOOLEAN, status' \in {"none", "wifi", "cell"},
           InMode(m'.pc), m'.pc \notin {"cf_failed", "modem"}
    PROVE  NetInv'
<1>1. /\ UNCHANGED <<outside, mode, ready, session, route, panel, silent, uptime>>
      /\ ap' \in BOOLEAN /\ dropped' \in BOOLEAN /\ cell' \in {"down", "up", "crooked"}
      /\ modem' \in {"ok", "mute", "gone"}
  BY Now DEF Others
<1>2. cell' # "down" => ready
  BY DEF NetInv
<1>3. silent = 0 \/ due'.reset > 0 \/ modem' # "ok"
  BY DEF NetInv
<1> QED
  BY <1>1, <1>2, <1>3, PassKeeps

(* A deadline other than that of the restarts, set anew.                   *)
LEMMA OtherDue ==
    ASSUME NEW d \in Dues, NEW t \in Timers \ {"reset"}, NEW n \in 0 .. 60
    PROVE  [d EXCEPT ![t] = n] \in Dues /\ [d EXCEPT ![t] = n].reset = d.reset
BY DEF Dues, Timers

(* The steps of a pass that are in no mode.                                *)
LEMMA PlainSteps ==
    \A pc \in {"top", "modem", "select", "join", "eth", "dial", "home_join", "rest"} :
       pc \in Steps /\ InMode(pc)
BY DEF Steps, InMode, CfSteps

(* The network a scan goes for, and the one an association ends on.        *)
LEMMA CandidatesKnown == \A n \in Candidates : n \in Known
BY DEF Candidates, Visible, Known

LEMMA FoundKnown == m.target \in Known => (IF Found THEN m.target ELSE NoNet) \in Known
BY DEF Known

(* The station goes to a network it knows, or to none.                     *)
LEMMA AssociateIn ==
    ASSUME NEW n \in Known, jam \in BOOLEAN, Associate(n) PROVE wifi' \in Known /\ jam' \in BOOLEAN
BY DEF Associate

-----------------------------------------------------------------------------
(* Before the link in use.                                                 *)

(* The end of what comes first in a pass: a mute modem, or the link in use.*)
LEMMA LookIs ==
    ASSUME NetInv, NEW r \in Tasks
    PROVE  /\ Look(r) \in Tasks
           /\ Look(r).pc = "select" \/ (Look(r).pc = "modem" /\ modem # "ok")
<1>1. IdleWait \in Wait.idle .. Wait.idleMax
  <2>1. m.idleWait \in Wait.idle .. Wait.idleMax
    BY Now DEF Tasks
  <2> QED
    BY <2>1, Waits DEF IdleWait
<1>2. MuteLong => modem # "ok"
  <2>1. MuteLong => silent = Wait.silent /\ due.reset = 0
    BY DEF MuteLong
  <2> QED
    BY <2>1, Waits DEF NetInv
<1>3. {"modem", "select"} \subseteq Steps
  BY DEF Steps
<1> DEFINE w == IdleWait
<1>4. MuteLong => Look(r) = [r EXCEPT !.pc = "modem"]
  BY DEF Look
<1>5. ~MuteLong => Look(r) = [r EXCEPT !.pc = "select", !.idleWait = w]
  BY DEF Look
<1> HIDE DEF w
<1>6. w \in Wait.idle .. Wait.idleMax
  BY <1>1 DEF w
<1> QED
  BY <1>2, <1>3, <1>4, <1>5, <1>6 DEF Tasks

(* The checks of the router, when they are not due.                        *)
LEMMA GatewayIdleStep == NetInv /\ GatewayIdle => NetInv'
<1> SUFFICES ASSUME NetInv, GatewayIdle PROVE NetInv'
  OBVIOUS
<1>1. PICK r \in Tasks : m' = Look(r)
  <2>1. [m EXCEPT !.gwBad = 0] \in Tasks
    BY Now, Waits DEF Tasks
  <2> QED
    BY <2>1, Now DEF GatewayIdle
<1>2. UNCHANGED <<Others, wifi, jam, cell, modem, status, due>> /\ dropped' \in BOOLEAN
  BY Now DEF GatewayIdle
<1>3. m' \in Tasks /\ (m'.pc = "select" \/ (m'.pc = "modem" /\ modem # "ok"))
  BY <1>1, LookIs
<1>4. InMode(m'.pc)
  BY <1>3, PlainSteps
<1>5. cell # "down" => ready
  BY DEF NetInv
<1>6. silent = 0 \/ due.reset > 0 \/ modem # "ok"
  BY DEF NetInv
<1> QED
  BY <1>2, <1>3, <1>4, <1>5, <1>6, Now, PassKeeps DEF Others

(* ... and when they are: the radio is turned off and on further apart.    *)
LEMMA GatewayStep == NetInv /\ Gateway => NetInv'
<1> SUFFICES ASSUME NetInv, Gateway PROVE NetInv'
  OBVIOUS
<1> DEFINE up    == wifi # NoNet
           good  == up /\ ~jam /\ ~dropped
           seen  == m.gwOk \/ (up /\ ~jam)
           bad   == IF good THEN 0
                    ELSE IF up THEN Cap(m.gwBad + 1, BadPings) ELSE m.gwBad
           wait  == IF good THEN Wait.radio ELSE m.radioWait
           again == bad = BadPings /\ seen
                    /\ (m.radioAgo = NotYet \/ m.radioAgo >= wait)
           ago   == IF again THEN 0 ELSE m.radioAgo
           now   == IF again THEN 0 ELSE bad
           next  == IF again /\ m.radioAgo # NotYet THEN Doubled(wait, Wait.radioMax) ELSE wait
           r     == [m EXCEPT !.gwOk = seen, !.gwBad = now, !.radioAgo = ago, !.radioWait = next]
           wd    == IF again THEN 0 ELSE due.wifi
<1>1. /\ m' = Look(r) /\ due' = [due EXCEPT !.gateway = Wait.gateway, !.wifi = wd]
      /\ Associate(IF again THEN NoNet ELSE wifi) /\ dropped' = FALSE
      /\ UNCHANGED <<Others, cell, modem, status>>
  BY DEF Gateway, KeepCell
<1>2. m \in Tasks /\ due \in Dues
  BY Now
<1>3. bad \in 0 .. BadPings
  <2>1. m.gwBad \in 0 .. BadPings
    BY <1>2 DEF Tasks
  <2> QED
    BY <2>1, Waits DEF Cap
<1>4. wait \in Wait.radio .. Wait.radioMax
  <2>1. m.radioWait \in Wait.radio .. Wait.radioMax
    BY <1>2 DEF Tasks
  <2> QED
    BY <2>1, Waits
<1>5. seen \in BOOLEAN /\ now \in 0 .. BadPings
  <2>1. m.gwOk \in BOOLEAN
    BY <1>2 DEF Tasks
  <2> HIDE DEF bad, again
  <2> QED
    BY <1>3, <2>1, Waits
<1>6. ago \in NotYet .. Wait.radioMax
  <2>1. m.radioAgo \in NotYet .. Wait.radioMax
    BY <1>2 DEF Tasks
  <2> HIDE DEF again
  <2> QED
    BY <2>1, Waits DEF NotYet
<1>7. next \in Wait.radio .. Wait.radioMax
  <2> HIDE DEF wait, again
  <2> QED
    BY <1>4, Waits DEF Doubled, Cap
<1>8. wd \in 0 .. 60
  <2>1. due.wifi \in 0 .. 60
    BY <1>2 DEF Dues, Timers
  <2> HIDE DEF again
  <2> QED
    BY <2>1
<1>9. wifi' \in Known /\ jam' \in BOOLEAN
  <2> HIDE DEF again
  <2>1. (IF again THEN NoNet ELSE wifi) \in Known
    BY Now DEF Known
  <2> QED
    BY <1>1, <2>1, AssociateIn, Now
<1> HIDE DEF seen, now, ago, next, wd, again
<1>10. r \in Tasks
  BY <1>2, <1>5, <1>6, <1>7 DEF Tasks
<1>11. due' \in Dues /\ due'.reset = due.reset
  <2>1. Wait.gateway \in 0 .. 60 /\ {"gateway", "wifi"} \subseteq Timers \ {"reset"}
    BY Waits DEF Timers
  <2> DEFINE d == [due EXCEPT !.gateway = Wait.gateway]
  <2>2. d \in Dues /\ d.reset = due.reset /\ due' = [d EXCEPT !.wifi = wd]
    BY <1>1, <1>2, <2>1, OtherDue
  <2> HIDE DEF d
  <2> QED
    BY <1>8, <2>1, <2>2, OtherDue
<1> HIDE DEF r
<1>12. m' \in Tasks /\ (m'.pc = "select" \/ (m'.pc = "modem" /\ modem # "ok"))
  BY <1>1, <1>10, LookIs
<1>13. InMode(m'.pc)
  BY <1>12, PlainSteps
<1>14. cell # "down" => ready
  BY DEF NetInv
<1>15. silent = 0 \/ due'.reset > 0 \/ modem # "ok"
  BY <1>11 DEF NetInv
<1> QED
  BY <1>1, <1>9, <1>11, <1>12, <1>13, <1>14, <1>15, Now, PassKeeps DEF Others

(* A restart of the modem, with the turn it takes.                         *)
LEMMA ResetIs ==
    ASSUME NetInv, ResetModem, NEW d \in Dues, d.reset = due.reset, due' = NextReset(d)
    PROVE  /\ due' \in Dues /\ cell' \in {"down", "up", "crooked"}
           /\ modem' \in {"ok", "mute", "gone"} /\ cell' = "down"
           /\ silent = 0 \/ due'.reset > 0 \/ modem' # "ok"
<1>1. NextReset(d) \in Dues /\ (ready => NextReset(d).reset > 0)
      /\ (~ready => NextReset(d).reset = d.reset)
  BY ResetIn
<1> QED
  BY <1>1, Now DEF ResetModem, NetInv

(* The modem that has been mute for long, with the 4G out of use.          *)
LEMMA IdleResetStep == NetInv /\ IdleReset => NetInv'
<1> SUFFICES ASSUME NetInv, IdleReset PROVE NetInv'
  OBVIOUS
<1> DEFINE w == IF m.idleAgo = NotYet THEN IdleWait ELSE Doubled(IdleWait, Wait.idleMax)
<1>1. /\ m' = [m EXCEPT !.pc = "select", !.idleAgo = 0, !.idleWait = w]
      /\ ResetModem /\ due' = NextReset(due)
      /\ UNCHANGED <<Others, wifi, jam, dropped, status>>
  BY DEF IdleReset, KeepWifi
<1>2. w \in Wait.idle .. Wait.idleMax
  <2>1. m.idleWait \in Wait.idle .. Wait.idleMax
    BY Now DEF Tasks
  <2>2. IdleWait \in Wait.idle .. Wait.idleMax
    BY <2>1, Waits DEF IdleWait
  <2> HIDE DEF IdleWait
  <2> QED
    BY <2>2, Waits DEF Doubled, Cap
<1> HIDE DEF w
<1>3. 0 \in NotYet .. Wait.idleMax /\ "select" \in Steps
  BY Waits DEF NotYet, Steps
<1> DEFINE z == 0
<1>4. m' = [m EXCEPT !.pc = "select", !.idleAgo = z, !.idleWait = w] /\ z \in NotYet .. Wait.idleMax
  BY <1>1, <1>3
<1> HIDE DEF z
<1>5. m' \in Tasks /\ m'.pc = "select"
  BY <1>2, <1>3, <1>4, Now DEF Tasks
<1>6. InMode(m'.pc)
  BY <1>5, PlainSteps
<1>7. /\ due' \in Dues /\ cell' = "down" /\ modem' \in {"ok", "mute", "gone"}
      /\ silent = 0 \/ due'.reset > 0 \/ modem' # "ok"
  BY <1>1, Now, ResetIs
<1> QED
  BY <1>1, <1>5, <1>6, <1>7, Now, PassKeeps DEF Others

-----------------------------------------------------------------------------
(* "4G with WiFi in reserve".                                              *)

(* Without a 4G the pass goes to the WiFi, or ends.                        *)
LEMMA StaysIs ==
    ASSUME m \in Tasks, NEW r \in Tasks, Stays(r)
    PROVE  m' \in Tasks /\ m'.pc \in {"top", "rest"} /\ status' \in {"none", "wifi", "cell"}
<1>1. NotYet \in NotYet .. ProbeFails - 1
  BY Waits DEF NotYet
<1>2. CASE wifi # NoNet
  <2> DEFINE w == OnWifi(r)
             c == IF m.keep THEN w.check ELSE NotYet
  <2>1. w \in Tasks /\ w.pc = "top"
    BY RowIn
  <2>2. m' = [w EXCEPT !.check = c, !.keep = FALSE] /\ status' = "wifi"
    BY <1>2 DEF Stays
  <2>3. c \in NotYet .. ProbeFails - 1
    BY <1>1, <2>1 DEF Tasks
  <2> HIDE DEF w, c
  <2> QED
    BY <2>1, <2>2, <2>3 DEF Tasks
<1>3. CASE wifi = NoNet
  <2> DEFINE w == Rest(r)
  <2>1. w \in Tasks /\ w.pc = "rest"
    BY RowIn
  <2>2. m' = [w EXCEPT !.keep = FALSE, !.wifiDead = FALSE] /\ status' = "none"
    BY <1>3 DEF Stays
  <2> HIDE DEF w
  <2> QED
    BY <2>1, <2>2 DEF Tasks
<1> QED
  BY <1>2, <1>3

(* With a 4G it goes to the 4G.                                            *)
LEMMA CfUpIs ==
    ASSUME m \in Tasks, due \in Dues, CfUp
    PROVE  /\ m' \in Tasks /\ m'.pc = "top" /\ status' = "cell"
           /\ due' \in Dues /\ due'.reset = due.reset
<1>1. m' \in Tasks /\ m'.pc = "top"
  <2> DEFINE w == OnCell(m)
  <2>1. w \in Tasks /\ w.pc = "top"
    BY RowIn
  <2>2. m' = [w EXCEPT !.keep = FALSE, !.wifiDead = FALSE, !.cellWait = Wait.cell]
    BY DEF CfUp
  <2>3. Wait.cell \in Wait.cell .. Wait.cellMax
    BY Waits
  <2> HIDE DEF w
  <2> QED
    BY <2>1, <2>2, <2>3 DEF Tasks
<1>2. due' \in Dues /\ due'.reset = due.reset
  <2>1. Wait.back \in 0 .. 60 /\ 0 \in 0 .. 60 /\ {"back", "check"} \subseteq Timers \ {"reset"}
    BY Waits DEF Timers
  <2> DEFINE d == [due EXCEPT !.back = Wait.back]
  <2>2. d \in Dues /\ d.reset = due.reset /\ due' = [d EXCEPT !.check = 0]
    BY <2>1, OtherDue DEF CfUp
  <2> HIDE DEF d
  <2> QED
    BY <2>1, <2>2, OtherDue
<1> QED
  BY <1>1, <1>2 DEF CfUp

(* The WiFi in reserve is looked for, ...                                  *)
LEMMA CfScanStep == NetInv /\ CfScan => NetInv'
<1> SUFFICES ASSUME NetInv, CfScan PROVE NetInv'
  OBVIOUS
<1>1. PICK n \in Candidates : m' = [m EXCEPT !.pc = "cf_join", !.target = n]
  BY DEF CfScan
<1>2. n \in Known
  BY CandidatesKnown
<1>3. UNCHANGED <<Others, wifi, jam, dropped, cell, modem, status, due>>
  BY DEF CfScan, KeepWifi, KeepCell
<1>4. "cf_join" \in Steps /\ InMode("cf_join")
  BY DEF Steps, InMode, CfScan, None, CellFirst
<1>5. m' \in Tasks /\ m'.pc = "cf_join"
  BY <1>1, <1>2, <1>4, Now DEF Tasks
<1> QED
  BY <1>3, <1>4, <1>5, Now, QuietKeeps

(* ... and joined.                                                         *)
LEMMA CfJoinStep == NetInv /\ CfJoin => NetInv'
<1> SUFFICES ASSUME NetInv, CfJoin PROVE NetInv'
  OBVIOUS
<1> DEFINE w == IF Found THEN due.wifi ELSE IF cell # "down" THEN Wait.wifi ELSE Wait.wifiFast
<1>1. /\ Associate(IF Found THEN m.target ELSE NoNet) /\ due' = [due EXCEPT !.wifi = w]
      /\ m' = [m EXCEPT !.pc = "cf_cell", !.target = NoNet]
      /\ UNCHANGED <<Others, dropped, cell, modem, status>>
  BY DEF CfJoin, KeepCell
<1>2. w \in 0 .. 60 /\ "wifi" \in Timers \ {"reset"}
  BY Now, Waits DEF Dues, Timers
<1> HIDE DEF w
<1>3. due' \in Dues /\ due'.reset = due.reset
  BY <1>1, <1>2, Now, OtherDue
<1>4. wifi' \in Known /\ jam' \in BOOLEAN
  <2>1. m.target \in Known
    BY Now DEF Tasks
  <2> QED
    BY <1>1, <2>1, Now, FoundKnown, AssociateIn
<1>5. "cf_cell" \in Steps /\ InMode("cf_cell")
  BY Now DEF Steps, InMode, CfJoin, Joins, CfSteps
<1>6. m' \in Tasks /\ m'.pc = "cf_cell"
  BY <1>1, <1>5, Now DEF Tasks, Known
<1> QED
  BY <1>1, <1>3, <1>4, <1>5, <1>6, Now, QuietKeeps

(* A call belongs to "4G with WiFi in reserve".                            *)
LEMMA CallsMode == NetInv /\ Calls => mode = "cellular_first" /\ m.pc # "cf_failed"
BY Now DEF Calls, NoScan, None, CellFirst, InMode, CfSteps

(* No call is due.                                                         *)
LEMMA CfNotDueStep == NetInv /\ CfNotDue => NetInv'
<1> SUFFICES ASSUME NetInv, CfNotDue PROVE NetInv'
  OBVIOUS
<1> DEFINE w == IF due.cell > 0 THEN due.cell ELSE Wait.boot
<1>1. /\ due' = [due EXCEPT !.cell = w] /\ Stays(m)
      /\ UNCHANGED <<Others, wifi, jam, dropped, cell, modem>>
  BY DEF CfNotDue, KeepWifi, KeepCell
<1>2. w \in 0 .. 60 /\ "cell" \in Timers \ {"reset"}
  BY Now, Waits DEF Dues, Timers
<1> HIDE DEF w
<1>3. due' \in Dues /\ due'.reset = due.reset
  BY <1>1, <1>2, Now, OtherDue
<1>4. m' \in Tasks /\ m'.pc \in {"top", "rest"} /\ status' \in {"none", "wifi", "cell"}
  BY <1>1, Now, StaysIs
<1>5. InMode(m'.pc) /\ m'.pc \notin {"cf_failed", "modem"}
  BY <1>4, PlainSteps
<1> QED
  BY <1>1, <1>3, <1>4, <1>5, Now, QuietKeeps

(* The modem was restarted after a call that failed.                       *)
LEMMA CfStayStep == NetInv /\ CfStay => NetInv'
<1> SUFFICES ASSUME NetInv, CfStay PROVE NetInv'
  OBVIOUS
<1>1. Stays(m) /\ UNCHANGED <<Others, due, wifi, jam, dropped, cell, modem>>
  BY DEF CfStay, KeepWifi, KeepCell
<1>2. m' \in Tasks /\ m'.pc \in {"top", "rest"} /\ status' \in {"none", "wifi", "cell"}
  BY <1>1, Now, StaysIs
<1>3. InMode(m'.pc) /\ m'.pc \notin {"cf_failed", "modem"}
  BY <1>2, PlainSteps
<1> QED
  BY <1>1, <1>2, <1>3, Now, QuietKeeps

(* A call, or the test of one: the 4G is in use, or was closed.            *)
LEMMA CallKeeps ==
    ASSUME NetInv, UNCHANGED Others, UNCHANGED <<wifi, jam, dropped, modem>>,
           mode = "cellular_first", cell' # "down" => ready,
           cell' \in {"down", "up", "crooked"},
           CfUp \/ /\ UNCHANGED <<status, due>>
                   /\ \/ m' = [m EXCEPT !.pc = "cf_probe"]
                      \/ cell' = "down" /\ m' = [m EXCEPT !.pc = "cf_failed"]
    PROVE  NetInv'
<1>1. /\ m' \in Tasks /\ m'.pc \in {"top", "cf_probe", "cf_failed"}
      /\ m'.pc = "cf_failed" => cell' = "down"
      /\ due' \in Dues /\ due'.reset = due.reset /\ status' \in {"none", "wifi", "cell"}
  <2>1. CASE CfUp
    <3>1. "top" # "cf_failed"
      OBVIOUS
    <3> QED
      BY <2>1, <3>1, Now, CfUpIs
  <2>2. CASE UNCHANGED <<status, due>> /\ m' = [m EXCEPT !.pc = "cf_probe"]
    BY <2>2, Now DEF Tasks, Steps
  <2>3. CASE UNCHANGED <<status, due>> /\ cell' = "down" /\ m' = [m EXCEPT !.pc = "cf_failed"]
    BY <2>3, Now DEF Tasks, Steps
  <2> QED
    BY <2>1, <2>2, <2>3
<1>2. InMode(m'.pc) /\ m'.pc # "modem"
  BY <1>1 DEF InMode
<1>3. silent = 0 \/ due'.reset > 0 \/ modem # "ok"
  BY <1>1 DEF NetInv
<1> QED
  BY <1>1, <1>2, <1>3, Now, PassKeeps DEF Others

(* A call.                                                                 *)
LEMMA CfDialStep == NetInv /\ CfDial => NetInv'
<1> SUFFICES ASSUME NetInv, CfDial PROVE NetInv'
  OBVIOUS
<1>1. mode = "cellular_first" /\ ready
  BY CallsMode DEF CfDial
<1>2. UNCHANGED Others /\ UNCHANGED <<wifi, jam, dropped, modem>>
  BY DEF CfDial, KeepWifi
<1>3. CASE Answers /\ (wifi = NoNet \/ m.wifiDead)
  <2>1. cell' = "up" /\ CfUp
    BY <1>3 DEF CfDial
  <2> QED
    BY <1>1, <1>2, <2>1, CallKeeps
<1>4. CASE ~(Answers /\ (wifi = NoNet \/ m.wifiDead))
  <2>1. /\ cell' = IF Answers THEN "up" ELSE "down"
        /\ m' = [m EXCEPT !.pc = IF Answers THEN "cf_probe" ELSE "cf_failed"]
        /\ UNCHANGED <<status, due>>
    BY <1>4 DEF CfDial
  <2>2. CASE Answers
    <3>1. cell' = "up" /\ m' = [m EXCEPT !.pc = "cf_probe"]
      BY <2>1, <2>2
    <3> QED
      BY <1>1, <1>2, <2>1, <3>1, CallKeeps
  <2>3. CASE ~Answers
    <3>1. cell' = "down" /\ m' = [m EXCEPT !.pc = "cf_failed"]
      BY <2>1, <2>3
    <3> QED
      BY <1>1, <1>2, <2>1, <3>1, CallKeeps
  <2> QED
    BY <2>2, <2>3
<1> QED
  BY <1>3, <1>4

(* The test of a call, beside a WiFi.                                      *)
LEMMA CfProbeStep == NetInv /\ CfProbe => NetInv'
<1> SUFFICES ASSUME NetInv, CfProbe PROVE NetInv'
  OBVIOUS
<1>1. mode = "cellular_first"
  BY Now DEF CfProbe, InMode, CfSteps
<1>2. UNCHANGED Others /\ UNCHANGED <<wifi, jam, dropped, modem>>
  BY DEF CfProbe, KeepWifi
<1> QED
  <2>1. CASE Reaches
    <3>1. cell' = cell /\ CfUp
      BY <2>1 DEF CfProbe
    <3>2. cell' # "down" => ready
      BY <3>1 DEF NetInv
    <3> QED
      BY <1>1, <1>2, <3>1, <3>2, Now, CallKeeps
  <2>2. CASE ~Reaches
    <3>1. cell' = "down" /\ m' = [m EXCEPT !.pc = "cf_failed"] /\ UNCHANGED <<status, due>>
      BY <2>2 DEF CfProbe
    <3> QED
      BY <1>1, <1>2, <3>1, CallKeeps
  <2> QED
    BY <2>1, <2>2

(* A call that failed: the next one further off, the modem restarted, the  *)
(* WiFi without Internet left.                                             *)
LEMMA CfFailedStep == NetInv /\ CfFailed => NetInv'
<1> SUFFICES ASSUME NetInv, CfFailed PROVE NetInv'
  OBVIOUS
<1> DEFINE wait  == IF wifi = NoNet \/ m.wifiDead THEN Wait.cell ELSE m.cellWait
           fails == Cap((IF Starting THEN 0 ELSE m.cellFail) + 1, DialFails)
           reset == MayReset(fails, DialFails)
           again == WifiUseless
           dial  == IF Starting THEN Wait.boot ELSE wait
           next  == [due EXCEPT !.cell = dial]
           row   == IF reset THEN NextReset(next) ELSE next
           scan  == IF again THEN 0 ELSE row.wifi
           count == IF reset THEN 0 ELSE fails
           off   == IF Starting THEN wait ELSE Doubled(wait, Wait.cellMax)
           r     == [m EXCEPT !.cellFail = count, !.cellWait = off]
<1>1. /\ IF reset THEN ResetModem ELSE UNCHANGED <<cell, modem>>
      /\ due' = [row EXCEPT !.wifi = scan]
      /\ IF again
         THEN m' = [Away(r) EXCEPT !.wifiDead = FALSE, !.keep = FALSE] /\ status' = status
         ELSE IF reset THEN m' = [r EXCEPT !.pc = "cf_stay"] /\ status' = status
         ELSE Stays(r)
      /\ Associate(IF again THEN NoNet ELSE wifi)
      /\ UNCHANGED <<Others, dropped>>
  BY DEF CfFailed, KeepCell
<1>2. m \in Tasks /\ due \in Dues /\ cell = "down" /\ mode = "cellular_first"
  BY Now DEF NetInv, CfFailed, InMode, CfSteps
<1>3. wait \in Wait.cell .. Wait.cellMax /\ dial \in 0 .. 60
  <2>1. m.cellWait \in Wait.cell .. Wait.cellMax
    BY <1>2 DEF Tasks
  <2> QED
    BY <2>1, Waits
<1>4. count \in 0 .. DialFails
  <2>1. m.cellFail \in 0 .. DialFails
    BY <1>2 DEF Tasks
  <2>2. fails \in 0 .. DialFails
    BY <2>1, Waits DEF Cap
  <2> HIDE DEF fails, reset
  <2> QED
    BY <2>2, Waits
<1>5. off \in Wait.cell .. Wait.cellMax
  <2> HIDE DEF wait
  <2> QED
    BY <1>3, Waits DEF Doubled, Cap
<1>6. next \in Dues /\ next.reset = due.reset
  <2>1. "cell" \in Timers \ {"reset"}
    BY DEF Timers
  <2> HIDE DEF dial
  <2> QED
    BY <1>2, <1>3, <2>1, OtherDue
<1> HIDE DEF wait, fails, reset, again, dial, next, count, off
<1>7. r \in Tasks
  BY <1>2, <1>4, <1>5 DEF Tasks
<1>8. row \in Dues /\ (silent = 0 \/ row.reset > 0 \/ modem' # "ok")
      /\ cell' = "down" /\ modem' \in {"ok", "mute", "gone"}
  <2>1. CASE reset
    <3>1. row = NextReset(next) /\ ResetModem
      BY <1>1, <2>1
    <3>2. row \in Dues /\ (ready => row.reset > 0) /\ (~ready => row.reset = due.reset)
      BY <1>6, <3>1, ResetIn
    <3> HIDE DEF row
    <3> QED
      BY <1>2, <3>1, <3>2, Now DEF ResetModem, NetInv
  <2>2. CASE ~reset
    <3>1. row = next /\ UNCHANGED <<cell, modem>>
      BY <1>1, <2>2
    <3> HIDE DEF row
    <3> QED
      BY <1>2, <1>6, <3>1, Now DEF NetInv
  <2> QED
    BY <2>1, <2>2
<1> HIDE DEF row, r
<1>9. due' \in Dues /\ due'.reset = row.reset
  <2>1. scan \in 0 .. 60 /\ "wifi" \in Timers \ {"reset"}
    BY <1>8 DEF Dues, Timers
  <2> HIDE DEF scan
  <2> QED
    BY <1>1, <1>8, <2>1, OtherDue
<1>10. /\ m' \in Tasks /\ m'.pc \in {"top", "rest", "cf_stay"}
       /\ status' \in {"none", "wifi", "cell"}
  <2>1. CASE again
    <3> DEFINE w == Away(r)
    <3>1. w \in Tasks /\ w.pc = "top"
      BY <1>7, RowIn
    <3>2. m' = [w EXCEPT !.wifiDead = FALSE, !.keep = FALSE] /\ status' = status
      BY <1>1, <2>1
    <3> HIDE DEF w
    <3> QED
      BY <3>1, <3>2, Now DEF Tasks
  <2>2. CASE ~again /\ reset
    <3>1. m' = [r EXCEPT !.pc = "cf_stay"] /\ status' = status
      BY <1>1, <2>2
    <3> QED
      BY <1>7, <3>1, Now DEF Tasks, Steps
  <2>3. CASE ~again /\ ~reset
    <3>1. Stays(r)
      BY <1>1, <2>3
    <3> QED
      BY <1>2, <1>7, <3>1, StaysIs
  <2> QED
    BY <2>1, <2>2, <2>3
<1>11. wifi' \in Known /\ jam' \in BOOLEAN
  <2>1. (IF again THEN NoNet ELSE wifi) \in Known
    BY Now DEF Known
  <2> QED
    BY <1>1, <2>1, AssociateIn, Now
<1>12. InMode(m'.pc) /\ m'.pc \notin {"cf_failed", "modem"}
  BY <1>2, <1>10 DEF InMode
<1>13. silent = 0 \/ due'.reset > 0 \/ modem' # "ok"
  BY <1>8, <1>9
<1> QED
  BY <1>1, <1>8, <1>9, <1>10, <1>11, <1>12, <1>13, Now, PassKeeps DEF Others

-----------------------------------------------------------------------------
(* The other modes, with no link in use.                                   *)

(* The cable alone.                                                        *)
LEMMA EthOnlyStep == NetInv /\ EthOnly => NetInv'
<1> SUFFICES ASSUME NetInv, EthOnly PROVE NetInv'
  OBVIOUS
<1> DEFINE down == cable = "off"
           w    == IF down /\ ~m.ethDown THEN Wait.ap ELSE due.ap
<1>1. /\ ap' = (ap \/ (down /\ m.ethDown /\ due.ap = 0)) /\ status' = "none"
      /\ due' = [due EXCEPT !.ap = w] /\ m' = [Rest(m) EXCEPT !.ethDown = down]
      /\ UNCHANGED <<outside, mode, ready, session, route, panel, silent, uptime>>
      /\ UNCHANGED <<wifi, jam, dropped, cell, modem>>
  BY DEF EthOnly, KeepWifi, KeepCell
<1>2. w \in 0 .. 60 /\ "ap" \in Timers \ {"reset"}
  <2>1. due.ap \in 0 .. 60 /\ Wait.ap \in 0 .. 60
    BY Now, Waits DEF Dues, Timers
  <2> QED
    BY <2>1 DEF Timers
<1>3. down \in BOOLEAN /\ ap' \in BOOLEAN
  BY <1>1, Now
<1> HIDE DEF w, down
<1>4. due' \in Dues /\ due'.reset = due.reset
  BY <1>1, <1>2, Now, OtherDue
<1>5. m' \in Tasks /\ m'.pc = "rest"
  <2> DEFINE r == Rest(m)
  <2>1. r \in Tasks /\ r.pc = "rest" /\ m' = [r EXCEPT !.ethDown = down]
    BY <1>1, Now, RowIn
  <2> HIDE DEF r
  <2> QED
    BY <1>3, <2>1 DEF Tasks
<1>6. InMode(m'.pc)
  BY <1>5, PlainSteps
<1>7. (cell # "down" => ready) /\ (silent = 0 \/ due'.reset > 0 \/ modem # "ok")
  BY <1>4 DEF NetInv
<1> QED
  BY <1>1, <1>3, <1>4, <1>5, <1>6, <1>7, Now, PassKeeps

(* The WiFi is in use.                                                     *)
LEMMA WifiUpIs ==
    ASSUME m \in Tasks, WifiUp PROVE m' \in Tasks /\ m'.pc = "top" /\ status' = "wifi"
<1> DEFINE r == OnWifi(m)
<1>1. r \in Tasks /\ r.pc = "top" /\ m' = [r EXCEPT !.check = NotYet, !.target = NoNet]
  BY RowIn DEF WifiUp
<1>2. NotYet \in NotYet .. ProbeFails - 1 /\ NoNet \in Known
  BY Waits DEF NotYet, Known
<1> HIDE DEF r
<1> QED
  BY <1>1, <1>2 DEF Tasks, WifiUp

(* The panel has brought a WiFi.                                           *)
LEMMA AdoptStep == NetInv /\ Adopt => NetInv'
<1> SUFFICES ASSUME NetInv, Adopt PROVE NetInv'
  OBVIOUS
<1>1. WifiUp /\ UNCHANGED <<Others, due, wifi, jam, dropped, cell, modem>>
  BY DEF Adopt, KeepWifi, KeepCell
<1>2. m' \in Tasks /\ m'.pc = "top" /\ status' = "wifi"
  BY <1>1, Now, WifiUpIs
<1>3. InMode(m'.pc)
  BY <1>2, PlainSteps
<1> QED
  BY <1>1, <1>2, <1>3, Now, QuietKeeps

(* A pass that ends with nothing else to do.                               *)
LEMMA RestKeeps ==
    ASSUME NetInv, UNCHANGED <<Others, due, wifi, jam, dropped, cell, modem>>,
           m' = Rest(m), status' \in {"none", "wifi", "cell"}
    PROVE  NetInv'
<1>1. m' \in Tasks /\ m'.pc = "rest"
  BY Now, RowIn
<1>2. InMode(m'.pc)
  BY <1>1, PlainSteps
<1> QED
  BY <1>1, <1>2, Now, QuietKeeps

(* The panel is testing one; the SIM is not to be used.                    *)
LEMMA WaitTestStep == NetInv /\ WaitTest => NetInv'
BY Now, RestKeeps DEF WaitTest, KeepWifi, KeepCell

LEMMA DialNoneStep == NetInv /\ DialNone => NetInv'
BY RestKeeps DEF DialNone, KeepWifi, KeepCell

(* The WiFi is looked for, unless the SIM is held, ...                     *)
LEMMA ScanStep == NetInv /\ Scan => NetInv'
<1> SUFFICES ASSUME NetInv, Scan PROVE NetInv'
  OBVIOUS
<1>1. UNCHANGED <<Others, status, due, wifi, jam, dropped, cell, modem>>
  BY DEF Scan, KeepWifi, KeepCell
<1>2. m' \in Tasks /\ m'.pc \in {"eth", "join"}
  <2>1. CASE mode = "cellular" \/ Held
    <3>1. m' = [m EXCEPT !.pc = "eth"]
      BY <2>1 DEF Scan
    <3> QED
      BY <3>1, Now DEF Tasks, Steps
  <2>2. CASE ~(mode = "cellular" \/ Held)
    <3>1. PICK n \in Candidates : m' = [m EXCEPT !.pc = "join", !.target = n]
      BY <2>2 DEF Scan
    <3>2. n \in Known
      BY CandidatesKnown
    <3> QED
      BY <3>1, <3>2, Now DEF Tasks, Steps
  <2> QED
    BY <2>1, <2>2
<1>3. InMode(m'.pc)
  BY <1>2, PlainSteps
<1> QED
  BY <1>1, <1>2, <1>3, Now, QuietKeeps

(* A network that was found is joined.                                     *)
LEMMA JoinedIn ==
    ASSUME m \in Tasks, jam \in BOOLEAN, Associate(IF Found THEN m.target ELSE NoNet)
    PROVE  wifi' \in Known /\ jam' \in BOOLEAN
<1>1. m.target \in Known
  BY DEF Tasks
<1> QED
  BY <1>1, FoundKnown, AssociateIn

(* ... and joined.                                                         *)
LEMMA JoinStep == NetInv /\ Join => NetInv'
<1> SUFFICES ASSUME NetInv, Join PROVE NetInv'
  OBVIOUS
<1>1. /\ Associate(IF Found THEN m.target ELSE NoNet)
      /\ UNCHANGED <<Others, due, dropped, cell, modem>>
  BY DEF Join, KeepCell
<1>2. m' \in Tasks /\ m'.pc \in {"top", "eth"} /\ status' \in {"none", "wifi", "cell"}
  <2>1. CASE Found
    <3>1. WifiUp
      BY <2>1 DEF Join
    <3> QED
      BY <3>1, Now, WifiUpIs
  <2>2. CASE ~Found
    <3>1. m' = [m EXCEPT !.pc = "eth", !.target = NoNet] /\ status' = status
      BY <2>2 DEF Join
    <3> QED
      BY <3>1, Now DEF Tasks, Steps, Known
  <2> QED
    BY <2>1, <2>2
<1>3. InMode(m'.pc)
  BY <1>2, PlainSteps
<1>4. wifi' \in Known /\ jam' \in BOOLEAN
  BY <1>1, Now, JoinedIn
<1> QED
  BY <1>1, <1>2, <1>3, <1>4, Now, QuietKeeps

(* The test of the cable.                                                  *)
LEMMA EthProbeStep == NetInv /\ EthProbe => NetInv'
<1> SUFFICES ASSUME NetInv, EthProbe PROVE NetInv'
  OBVIOUS
<1> DEFINE probes == cable # "off" /\ due.eth = 0
           ok     == IF probes THEN Reaches ELSE m.ethOk
           works  == cable # "off" /\ ok
           go     == IF works THEN "rest" ELSE "dial"
           w      == IF ~probes THEN due.eth ELSE IF ok THEN Wait.pause ELSE Wait.probe
<1>1. /\ m' = [m EXCEPT !.pc = go, !.ethOk = ok] /\ due' = [due EXCEPT !.eth = w]
      /\ status' = IF works THEN "none" ELSE status
      /\ UNCHANGED <<Others, wifi, jam, dropped, cell, modem>>
  BY DEF EthProbe, KeepWifi, KeepCell
<1>2. w \in 0 .. 60 /\ "eth" \in Timers \ {"reset"}
  <2>1. due.eth \in 0 .. 60 /\ Wait.pause \in 0 .. 60 /\ Wait.probe \in 0 .. 60
    BY Now, Waits DEF Dues, Timers
  <2> HIDE DEF probes, ok
  <2> QED
    BY <2>1 DEF Timers
<1>3. ok \in BOOLEAN
  <2>1. m.ethOk \in BOOLEAN /\ Reaches \in BOOLEAN
    BY Now DEF Tasks, Reaches
  <2> HIDE DEF probes
  <2> QED
    BY <2>1
<1>4. go \in {"rest", "dial"} /\ go \in Steps
  BY DEF Steps
<1>5. status' \in {"none", "wifi", "cell"}
  BY <1>1, Now
<1> HIDE DEF w, ok, go
<1>6. due' \in Dues /\ due'.reset = due.reset
  BY <1>1, <1>2, Now, OtherDue
<1>7. m' \in Tasks /\ m'.pc = go
  BY <1>1, <1>3, <1>4, Now DEF Tasks
<1>8. InMode(m'.pc) /\ m'.pc \notin {"cf_failed", "modem"}
  BY <1>4, <1>7, PlainSteps
<1> QED
  BY <1>1, <1>5, <1>6, <1>7, <1>8, Now, QuietKeeps

(* A call that is answered, ...                                            *)
LEMMA DialStep == NetInv /\ Dial => NetInv'
<1> SUFFICES ASSUME NetInv, Dial PROVE NetInv'
  OBVIOUS
<1>1. /\ cell' = "up" /\ status' = "cell" /\ m' = OnCell(m) /\ ready
      /\ due' = [due EXCEPT !.back = Wait.back, !.check = 0]
      /\ UNCHANGED <<Others, modem, wifi, jam, dropped>>
  BY DEF Dial, KeepWifi, Answers
<1>2. due' \in Dues /\ due'.reset = due.reset
  <2>1. Wait.back \in 0 .. 60 /\ 0 \in 0 .. 60 /\ {"back", "check"} \subseteq Timers \ {"reset"}
    BY Waits DEF Timers
  <2> DEFINE d == [due EXCEPT !.back = Wait.back]
  <2>2. d \in Dues /\ d.reset = due.reset /\ due' = [d EXCEPT !.check = 0]
    BY <1>1, <2>1, Now, OtherDue
  <2> HIDE DEF d
  <2> QED
    BY <2>1, <2>2, OtherDue
<1>3. m' \in Tasks /\ m'.pc = "top"
  BY <1>1, Now, RowIn
<1>4. InMode(m'.pc)
  BY <1>3, PlainSteps
<1>5. silent = 0 \/ due'.reset > 0 \/ modem # "ok"
  BY <1>2 DEF NetInv
<1> QED
  BY <1>1, <1>2, <1>3, <1>4, <1>5, Now, PassKeeps DEF Others

(* ... and one that is not.                                                *)
LEMMA DialFailStep == NetInv /\ DialFail => NetInv'
<1> SUFFICES ASSUME NetInv, DialFail PROVE NetInv'
  OBVIOUS
<1> DEFINE fails == Cap(m.cellFail + 1, DialFails)
           reset == MayReset(fails, DialFails)
           next  == [due EXCEPT !.hold = 0]
           count == IF reset THEN 0 ELSE fails
           r     == Rest(m)
<1>1. /\ m' = [r EXCEPT !.cellFail = count] /\ status' = "none"
      /\ IF reset THEN ResetModem /\ due' = NextReset(next)
         ELSE UNCHANGED <<cell, modem>> /\ due' = next
      /\ UNCHANGED <<Others, wifi, jam, dropped>>
  BY DEF DialFail, KeepWifi, KeepCell
<1>2. m \in Tasks /\ due \in Dues
  BY Now
<1>3. count \in 0 .. DialFails
  <2>1. m.cellFail \in 0 .. DialFails
    BY <1>2 DEF Tasks
  <2>2. fails \in 0 .. DialFails
    BY <2>1, Waits DEF Cap
  <2> HIDE DEF fails, reset
  <2> QED
    BY <2>2, Waits
<1>4. next \in Dues /\ next.reset = due.reset
  <2>1. "hold" \in Timers \ {"reset"} /\ 0 \in 0 .. 60
    BY DEF Timers
  <2> QED
    BY <1>2, <2>1, OtherDue
<1>5. r \in Tasks /\ r.pc = "rest"
  BY <1>2, RowIn
<1> HIDE DEF reset, next, count, r
<1>6. m' \in Tasks /\ m'.pc = "rest"
  BY <1>1, <1>3, <1>5 DEF Tasks
<1>7. /\ due' \in Dues /\ cell' \in {"down", "up", "crooked"} /\ (cell' # "down" => ready)
      /\ modem' \in {"ok", "mute", "gone"} /\ (silent = 0 \/ due'.reset > 0 \/ modem' # "ok")
  <2>1. CASE reset
    <3>1. ResetModem /\ due' = NextReset(next)
      BY <1>1, <2>1
    <3> QED
      BY <1>4, <3>1, ResetIs
  <2>2. CASE ~reset
    <3>1. UNCHANGED <<cell, modem>> /\ due' = next
      BY <1>1, <2>2
    <3> QED
      BY <1>4, <3>1, Now DEF NetInv
  <2> QED
    BY <2>1, <2>2
<1>8. InMode(m'.pc)
  BY <1>6, PlainSteps
<1> QED
  BY <1>1, <1>6, <1>7, <1>8, Now, PassKeeps DEF Others

-----------------------------------------------------------------------------
(* The WiFi in use.                                                        *)

(* The panel is testing another WiFi.                                      *)
LEMMA WifiTestedStep == NetInv /\ WifiTested => NetInv'
BY Now, RestKeeps DEF WifiTested, KeepWifi, KeepCell

(* The WiFi is lost.                                                       *)
LEMMA WifiGoneStep == NetInv /\ WifiGone => NetInv'
<1> SUFFICES ASSUME NetInv, WifiGone PROVE NetInv'
  OBVIOUS
<1>1. /\ m' = Away(m) /\ status' = "none"
      /\ UNCHANGED <<Others, due, wifi, jam, dropped, cell, modem>>
  BY DEF WifiGone, KeepWifi, KeepCell
<1>2. m' \in Tasks /\ m'.pc = "top"
  BY <1>1, Now, RowIn
<1>3. InMode(m'.pc)
  BY <1>2, PlainSteps
<1> QED
  BY <1>1, <1>2, <1>3, Now, QuietKeeps

(* The 4G is tried again beside it.                                        *)
LEMMA WifiToCellStep == NetInv /\ WifiToCell => NetInv'
<1> SUFFICES ASSUME NetInv, WifiToCell PROVE NetInv'
  OBVIOUS
<1> DEFINE tries == due.cell = 0
           dead  == IF tries THEN m.wifiDead ELSE TRUE
           count == IF tries THEN m.check ELSE Checked.check
           wait  == IF tries THEN due.check ELSE Checked.due
           r     == Away(m)
<1>1. /\ m' = [r EXCEPT !.keep = TRUE, !.wifiDead = dead, !.check = count]
      /\ due' = [due EXCEPT !.cell = 0, !.check = wait]
      /\ UNCHANGED <<Others, wifi, jam, dropped, cell, modem, status>>
  BY DEF WifiToCell, KeepWifi, KeepCell, Away
<1>2. m \in Tasks /\ due \in Dues
  BY Now
<1>3. Checked.check \in NotYet .. ProbeFails - 1 /\ Checked.due \in 0 .. 60
  BY <1>2, CheckedIn
<1>4. dead \in BOOLEAN /\ count \in NotYet .. ProbeFails - 1 /\ wait \in 0 .. 60
  <2>1. m.wifiDead \in BOOLEAN /\ m.check \in NotYet .. ProbeFails - 1 /\ due.check \in 0 .. 60
    BY <1>2 DEF Tasks, Dues, Timers
  <2> HIDE DEF tries
  <2> QED
    BY <1>3, <2>1
<1>5. r \in Tasks /\ r.pc = "top"
  BY <1>2, RowIn
<1> HIDE DEF dead, count, wait, r
<1>6. m' \in Tasks /\ m'.pc = "top"
  BY <1>1, <1>4, <1>5 DEF Tasks
<1>7. due' \in Dues /\ due'.reset = due.reset
  <2>1. 0 \in 0 .. 60 /\ {"cell", "check"} \subseteq Timers \ {"reset"}
    BY DEF Timers
  <2> DEFINE d == [due EXCEPT !.cell = 0]
  <2>2. d \in Dues /\ d.reset = due.reset /\ due' = [d EXCEPT !.check = wait]
    BY <1>1, <1>2, <2>1, OtherDue
  <2> HIDE DEF d
  <2> QED
    BY <1>4, <2>1, <2>2, OtherDue
<1>8. InMode(m'.pc)
  BY <1>6, PlainSteps
<1> QED
  BY <1>1, <1>6, <1>7, <1>8, Now, QuietKeeps

(* It does not lead to the Internet.                                       *)
LEMMA WifiDeadStep == NetInv /\ WifiDead => NetInv'
<1> SUFFICES ASSUME NetInv, WifiDead PROVE NetInv'
  OBVIOUS
<1> DEFINE count == Checked.check
           wait  == Checked.due
           hold  == IF mode = "both" THEN Wait.hold ELSE due.hold
           r     == Away(m)
<1>1. /\ m' = [r EXCEPT !.check = count] /\ due' = [due EXCEPT !.check = wait, !.hold = hold]
      /\ Associate(NoNet) /\ status' = "none"
      /\ UNCHANGED <<Others, dropped, cell, modem>>
  BY DEF WifiDead, KeepCell
<1>2. m \in Tasks /\ due \in Dues
  BY Now
<1>3. count \in NotYet .. ProbeFails - 1 /\ wait \in 0 .. 60
  BY <1>2, CheckedIn
<1>4. hold \in 0 .. 60
  BY <1>2, Waits DEF Dues, Timers
<1>5. r \in Tasks /\ r.pc = "top"
  BY <1>2, RowIn
<1> HIDE DEF count, wait, hold, r
<1>6. m' \in Tasks /\ m'.pc = "top"
  BY <1>1, <1>3, <1>5 DEF Tasks
<1>7. due' \in Dues /\ due'.reset = due.reset
  <2>1. {"check", "hold"} \subseteq Timers \ {"reset"}
    BY DEF Timers
  <2> DEFINE d == [due EXCEPT !.check = wait]
  <2>2. d \in Dues /\ d.reset = due.reset /\ due' = [d EXCEPT !.hold = hold]
    BY <1>1, <1>2, <1>3, <2>1, OtherDue
  <2> HIDE DEF d
  <2> QED
    BY <1>4, <2>1, <2>2, OtherDue
<1>8. InMode(m'.pc)
  BY <1>6, PlainSteps
<1>9. wifi' \in Known /\ jam' \in BOOLEAN
  <2>1. NoNet \in Known
    BY DEF Known
  <2> QED
    BY <1>1, <2>1, Now, AssociateIn
<1> QED
  BY <1>1, <1>6, <1>7, <1>8, <1>9, Now, QuietKeeps

(* It is kept.                                                             *)
LEMMA WifiStaysStep == NetInv /\ WifiStays => NetInv'
<1> SUFFICES ASSUME NetInv, WifiStays PROVE NetInv'
  OBVIOUS
<1> DEFINE count == Checked.check
           wait  == Checked.due
           dead  == m.wifiDead /\ mode # "cellular_first"
           r     == Rest(m)
<1>1. /\ m' = [r EXCEPT !.check = count, !.wifiDead = dead] /\ due' = [due EXCEPT !.check = wait]
      /\ UNCHANGED <<Others, wifi, jam, dropped, cell, modem, status>>
  BY DEF WifiStays, KeepWifi, KeepCell, Rest
<1>2. m \in Tasks /\ due \in Dues
  BY Now
<1>3. count \in NotYet .. ProbeFails - 1 /\ wait \in 0 .. 60
  BY <1>2, CheckedIn
<1>4. dead \in BOOLEAN
  OBVIOUS
<1>5. r \in Tasks /\ r.pc = "rest"
  BY <1>2, RowIn
<1> HIDE DEF count, wait, dead, r
<1>6. m' \in Tasks /\ m'.pc = "rest"
  BY <1>1, <1>3, <1>4, <1>5 DEF Tasks
<1>7. due' \in Dues /\ due'.reset = due.reset
  <2>1. "check" \in Timers \ {"reset"}
    BY DEF Timers
  <2> QED
    BY <1>1, <1>2, <1>3, <2>1, OtherDue
<1>8. InMode(m'.pc)
  BY <1>6, PlainSteps
<1> QED
  BY <1>1, <1>6, <1>7, <1>8, Now, QuietKeeps

-----------------------------------------------------------------------------
(* The 4G in use.                                                          *)

(* The calls that brought no Internet, and the checks of the one in use.   *)
LEMMA OnAirIn ==
    ASSUME m \in Tasks, due \in Dues
    PROVE  /\ Dead \in 0 .. DeadCalls
           /\ OnAir(m) \in Tasks /\ OnAir(m).pc = m.pc
           /\ NextCheck(due) \in Dues /\ NextCheck(due).reset = due.reset
<1>1. Dead \in 0 .. DeadCalls
  BY Waits DEF Dead, Tasks
<1> DEFINE dead == Dead  count == Checked.check  wait == Checked.due
<1>2. count \in NotYet .. ProbeFails - 1 /\ wait \in 0 .. 60
  BY CheckedIn
<1>3. OnAir(m) = [m EXCEPT !.cellDead = dead, !.check = count]
      /\ NextCheck(due) = [due EXCEPT !.check = wait] /\ dead \in 0 .. DeadCalls
  BY <1>1 DEF OnAir, NextCheck
<1> HIDE DEF dead, count, wait
<1>4. OnAir(m) \in Tasks /\ OnAir(m).pc = m.pc
  BY <1>2, <1>3 DEF Tasks
<1>5. "check" \in Timers \ {"reset"}
  BY DEF Timers
<1>6. [due EXCEPT !.check = wait] \in Dues /\ [due EXCEPT !.check = wait].reset = due.reset
  BY <1>2, <1>5, OtherDue
<1> QED
  BY <1>1, <1>3, <1>4, <1>6

(* The 4G is lost.                                                         *)
LEMMA CellGoneStep == NetInv /\ CellGone => NetInv'
<1> SUFFICES ASSUME NetInv, CellGone PROVE NetInv'
  OBVIOUS
<1> DEFINE dead == Dead
           r    == Away(m)
<1>1. /\ m' = [r EXCEPT !.cellDead = dead] /\ due' = [due EXCEPT !.cell = Wait.cell]
      /\ status' = "none" /\ UNCHANGED <<Others, wifi, jam, dropped, cell, modem>>
  BY DEF CellGone, KeepWifi, KeepCell
<1>2. dead \in 0 .. DeadCalls /\ r \in Tasks /\ r.pc = "top"
  BY Now, OnAirIn, RowIn
<1> HIDE DEF dead, r
<1>3. m' \in Tasks /\ m'.pc = "top"
  BY <1>1, <1>2 DEF Tasks
<1>4. due' \in Dues /\ due'.reset = due.reset
  <2>1. "cell" \in Timers \ {"reset"} /\ Wait.cell \in 0 .. 60
    BY Waits DEF Timers
  <2> QED
    BY <1>1, <2>1, Now, OtherDue
<1>5. InMode(m'.pc)
  BY <1>3, PlainSteps
<1> QED
  BY <1>1, <1>3, <1>4, <1>5, Now, QuietKeeps

(* It does not lead to the Internet, or started askew.                     *)
LEMMA CellFailsStep == NetInv /\ CellFails => NetInv'
<1> SUFFICES ASSUME NetInv, CellFails PROVE NetInv'
  OBVIOUS
<1> DEFINE dead  == Cap(Dead + 1, DeadCalls)
           reset == MayReset(dead, DeadCalls)
           wait  == IF Storm THEN due.check ELSE Checked.due
           next  == [due EXCEPT !.cell = Wait.cell, !.check = wait]
           left  == IF reset THEN 0 ELSE dead
           count == IF Storm THEN m.check ELSE Checked.check
           r     == Away(m)
<1>1. /\ m' = [r EXCEPT !.cellDead = left, !.check = count]
      /\ due' = IF reset THEN NextReset(next) ELSE next
      /\ modem' = IF reset /\ ready /\ modem = "mute" THEN "ok" ELSE modem
      /\ cell' = "down" /\ status' = "none"
      /\ UNCHANGED <<Others, wifi, jam, dropped>>
  BY DEF CellFails, KeepWifi, Away
<1>2. m \in Tasks /\ due \in Dues /\ ready
  BY Now DEF NetInv, CellFails
<1>3. Checked.check \in NotYet .. ProbeFails - 1 /\ Checked.due \in 0 .. 60
  BY <1>2, CheckedIn
<1>4. wait \in 0 .. 60 /\ count \in NotYet .. ProbeFails - 1
  <2>1. m.check \in NotYet .. ProbeFails - 1 /\ due.check \in 0 .. 60
    BY <1>2 DEF Tasks, Dues, Timers
  <2> QED
    BY <1>3, <2>1
<1>5. left \in 0 .. DeadCalls
  <2>1. Dead \in 0 .. DeadCalls
    BY <1>2, OnAirIn
  <2>2. dead \in 0 .. DeadCalls
    BY <2>1, Waits DEF Cap
  <2> HIDE DEF dead, reset
  <2> QED
    BY <2>2, Waits
<1>6. r \in Tasks /\ r.pc = "top"
  BY <1>2, RowIn
<1>7. next \in Dues /\ next.reset = due.reset
  <2>1. {"cell", "check"} \subseteq Timers \ {"reset"} /\ Wait.cell \in 0 .. 60
    BY Waits DEF Timers
  <2> DEFINE d == [due EXCEPT !.cell = Wait.cell]
  <2> HIDE DEF wait
  <2>2. d \in Dues /\ d.reset = due.reset /\ next = [d EXCEPT !.check = wait]
    BY <1>2, <2>1, OtherDue
  <2> HIDE DEF d, next
  <2> QED
    BY <1>4, <2>1, <2>2, OtherDue
<1> HIDE DEF reset, next, left, count, r
<1>8. m' \in Tasks /\ m'.pc = "top"
  BY <1>1, <1>4, <1>5, <1>6 DEF Tasks
<1>9. /\ due' \in Dues /\ modem' \in {"ok", "mute", "gone"}
      /\ silent = 0 \/ due'.reset > 0 \/ modem' # "ok"
  <2>1. CASE reset
    <3>1. due' = NextReset(next)
      BY <1>1, <2>1
    <3>2. due' \in Dues /\ due'.reset > 0
      BY <1>2, <1>7, <3>1, ResetIn
    <3> QED
      BY <1>1, <3>2, Now
  <2>2. CASE ~reset
    <3>1. due' = next /\ modem' = modem
      BY <1>1, <2>2
    <3> QED
      BY <1>7, <3>1, Now DEF NetInv
  <2> QED
    BY <2>1, <2>2
<1>10. InMode(m'.pc)
  BY <1>8, PlainSteps
<1> QED
  BY <1>1, <1>8, <1>9, <1>10, Now, PassKeeps DEF Others

(* A step with the 4G in use that closes it or leaves it alone.            *)
LEMMA CallingKeeps ==
    ASSUME NetInv, UNCHANGED <<Others, dropped, modem>>,
           wifi' \in Known, jam' \in BOOLEAN, cell' \in {cell, "down"},
           status' \in {"none", "wifi", "cell"},
           m' \in Tasks, due' \in Dues, due'.reset = due.reset,
           InMode(m'.pc), m'.pc \notin {"cf_failed", "modem"}
    PROVE  NetInv'
<1>1. (cell' # "down" => ready) /\ (silent = 0 \/ due'.reset > 0 \/ modem # "ok")
  BY DEF NetInv
<1> QED
  BY <1>1, Now, PassKeeps DEF Others

(* The panel has brought a WiFi.                                           *)
LEMMA CellToWifiStep == NetInv /\ CellToWifi => NetInv'
<1> SUFFICES ASSUME NetInv, CellToWifi PROVE NetInv'
  OBVIOUS
<1> DEFINE r == OnWifi(OnAir(m))
<1>1. /\ m' = [r EXCEPT !.check = NotYet] /\ due' = NextCheck(due) /\ status' = "wifi"
      /\ cell' = "down" /\ UNCHANGED <<Others, modem, wifi, jam, dropped>>
  BY DEF CellToWifi, KeepWifi
<1>2. due' \in Dues /\ due'.reset = due.reset /\ r \in Tasks /\ r.pc = "top"
  BY <1>1, Now, OnAirIn, RowIn
<1>3. NotYet \in NotYet .. ProbeFails - 1
  BY Waits DEF NotYet
<1> HIDE DEF r
<1>4. m' \in Tasks /\ m'.pc = "top"
  BY <1>1, <1>2, <1>3 DEF Tasks
<1>5. InMode(m'.pc)
  BY <1>4, PlainSteps
<1> QED
  BY <1>1, <1>2, <1>4, <1>5, Now, CallingKeeps

(* The WiFi is looked for.                                                 *)
LEMMA CellSeeksStep == NetInv /\ CellSeeks => NetInv'
<1> SUFFICES ASSUME NetInv, CellSeeks PROVE NetInv'
  OBVIOUS
<1> DEFINE r  == OnAir(m)
           pc == IF mode = "both" THEN "back_join" ELSE "home_join"
           d  == NextCheck(due)
<1>1. PICK n \in Candidates : m' = [r EXCEPT !.pc = pc, !.target = n]
  BY DEF CellSeeks
<1>2. /\ due' = IF mode = "both" THEN [d EXCEPT !.back = Wait.back]
                                    ELSE [d EXCEPT !.wifi = Wait.wifi]
      /\ UNCHANGED <<Others, status, wifi, jam, dropped, cell, modem>>
  BY DEF CellSeeks, KeepWifi, KeepCell
<1>3. r \in Tasks /\ d \in Dues /\ d.reset = due.reset
  BY Now, OnAirIn
<1>4. pc \in Steps /\ InMode(pc) /\ pc \notin {"cf_failed", "modem"}
  BY DEF Steps, InMode, CfSteps
<1>5. n \in Known
  BY CandidatesKnown
<1> HIDE DEF r, pc, d
<1>6. m' \in Tasks /\ m'.pc = pc
  BY <1>1, <1>3, <1>4, <1>5 DEF Tasks
<1>7. due' \in Dues /\ due'.reset = due.reset
  <2>1. {"back", "wifi"} \subseteq Timers \ {"reset"} /\ {Wait.back, Wait.wifi} \subseteq 0 .. 60
    BY Waits DEF Timers
  <2>2. CASE mode = "both"
    <3>1. due' = [d EXCEPT !.back = Wait.back]
      BY <1>2, <2>2
    <3> QED
      BY <1>3, <2>1, <3>1, OtherDue
  <2>3. CASE mode # "both"
    <3>1. due' = [d EXCEPT !.wifi = Wait.wifi]
      BY <1>2, <2>3
    <3> QED
      BY <1>3, <2>1, <3>1, OtherDue
  <2> QED
    BY <2>2, <2>3
<1> QED
  BY <1>2, <1>4, <1>6, <1>7, Now, QuietKeeps

(* The 4G is kept.                                                         *)
LEMMA CellStaysStep == NetInv /\ CellStays => NetInv'
<1> SUFFICES ASSUME NetInv, CellStays PROVE NetInv'
  OBVIOUS
<1>1. /\ m' = Rest(OnAir(m)) /\ due' = NextCheck(due)
      /\ UNCHANGED <<Others, status, wifi, jam, dropped, cell, modem>>
  BY DEF CellStays, KeepWifi, KeepCell
<1>2. due' \in Dues /\ due'.reset = due.reset /\ m' \in Tasks /\ m'.pc = "rest"
  BY <1>1, Now, OnAirIn, RowIn
<1>3. InMode(m'.pc)
  BY <1>2, PlainSteps
<1> QED
  BY <1>1, <1>2, <1>3, Now, QuietKeeps

(* A network that was not joined: the pass ends.                           *)
LEMMA NotJoined ==
    ASSUME m \in Tasks, m' = [Rest(m) EXCEPT !.target = NoNet]
    PROVE  m' \in Tasks /\ m'.pc = "rest"
<1> DEFINE r == Rest(m)
<1>1. r \in Tasks /\ r.pc = "rest" /\ m' = [r EXCEPT !.target = NoNet]
  BY RowIn
<1>2. NoNet \in Known
  BY DEF Known
<1> HIDE DEF r
<1> QED
  BY <1>1, <1>2 DEF Tasks

(* The WiFi in reserve is joined.                                          *)
LEMMA HomeJoinStep == NetInv /\ HomeJoin => NetInv'
<1> SUFFICES ASSUME NetInv, HomeJoin PROVE NetInv'
  OBVIOUS
<1>1. /\ Associate(IF Found THEN m.target ELSE NoNet) /\ m' = [Rest(m) EXCEPT !.target = NoNet]
      /\ UNCHANGED <<Others, status, due, dropped, cell, modem>>
  BY DEF HomeJoin, KeepCell
<1>2. m' \in Tasks /\ m'.pc = "rest" /\ wifi' \in Known /\ jam' \in BOOLEAN
  BY <1>1, Now, NotJoined, JoinedIn
<1>3. InMode(m'.pc)
  BY <1>2, PlainSteps
<1> QED
  BY <1>1, <1>2, <1>3, Now, QuietKeeps

(* The WiFi the SIM stands in for is joined.                               *)
LEMMA BackJoinStep == NetInv /\ BackJoin => NetInv'
<1> SUFFICES ASSUME NetInv, BackJoin PROVE NetInv'
  OBVIOUS
<1>1. Associate(IF Found THEN m.target ELSE NoNet) /\ UNCHANGED <<Others, due, dropped, modem>>
  BY DEF BackJoin
<1>2. wifi' \in Known /\ jam' \in BOOLEAN
  BY <1>1, Now, JoinedIn
<1>3. /\ m' \in Tasks /\ m'.pc \in {"top", "rest"} /\ status' \in {"none", "wifi", "cell"}
      /\ cell' \in {cell, "down"}
  <2>1. CASE Found
    <3>1. WifiUp /\ cell' = "down"
      BY <2>1 DEF BackJoin
    <3> QED
      BY <3>1, Now, WifiUpIs
  <2>2. CASE ~Found
    <3>1. m' = [Rest(m) EXCEPT !.target = NoNet] /\ UNCHANGED <<status, cell>>
      BY <2>2 DEF BackJoin
    <3> QED
      BY <3>1, Now, NotJoined
  <2> QED
    BY <2>1, <2>2
<1>4. InMode(m'.pc) /\ m'.pc \notin {"cf_failed", "modem"}
  BY <1>3, PlainSteps
<1> QED
  BY <1>1, <1>2, <1>3, <1>4, Now, CallingKeeps

-----------------------------------------------------------------------------
(* Time, the networks, the client and the panel.                           *)

(* A minute passes.                                                        *)
LEMMA TickStep == NetInv /\ Tick => NetInv'
<1> SUFFICES ASSUME NetInv, Tick PROVE NetInv'
  OBVIOUS
<1> DEFINE radio == Aged(m.radioAgo, Wait.radioMax)
           idle  == Aged(m.idleAgo, Wait.idleMax)
<1>1. /\ m' = [m EXCEPT !.pc = "top", !.radioAgo = radio, !.idleAgo = idle]
      /\ due' = [t \in Timers |-> IF due[t] = 0 THEN 0 ELSE due[t] - 1]
      /\ silent' = IF modem # "ok" /\ ~Starting THEN Cap(silent + 1, Wait.silent) ELSE 0
      /\ uptime' = Cap(uptime + 1, Wait.window) /\ UNCHANGED <<links, ap>>
  BY DEF Tick
<1>2. /\ m \in Tasks /\ due \in Dues /\ silent \in 0 .. Wait.silent
      /\ uptime \in 0 .. Wait.window /\ LinkTypes
  BY Now, Types DEF NetInv
<1>3. radio \in NotYet .. Wait.radioMax /\ idle \in NotYet .. Wait.idleMax
  <2>1. m.radioAgo \in NotYet .. Wait.radioMax /\ m.idleAgo \in NotYet .. Wait.idleMax
    BY <1>2 DEF Tasks
  <2> QED
    BY <2>1, Waits DEF Aged, Cap, NotYet
<1> HIDE DEF radio, idle
<1>4. m' \in Tasks /\ m'.pc = "top"
  BY <1>1, <1>2, <1>3 DEF Tasks, Steps
<1>5. due' \in Dues
  <2>1. \A t \in Timers : due[t] \in 0 .. 60
    BY <1>2 DEF Dues
  <2>2. \A t \in Timers : (IF due[t] = 0 THEN 0 ELSE due[t] - 1) \in 0 .. 60
    BY <2>1
  <2> QED
    BY <1>1, <2>2 DEF Dues
<1>6. silent' \in 0 .. Wait.silent /\ uptime' \in 0 .. Wait.window
      /\ (silent' = 0 \/ modem # "ok")
  BY <1>1, <1>2, Waits DEF Cap
<1>7. LinkTypes' /\ UNCHANGED <<ap, mode, cell, ready, modem>>
  BY <1>1, <1>2 DEF LinkTypes, links, world, outside, client, panel
<1>8. TypeOK'
  <2>1. ap' \in BOOLEAN
    BY <1>7, Now
  <2> QED
    BY <1>4, <1>5, <1>6, <1>7, <2>1 DEF TypeOK, Tasks, Dues, Known
<1>9. InMode(m.pc)'
  BY <1>4 DEF InMode, CfSteps
<1> QED
  BY <1>4, <1>6, <1>7, <1>8, <1>9 DEF NetInv

(* What happens beside the task.                                           *)
LEMMA BesideKeeps ==
    ASSUME NetInv, UNCHANGED <<m, due, silent, uptime, ap, mode>>, LinkTypes',
           ready => ready', cell = "down" => cell' = "down", modem # "ok" => modem' # "ok"
    PROVE  NetInv'
<1>1. TypeOK'
  BY DEF NetInv, TypeOK
<1> QED
  BY <1>1 DEF NetInv, InMode

(* The events, the client and the end of a test of the panel.              *)
LEMMA BesideStep == NetInv /\ Beside => NetInv'
<1> SUFFICES ASSUME NetInv, Beside PROVE NetInv'
  OBVIOUS
<1>1. LinkTypes /\ UNCHANGED <<m, due, silent, uptime, ap>>
  BY Types DEF NetInv, Beside
<1>2. CASE WifiLost
  BY <1>1, <1>2, BesideKeeps DEF WifiLost, LinkTypes, client, panel
<1>3. CASE CellInit
  BY <1>1, <1>3, BesideKeeps DEF CellInit, LinkTypes, world, outside, client, panel
<1>4. CASE TestEnds
  <2>1. /\ UNCHANGED <<world, mode, dropped, cell, ready, session, route>>
        /\ test' = NoNet /\ wifi' \in Known
        /\ principal' = IF wifi' # NoNet THEN test ELSE principal
        /\ wifi' # NoNet => wifi' = test
        /\ status' \in {"wifi", status}
    BY <1>1, <1>4 DEF TestEnds, LinkTypes, Known
  <2>2. principal' \in Wifis
    BY <1>1, <2>1 DEF LinkTypes, Known
  <2> QED
    BY <1>1, <2>1, <2>2, BesideKeeps DEF LinkTypes, world, outside, Known
<1>5. CASE Connect
  <2>1. session' \in {"wifi", "cell", "eth"} /\ route' = status
        /\ UNCHANGED <<world, mode, wifi, dropped, cell, ready, status, panel>>
    BY <1>5 DEF Connect
  <2> QED
    BY <1>1, <2>1, BesideKeeps DEF LinkTypes, world, outside, panel
<1>6. CASE Disconnect
  BY <1>1, <1>6, BesideKeeps DEF Disconnect, LinkTypes, world, outside, panel
<1> QED
  BY <1>2, <1>3, <1>4, <1>5, <1>6 DEF Beside

(* What a change around the receiver leaves alone.                         *)
LEMMA ChangeIs ==
    ASSUME LinkTypes, NEW c, Change(c)
    PROVE  changes' \in 0 .. MaxChanges
           /\ UNCHANGED <<mode, dropped, ready, status, session, route>>
BY ChangesAssumption DEF LinkTypes, Change, client

(* The networks, the modem and the panel change.                           *)
LEMMA AroundStep == NetInv /\ Around => NetInv'
<1> SUFFICES ASSUME NetInv, Around PROVE NetInv'
  OBVIOUS
<1>1. LinkTypes /\ UNCHANGED <<m, due, silent, uptime, ap>>
  BY Types DEF NetInv, Around
<1>2. /\ changes' \in 0 .. MaxChanges
      /\ UNCHANGED <<mode, dropped, ready, status, session, route>>
  <2>1. \E c \in ChangeNames : Change(c)
    BY DEF Around, WorldChanges, AirChanges, SimChanges, CableChanges, ServerChanges,
           ModemChanges, WifiJams, SerialErrors, CellLost, TestStart, ChangeNames
  <2> QED
    BY <1>1, <2>1, ChangeIs
<1>3. CASE AirChanges
  <2>1. PICK n \in Wifis, s \in Nets :
           /\ air' = [air EXCEPT ![n] = s]
           /\ UNCHANGED <<sim, cable, server, modem, jam, wifi, cell, panel>>
    BY <1>3 DEF AirChanges
  <2>2. air' \in [Wifis -> Nets]
    BY <1>1, <2>1 DEF LinkTypes
  <2> QED
    BY <1>1, <1>2, <2>1, <2>2, BesideKeeps DEF LinkTypes, panel
<1>4. CASE SimChanges
  BY <1>1, <1>2, <1>4, BesideKeeps DEF SimChanges, LinkTypes, panel
<1>5. CASE CableChanges
  BY <1>1, <1>2, <1>5, BesideKeeps DEF CableChanges, LinkTypes, panel
<1>6. CASE ServerChanges
  BY <1>1, <1>2, <1>6, BesideKeeps DEF ServerChanges, LinkTypes, panel
<1>7. CASE ModemChanges
  BY <1>1, <1>2, <1>7, BesideKeeps DEF ModemChanges, LinkTypes, panel
<1>8. CASE WifiJams
  BY <1>1, <1>2, <1>8, BesideKeeps DEF WifiJams, LinkTypes, panel
<1>9. CASE SerialErrors
  BY <1>1, <1>2, <1>9, BesideKeeps DEF SerialErrors, LinkTypes, panel
<1>10. CASE CellLost
  BY <1>1, <1>2, <1>10, BesideKeeps DEF CellLost, LinkTypes, panel
<1>11. CASE TestStart
  BY <1>1, <1>2, <1>11, BesideKeeps DEF TestStart, LinkTypes, Visible
<1> QED
  BY <1>3, <1>4, <1>5, <1>6, <1>7, <1>8, <1>9, <1>10, <1>11 DEF Around, WorldChanges

-----------------------------------------------------------------------------
(* The invariant and the theorems.                                         *)

(* At the boot.                                                            *)
LEMMA NetInit == Init => NetInv
<1> SUFFICES ASSUME Init PROVE NetInv
  OBVIOUS
<1>1. LinkTypes
  <2>1. First \in Wifis
    BY DEF First
  <2>2. air \in [Wifis -> Nets] /\ changes \in 0 .. MaxChanges
    BY ChangesAssumption DEF Init, LinkInit, Nets
  <2>3. UNION {{server}, {jam}, {dropped}, {ready}} \subseteq BOOLEAN
    BY DEF Init, LinkInit
  <2>4. /\ sim \in Nets /\ cable \in Nets /\ modem = "ok" /\ mode \in Modes /\ wifi = NoNet
        /\ test = NoNet /\ principal = First /\ cell = "down"
        /\ status = "none" /\ route = "none" /\ session = "none"
    BY DEF Init, LinkInit, Nets
  <2> QED
    BY <2>1, <2>2, <2>3, <2>4 DEF LinkTypes
<1>2. m \in Tasks /\ m.pc = "top"
  BY Waits DEF Init, Boot, Tasks, Steps, Known, NotYet
<1>3. due \in Dues
  BY DEF Init, Dues
<1>4. silent = 0 /\ uptime = 0 /\ ap \in BOOLEAN /\ cell = "down"
  BY DEF Init, LinkInit
<1>5. TypeOK
  BY <1>1, <1>2, <1>3, <1>4, Waits, Types
<1>6. InMode(m.pc)
  BY <1>2, PlainSteps
<1> QED
  BY <1>2, <1>4, <1>5, <1>6 DEF NetInv

(* Every step keeps the invariant.                                         *)
LEMMA NetStep == NetInv /\ [Next]_vars => NetInv'
<1> SUFFICES ASSUME NetInv, [Next]_vars PROVE NetInv'
  OBVIOUS
<1>1. CASE GatewayIdle \/ Gateway \/ IdleReset
  BY <1>1, GatewayIdleStep, GatewayStep, IdleResetStep
<1>2. CASE CellFirst4G
  BY <1>2, CfScanStep, CfJoinStep, CfNotDueStep, CfDialStep, CfProbeStep, CfFailedStep, CfStayStep
     DEF CellFirst4G
<1>3. CASE NoLink
  BY <1>3, EthOnlyStep, AdoptStep, WaitTestStep, ScanStep, JoinStep, EthProbeStep, DialNoneStep,
     DialStep, DialFailStep DEF NoLink
<1>4. CASE OnTheWifi
  BY <1>4, WifiTestedStep, WifiGoneStep, WifiToCellStep, WifiDeadStep, WifiStaysStep DEF OnTheWifi
<1>5. CASE OnTheCell
  BY <1>5, CellGoneStep, CellFailsStep, CellToWifiStep, CellSeeksStep, CellStaysStep, HomeJoinStep,
     BackJoinStep DEF OnTheCell
<1>6. CASE Tick
  BY <1>6, TickStep
<1>7. CASE Beside
  BY <1>7, BesideStep
<1>8. CASE Around
  BY <1>8, AroundStep
<1>9. CASE UNCHANGED vars
  <2>1. /\ UNCHANGED <<m, due, silent, uptime, ap, mode, cell, ready, modem>>
        /\ UNCHANGED <<air, sim, cable, server, changes, jam, wifi, dropped>>
        /\ UNCHANGED <<status, session, route, test, principal>>
    BY <1>9 DEF vars, links, world, outside, client, panel
  <2>2. LinkTypes'
    BY <2>1, Types DEF NetInv, LinkTypes
  <2> QED
    BY <2>1, <2>2, BesideKeeps
<1> QED
  BY <1>1, <1>2, <1>3, <1>4, <1>5, <1>6, <1>7, <1>8, <1>9 DEF Next, Pass

(* The invariant holds.                                                    *)
LEMMA NetInvHolds == Spec => []NetInv
BY NetInit, NetStep, PTL DEF Spec

(* Whatever fails and however often, every deadline stays within the hour, *)
(* every wait between its least and its greatest value, and no count of    *)
(* failures passes the recovery it calls for.                              *)
THEOREM NetTypes == Spec => []TypeOK
<1>1. NetInv => TypeOK
  BY DEF NetInv
<1> QED
  BY <1>1, NetInvHolds, PTL

(* The 4G is put down by a step of the task only if it does not carry, or  *)
(* for a WiFi.                                                             *)
LEMMA PassCloses ==
    ASSUME NetInv, Pass, session = "cell", Carries("cell"), cell' = "down"
    PROVE  mode = "both" /\ wifi' # NoNet
<1>1. cell = "up" /\ modem = "ok" /\ ready /\ Answers
  BY DEF Carries, NetInv, Answers
<1>2. cell # "down" /\ cell' # cell
  BY <1>1
<1>3. ~IdleReset /\ ~CfFailed
  BY <1>1 DEF IdleReset, CfFailed, NetInv
<1>4. ~CfDial
  BY <1>1 DEF CfDial
<1>5. ~CfProbe
  <2>1. ASSUME CfProbe PROVE Reaches
    <3>1. mode = "cellular_first"
      BY <2>1 DEF CfProbe, NetInv, InMode, CfSteps
    <3>2. DefaultIs("cell")
      BY <1>1, <3>1 DEF DefaultIs, IsUp, Above
    <3> QED
      BY <3>2 DEF Reaches
  <2> QED
    BY <1>2, <2>1 DEF CfProbe
<1>6. ~Dial /\ ~DialFail
  BY <1>1 DEF Dial, DialFail
<1>7. ~CellFails
  <2>1. ~Storm
    BY <1>1 DEF Storm
  <2>2. ~Checked.dead
    BY Now, CheckedIn
  <2> QED
    BY <2>1, <2>2 DEF CellFails, Fails
<1>8. CASE CellToWifi
  BY <1>8 DEF CellToWifi, KeepWifi
<1>9. CASE BackJoin
  <2>1. mode = "both"
    BY <1>9 DEF BackJoin, Joins, NetInv, InMode
  <2>2. Found
    BY <1>2, <1>9 DEF BackJoin
  <2>3. wifi' = m.target
    BY <1>9, <2>2 DEF BackJoin, Associate
  <2> QED
    BY <2>1, <2>2, <2>3 DEF Found
<1>10. CASE GatewayIdle \/ Gateway
  BY <1>2, <1>10 DEF GatewayIdle, Gateway, KeepCell
<1>11. CASE CfScan \/ CfJoin \/ CfNotDue \/ CfStay
  BY <1>2, <1>11 DEF CfScan, CfJoin, CfNotDue, CfStay, KeepCell
<1>12. CASE EthOnly \/ Adopt \/ WaitTest \/ Scan \/ Join \/ EthProbe \/ DialNone
  BY <1>2, <1>12 DEF EthOnly, Adopt, WaitTest, Scan, Join, EthProbe, DialNone, KeepCell
<1>13. CASE OnTheWifi
  BY <1>2, <1>13 DEF OnTheWifi, WifiTested, WifiGone, WifiToCell, WifiDead, WifiStays, KeepCell
<1>14. CASE CellGone \/ CellSeeks \/ CellStays \/ HomeJoin
  BY <1>2, <1>14 DEF CellGone, CellSeeks, CellStays, HomeJoin, KeepCell
<1> QED
  BY <1>3, <1>4, <1>5, <1>6, <1>7, <1>8, <1>9, <1>10, <1>11, <1>12, <1>13, <1>14
     DEF Pass, CellFirst4G, NoLink, OnTheCell

(* A 4G that carries the session is closed by the networks or for a WiFi   *)
(* that has taken over in "WiFi + 4G": never by a restart of the modem, a  *)
(* failed call, a check or a mode's change of link (net_manager.c).        *)
THEOREM ServingCellKeptHolds == Spec => ServingCellKept
<1> DEFINE Keeps == session = "cell" /\ Carries("cell") /\ cell' = "down"
                      => changes' # changes \/ (mode = "both" /\ wifi' # NoNet)
<1>1. NetInv /\ [Next]_vars => [Keeps]_vars
  <2> SUFFICES ASSUME NetInv, Next, session = "cell", Carries("cell"), cell' = "down"
               PROVE  changes' # changes \/ (mode = "both" /\ wifi' # NoNet)
    OBVIOUS
  <2>1. cell # cell'
    BY DEF Carries
  <2>2. CASE Pass
    BY <2>2, PassCloses
  <2>3. CASE Tick
    BY <2>1, <2>3 DEF Tick, links
  <2>4. CASE Beside
    BY <2>1, <2>4 DEF Beside, WifiLost, CellInit, TestEnds, Connect, Disconnect
  <2>5. CASE Around
    <3>1. \E c \in ChangeNames : Change(c)
      BY <2>5 DEF Around, WorldChanges, AirChanges, SimChanges, CableChanges, ServerChanges,
             ModemChanges, WifiJams, SerialErrors, CellLost, TestStart, ChangeNames
    <3>2. changes \in 0 .. MaxChanges
      BY Types DEF NetInv, LinkTypes
    <3>3. changes' = changes + 1
      BY <3>1 DEF Change
    <3> QED
      BY <3>2, <3>3, ChangesAssumption
  <2> QED
    BY <2>2, <2>3, <2>4, <2>5 DEF Next
<1> QED
  BY <1>1, NetInvHolds, PTL DEF Spec, ServingCellKept
==============================================================================
