----------------------------- MODULE NetManager -----------------------------
(***************************************************************************)
(* The task that keeps the receiver on line (main/net_manager.c): one pass *)
(* of its loop looks after the WiFi in reserve and the modem that does not *)
(* answer, then goes on from the link in use.  A pass is cut at every call *)
(* that blocks (scan, association, PPP, probe), so that the networks, the  *)
(* client and the panel move in between.  No safety restart                 *)
(* (main/sys_stats.c) comes to the rescue: a rover has none of the two.    *)
(*                                                                         *)
(* Time goes by minutes.  Every deadline of the code counts down to 0; the *)
(* durations are constants.  A pass takes less than a minute, and a minute *)
(* does not end before whatever takes seconds is done (Prompt).            *)
(***************************************************************************)
EXTENDS Links

CONSTANTS
    Wait,        \* the durations, in minutes: see WaitNames
    ProbeFails,  \* NET_PROBE_FAILS
    DialFails,   \* failed calls before the modem is restarted: 3
    DeadCalls,   \* calls without Internet before it is: 2
    BadPings     \* bad checks of the router before the radio is: 3

WaitNames == {"check", "probe", "pause", "hold", "cell", "cellMax", "wifi",
              "wifiFast", "boot", "window", "back", "reset", "silent", "idle",
              "idleMax", "gateway", "radio", "radioMax", "ap"}
Timers == {"check", "cell", "wifi", "hold", "back", "reset", "gateway", "eth", "ap"}

(* A restart that fails is repeated later and later; nothing else waits    *)
(* for more than an hour.                                                  *)
ASSUME WaitAssumption ==
    /\ Wait \in [WaitNames -> Nat \ {0}]
    /\ \A n \in WaitNames \ {"window", "silent", "idle", "idleMax", "radio", "radioMax"} :
          Wait[n] <= 60
    /\ Wait.cell <= Wait.cellMax /\ Wait.idle <= Wait.idleMax /\ Wait.radio <= Wait.radioMax
ASSUME FailsAssumption == {ProbeFails, DialFails, DeadCalls, BadPings} \subseteq Nat \ {0}

VARIABLES
    m,      \* the variables of net_manager_task
    due,    \* minutes to each deadline
    silent, \* minutes since the modem was found silent (sim_tools.c)
    uptime, \* minutes since the boot, up to Wait.window
    ap      \* the setup network is on

vars == <<links, m, due, silent, uptime, ap>>

NotYet == -1    \* no_caster_since_us = 0, idle_reset_us = 0, gw_restart_us = 0

Steps == {"top", "modem", "select", "cf_join", "cf_cell", "cf_probe",
          "cf_failed", "cf_stay", "join", "eth", "dial", "home_join",
          "back_join", "rest"}

Boot == [pc |-> "top", active |-> "none", target |-> NoNet, check |-> NotYet,
         cellFail |-> 0, cellDead |-> 0, cellWait |-> Wait.cell,
         keep |-> FALSE, wifiDead |-> FALSE, ethOk |-> FALSE, ethDown |-> FALSE,
         gwBad |-> 0, gwOk |-> FALSE, radioAgo |-> NotYet, radioWait |-> Wait.radio,
         idleAgo |-> NotYet, idleWait |-> Wait.idle]

Cap(n, max)     == IF n > max THEN max ELSE n
(* Mutant: a wait that doubles without its limit.                          *)
DoubledForever(n, max) == 2 * n

Doubled(n, max) == Cap(2 * n, max)

(* Types, and: no counter outgrows the recovery it is for.                 *)
TypeOK ==
    /\ LinkTypes
    /\ m \in [pc : Steps, active : {"none", "wifi", "cell"},
              target : Wifis \union {NoNet},
              check : NotYet .. ProbeFails - 1,
              cellFail : 0 .. DialFails, cellDead : 0 .. DeadCalls,
              cellWait : Wait.cell .. Wait.cellMax,
              keep : BOOLEAN, wifiDead : BOOLEAN, ethOk : BOOLEAN, ethDown : BOOLEAN,
              gwBad : 0 .. BadPings, gwOk : BOOLEAN,
              radioAgo : NotYet .. Wait.radioMax,
              radioWait : Wait.radio .. Wait.radioMax,
              idleAgo : NotYet .. Wait.idleMax, idleWait : Wait.idle .. Wait.idleMax]
    /\ due \in [Timers -> 0 .. 60]
    /\ silent \in 0 .. Wait.silent /\ uptime \in 0 .. Wait.window
    /\ ap \in BOOLEAN

Init ==
    /\ LinkInit
    /\ m = Boot /\ due = [t \in Timers |-> 0]
    /\ silent = 0 /\ uptime = 0 /\ ap = (mode # "ethernet_only")

---------------------------------------------------------------------------
(* Parts of several steps.                                                 *)

Others == <<outside, mode, ready, session, route, panel, silent, uptime, ap>>

(* The station goes to network n, or to none; the driver starts afresh.    *)
Associate(n) == wifi' = n /\ jam' = (jam /\ n = wifi)
KeepWifi     == UNCHANGED <<wifi, jam, dropped>>
KeepCell     == UNCHANGED <<cell, modem>>

(* cellular_link_reset_modem, and the turn it takes: counted only once the *)
(* modem has been initialised.                                             *)
ResetModem ==
    /\ cell'  = IF ready THEN "down" ELSE cell
    /\ modem' = IF ready /\ modem = "mute" THEN "ok" ELSE modem
NextReset(d) == [d EXCEPT !.reset = IF ready THEN Wait.reset ELSE @]

(* Calls that failed, or brought no Internet, count up to a restart of the *)
(* modem, at most one every ten minutes.                                   *)
MayReset(n, limit) == n >= limit /\ due.reset = 0

Answers == ready /\ modem = "ok" /\ sim # "off"

OnWifi(r) == [r EXCEPT !.pc = "top", !.active = "wifi"]
OnCell(r) == [r EXCEPT !.pc = "top", !.active = "cell", !.cellFail = 0,
                       !.check = NotYet]
Away(r)   == [r EXCEPT !.pc = "top", !.active = "none"]
Rest(r)   == [r EXCEPT !.pc = "rest"]

---------------------------------------------------------------------------
(* Before the link in use: the WiFi in reserve and the silent modem.       *)

(* Mutant: the WiFi in reserve is looked after with no link in use only.    *)
BackupIdle == m.active = "none" /\ mode \notin {"cellular", "ethernet_only"}

Backup == m.active # "wifi" /\ mode \notin {"cellular", "ethernet_only"}

(* Mutant: a mute modem does not matter while the WiFi is in use.           *)
OtherLinkCable == m.active = "none" /\ cable # "off"

OtherLink == m.active = "wifi" \/ (m.active = "none" /\ cable # "off")
IdleWait  == IF silent = 0 THEN Wait.idle ELSE m.idleWait
MuteLong  == /\ OtherLink /\ mode \notin {"wifi", "ethernet_only"}
             /\ silent = Wait.silent /\ due.reset = 0
             /\ m.idleAgo = NotYet \/ m.idleAgo >= IdleWait
Look(r) == IF MuteLong THEN [r EXCEPT !.pc = "modem"]
           ELSE [r EXCEPT !.pc = "select", !.idleWait = IdleWait]

GatewayIdle ==
    /\ m.pc = "top"
    /\ \/ /\ ~Backup \/ test # NoNet
          /\ m' = Look([m EXCEPT !.gwBad = 0]) /\ dropped' = FALSE
       \/ /\ Backup /\ test = NoNet /\ due.gateway > 0
          /\ m' = Look(m) /\ dropped' = dropped
    /\ UNCHANGED <<Others, wifi, jam, cell, modem, status, due>>

(* Eight pings to the router; after enough bad checks the radio is turned  *)
(* off and on, further and further apart (nobody is on the setup network). *)
Gateway ==
    /\ m.pc = "top" /\ Backup /\ test = NoNet /\ due.gateway = 0
    /\ LET up    == wifi # NoNet
           good  == up /\ ~jam /\ ~dropped
           seen  == m.gwOk \/ (up /\ ~jam)
           bad   == IF good THEN 0
                    ELSE IF up THEN Cap(m.gwBad + 1, BadPings) ELSE m.gwBad
           wait  == IF good THEN Wait.radio ELSE m.radioWait
           again == bad = BadPings /\ seen
                    /\ (m.radioAgo = NotYet \/ m.radioAgo >= wait)
       IN  /\ m' = Look([m EXCEPT !.gwOk = seen,
                       !.gwBad = IF again THEN 0 ELSE bad,
                       !.radioAgo = IF again THEN 0 ELSE @,
                       !.radioWait = IF again /\ m.radioAgo # NotYet
                                     THEN Doubled(wait, Wait.radioMax) ELSE wait])
           /\ due' = [due EXCEPT !.gateway = Wait.gateway,
                                 !.wifi = IF again THEN 0 ELSE @]
           /\ Associate(IF again THEN NoNet ELSE wifi)
    /\ dropped' = FALSE
    /\ KeepCell /\ UNCHANGED <<Others, status>>

IdleReset ==
    /\ m.pc = "modem"
    /\ ResetModem
    /\ m' = [m EXCEPT !.pc = "select", !.idleAgo = 0,
                !.idleWait = IF m.idleAgo = NotYet THEN IdleWait
                             ELSE Doubled(IdleWait, Wait.idleMax)]
    /\ due' = NextReset(due)
    /\ KeepWifi /\ UNCHANGED <<Others, status>>

---------------------------------------------------------------------------
(* LINK_NONE: "4G with WiFi in reserve".                                   *)

None(md) == m.pc = "select" /\ m.active = "none" /\ mode \in md
CellFirst == {"cellular_first"}

CfScan ==
    /\ None(CellFirst) /\ wifi = NoNet /\ test = NoNet /\ due.wifi = 0
    /\ \E n \in Candidates : m' = [m EXCEPT !.pc = "cf_join", !.target = n]
    /\ KeepWifi /\ KeepCell /\ UNCHANGED <<Others, status, due>>

(* An association waits for the test to release the WiFi, then goes to the *)
(* network it had chosen before.                                           *)
Joins(pc) == m.pc = pc /\ test = NoNet
Found     == m.target # NoNet /\ air[m.target] # "off"

CfJoin ==
    /\ Joins("cf_join")
    /\ Associate(IF Found THEN m.target ELSE NoNet)
    /\ due' = [due EXCEPT !.wifi = IF Found THEN @
                                   ELSE IF cell # "down" THEN Wait.wifi ELSE Wait.wifiFast]
    /\ m' = [m EXCEPT !.pc = "cf_cell", !.target = NoNet]
    /\ dropped' = dropped /\ KeepCell /\ UNCHANGED <<Others, status>>

(* No call is due, or the last one failed.                                 *)
Stays(r) ==
    IF wifi # NoNet
    THEN /\ m' = [OnWifi(r) EXCEPT !.check = IF m.keep THEN @ ELSE NotYet, !.keep = FALSE]
         /\ status' = "wifi"
    ELSE /\ m' = [Rest(r) EXCEPT !.keep = FALSE, !.wifiDead = FALSE]
         /\ status' = "none"

NoScan == None(CellFirst) /\ (wifi # NoNet \/ test # NoNet \/ due.wifi > 0)
Calls  == m.pc = "cf_cell" \/ NoScan

CfNotDue ==
    /\ Calls /\ (due.cell > 0 \/ ~ready)
    /\ due' = [due EXCEPT !.cell = IF @ > 0 THEN @ ELSE Wait.boot]
    /\ Stays(m)
    /\ KeepWifi /\ KeepCell /\ UNCHANGED Others

(* The 4G is in use.                                                       *)
CfUp ==
    /\ status' = "cell"
    /\ m' = [OnCell(m) EXCEPT !.keep = FALSE, !.wifiDead = FALSE,
                              !.cellWait = Wait.cell]
    /\ due' = [due EXCEPT !.back = Wait.back, !.check = 0]

(* Mutant: a call that gets an address counts as the Internet.              *)
CfDialTrusting ==
    /\ Calls /\ due.cell = 0 /\ ready
    /\ IF Answers THEN cell' = "up" /\ CfUp
       ELSE /\ cell' = "down" /\ m' = [m EXCEPT !.pc = "cf_failed"]
            /\ UNCHANGED <<status, due>>
    /\ modem' = modem /\ KeepWifi /\ UNCHANGED Others

CfDial ==
    /\ Calls /\ due.cell = 0 /\ ready
    /\ IF Answers /\ (wifi = NoNet \/ m.wifiDead)
       THEN cell' = "up" /\ CfUp
       ELSE /\ cell' = IF Answers THEN "up" ELSE "down"
            /\ m' = [m EXCEPT !.pc = IF Answers THEN "cf_probe" ELSE "cf_failed"]
            /\ UNCHANGED <<status, due>>
    /\ modem' = modem /\ KeepWifi /\ UNCHANGED Others

(* With a WiFi that works the 4G has to show that it leads to the Internet. *)
CfProbe ==
    /\ m.pc = "cf_probe"
    /\ IF Reaches THEN cell' = cell /\ CfUp
       ELSE /\ cell' = "down" /\ m' = [m EXCEPT !.pc = "cf_failed"]
            /\ UNCHANGED <<status, due>>
    /\ modem' = modem /\ KeepWifi /\ UNCHANGED Others

Starting == uptime < Wait.window

(* Mutant: the WiFi without Internet is never joined anew.                  *)
WifiUselessNever == FALSE
WifiUseless == m.wifiDead /\ wifi # NoNet

(* The next call further and further off while the WiFi works, a restart   *)
(* of the modem every so many, and a WiFi without Internet joined anew.    *)
CfFailed ==
    /\ m.pc = "cf_failed"
    /\ LET wait  == IF wifi = NoNet \/ m.wifiDead THEN Wait.cell ELSE m.cellWait
           fails == Cap((IF Starting THEN 0 ELSE m.cellFail) + 1, DialFails)
           reset == MayReset(fails, DialFails)
           again == WifiUseless
           next  == [due EXCEPT !.cell = IF Starting THEN Wait.boot ELSE wait]
           r     == [m EXCEPT !.cellFail = IF reset THEN 0 ELSE fails,
                              !.cellWait = IF Starting THEN wait
                                           ELSE Doubled(wait, Wait.cellMax)]
       IN  /\ IF reset THEN ResetModem ELSE KeepCell
           /\ due' = [(IF reset THEN NextReset(next) ELSE next)
                        EXCEPT !.wifi = IF again THEN 0 ELSE @]
           /\ IF again
              THEN /\ m' = [Away(r) EXCEPT !.wifiDead = FALSE, !.keep = FALSE]
                   /\ status' = status
              ELSE IF reset THEN m' = [r EXCEPT !.pc = "cf_stay"] /\ status' = status
              ELSE Stays(r)
           /\ Associate(IF again THEN NoNet ELSE wifi)
    /\ dropped' = dropped /\ UNCHANGED Others

CfStay ==
    /\ m.pc = "cf_stay" /\ Stays(m)
    /\ KeepWifi /\ KeepCell /\ UNCHANGED <<Others, due>>

---------------------------------------------------------------------------
(* LINK_NONE in the other modes.                                           *)

(* Mutant: the wait for the setup network starts again at every pass.       *)
EthOnlyRearmed ==
    /\ None({"ethernet_only"}) /\ status' = "none"
    /\ LET down == cable = "off"
       IN  /\ ap' = (ap \/ (down /\ m.ethDown /\ due.ap = 0))
           /\ due' = [due EXCEPT !.ap = IF down THEN Wait.ap ELSE @]
           /\ m' = [Rest(m) EXCEPT !.ethDown = down]
    /\ KeepWifi /\ KeepCell
    /\ UNCHANGED <<outside, mode, ready, session, route, panel, silent, uptime>>

(* The cable alone; after a while without it the setup network.            *)
EthOnly ==
    /\ None({"ethernet_only"})
    /\ status' = "none"
    /\ LET down == cable = "off"
       IN  /\ ap' = (ap \/ (down /\ m.ethDown /\ due.ap = 0))
           /\ due' = [due EXCEPT !.ap = IF down /\ ~m.ethDown THEN Wait.ap ELSE @]
           /\ m' = [Rest(m) EXCEPT !.ethDown = down]
    /\ KeepWifi /\ KeepCell
    /\ UNCHANGED <<outside, mode, ready, session, route, panel, silent, uptime>>

Plain == {"wifi", "cellular", "both"}

(* The WiFi is in use: just adopted, or just joined.                       *)
WifiUp == /\ status' = "wifi"
          /\ m' = [OnWifi(m) EXCEPT !.check = NotYet, !.target = NoNet]

Adopts == wifi # NoNet /\ mode # "cellular"
Held   == mode = "both" /\ due.hold > 0

Adopt ==
    /\ None(Plain) /\ Adopts /\ WifiUp
    /\ KeepWifi /\ KeepCell /\ UNCHANGED <<Others, due>>

WaitTest ==
    /\ None(Plain) /\ ~Adopts /\ test # NoNet
    /\ m' = Rest(m)
    /\ KeepWifi /\ KeepCell /\ UNCHANGED <<Others, status, due>>

Scan ==
    /\ None(Plain) /\ ~Adopts /\ test = NoNet
    /\ IF mode = "cellular" \/ Held THEN m' = [m EXCEPT !.pc = "eth"]
       ELSE \E n \in Candidates : m' = [m EXCEPT !.pc = "join", !.target = n]
    /\ KeepWifi /\ KeepCell /\ UNCHANGED <<Others, status, due>>

Join ==
    /\ Joins("join")
    /\ Associate(IF Found THEN m.target ELSE NoNet)
    /\ IF Found THEN WifiUp
       ELSE m' = [m EXCEPT !.pc = "eth", !.target = NoNet] /\ status' = status
    /\ dropped' = dropped /\ KeepCell /\ UNCHANGED <<Others, due>>

(* A cable that leads to the Internet makes the SIM unnecessary.           *)
EthProbe ==
    /\ m.pc = "eth"
    /\ LET probes == cable # "off" /\ due.eth = 0
           ok     == IF probes THEN Reaches ELSE m.ethOk
           works  == cable # "off" /\ ok
       IN  /\ m' = [m EXCEPT !.pc = IF works THEN "rest" ELSE "dial", !.ethOk = ok]
           /\ due' = [due EXCEPT !.eth = IF ~probes THEN @
                                         ELSE IF ok THEN Wait.pause ELSE Wait.probe]
           /\ status' = IF works THEN "none" ELSE status
    /\ KeepWifi /\ KeepCell /\ UNCHANGED Others

DialNone ==
    /\ m.pc = "dial" /\ mode = "wifi"
    /\ m' = Rest(m) /\ status' = "none"
    /\ KeepWifi /\ KeepCell /\ UNCHANGED <<Others, due>>

Dial ==
    /\ m.pc = "dial" /\ mode # "wifi" /\ Answers
    /\ cell' = "up" /\ modem' = modem /\ status' = "cell"
    /\ m' = OnCell(m) /\ due' = [due EXCEPT !.back = Wait.back, !.check = 0]
    /\ KeepWifi /\ UNCHANGED Others

DialFail ==
    /\ m.pc = "dial" /\ mode # "wifi" /\ ~Answers
    /\ LET fails == Cap(m.cellFail + 1, DialFails)
           reset == MayReset(fails, DialFails)
           next  == [due EXCEPT !.hold = 0]
       IN  /\ m' = [Rest(m) EXCEPT !.cellFail = IF reset THEN 0 ELSE fails]
           /\ IF reset THEN ResetModem /\ due' = NextReset(next)
              ELSE KeepCell /\ due' = next
    /\ status' = "none"
    /\ KeepWifi /\ UNCHANGED Others

---------------------------------------------------------------------------
(* net_check_dead: whether the link in use leads to the Internet.          *)

Check(c, d, dead) == [check |-> c, due |-> d, dead |-> dead]
Checked ==
    CASE session # "none" -> Check(NotYet, 0, FALSE)
      [] session = "none" /\ m.check = NotYet -> Check(0, Wait.check, FALSE)
      [] session = "none" /\ m.check # NotYet /\ due.check > 0 ->
             Check(m.check, due.check, FALSE)
      [] OTHER -> IF Reaches THEN Check(0, Wait.pause, FALSE)
                  ELSE IF m.check + 1 = ProbeFails THEN Check(NotYet, 0, TRUE)
                  ELSE Check(m.check + 1, Wait.probe, FALSE)

(* LINK_WIFI.                                                              *)
Wifi == m.pc = "select" /\ m.active = "wifi"

WifiTested ==
    /\ Wifi /\ test # NoNet /\ m' = Rest(m)
    /\ KeepWifi /\ KeepCell /\ UNCHANGED <<Others, status, due>>

WifiGone ==
    /\ Wifi /\ test = NoNet /\ wifi = NoNet
    /\ m' = Away(m) /\ status' = "none"
    /\ KeepWifi /\ KeepCell /\ UNCHANGED <<Others, due>>

Using == Wifi /\ test = NoNet /\ wifi # NoNet

(* "4G with WiFi in reserve": the 4G is tried again, with the WiFi on.     *)
WifiToCell ==
    /\ Using /\ mode = "cellular_first"
    /\ LET tries == due.cell = 0
       IN  /\ tries \/ Checked.dead
           /\ m' = [Away(m) EXCEPT !.keep = TRUE, !.wifiDead = IF tries THEN @ ELSE TRUE,
                                   !.check = IF tries THEN @ ELSE Checked.check]
           /\ due' = [due EXCEPT !.cell = 0,
                                 !.check = IF tries THEN @ ELSE Checked.due]
    /\ KeepWifi /\ KeepCell /\ UNCHANGED <<Others, status>>

WifiDead ==
    /\ Using /\ mode # "cellular_first" /\ Checked.dead
    /\ m' = [Away(m) EXCEPT !.check = Checked.check]
    /\ due' = [due EXCEPT !.check = Checked.due,
                          !.hold = IF mode = "both" THEN Wait.hold ELSE @]
    /\ status' = "none" /\ Associate(NoNet)
    /\ dropped' = dropped /\ KeepCell /\ UNCHANGED Others

WifiStays ==
    /\ Using /\ ~Checked.dead /\ (mode = "cellular_first" => due.cell > 0)
    /\ m' = [Rest(m) EXCEPT !.check = Checked.check,
                            !.wifiDead = @ /\ mode # "cellular_first"]
    /\ due' = [due EXCEPT !.check = Checked.due]
    /\ KeepWifi /\ KeepCell /\ UNCHANGED <<Others, status>>

---------------------------------------------------------------------------
(* LINK_CELLULAR.                                                          *)

Cell  == m.pc = "select" /\ m.active = "cell"
Storm == cell = "crooked" /\ session = "none"
Dead  == IF session = "none" THEN m.cellDead ELSE 0
Fails == Storm \/ Checked.dead

CellGone ==
    /\ Cell /\ cell = "down"
    /\ m' = [Away(m) EXCEPT !.cellDead = Dead] /\ status' = "none"
    /\ due' = [due EXCEPT !.cell = Wait.cell]
    /\ KeepWifi /\ KeepCell /\ UNCHANGED Others

CellFails ==
    /\ Cell /\ cell # "down" /\ Fails
    /\ LET dead  == Cap(Dead + 1, DeadCalls)
           reset == MayReset(dead, DeadCalls)
           next  == [due EXCEPT !.cell = Wait.cell,
                                !.check = IF Storm THEN @ ELSE Checked.due]
       IN  /\ m' = [Away(m) EXCEPT !.cellDead = IF reset THEN 0 ELSE dead,
                                   !.check = IF Storm THEN @ ELSE Checked.check]
           /\ due' = IF reset THEN NextReset(next) ELSE next
           /\ modem' = IF reset /\ ready /\ modem = "mute" THEN "ok" ELSE modem
    /\ cell' = "down" /\ status' = "none"
    /\ KeepWifi /\ UNCHANGED Others

Calling == Cell /\ cell # "down" /\ ~Fails
OnAir(r) == [r EXCEPT !.cellDead = Dead, !.check = Checked.check]
NextCheck(d) == [d EXCEPT !.check = Checked.due]

(* The panel has brought a WiFi.                                           *)
CellToWifi ==
    /\ Calling /\ mode = "both" /\ wifi # NoNet /\ test = NoNet
    /\ cell' = "down" /\ modem' = modem /\ status' = "wifi"
    /\ m' = [OnWifi(OnAir(m)) EXCEPT !.check = NotYet]
    /\ due' = NextCheck(due)
    /\ KeepWifi /\ UNCHANGED Others

(* Mutant: the WiFi in reserve is not looked for while the 4G is in use.    *)
SeeksInBoth ==
    mode = "both" /\ due.back = 0 /\ due.hold = 0 /\ wifi = NoNet /\ test = NoNet

(* The WiFi in reserve, and the WiFi the SIM stands in for, are looked for *)
(* every so often.                                                         *)
Seeks == \/ mode = "cellular_first" /\ due.wifi = 0 /\ wifi = NoNet /\ test = NoNet
         \/ mode = "both" /\ due.back = 0 /\ due.hold = 0 /\ wifi = NoNet /\ test = NoNet

CellSeeks ==
    /\ Calling /\ Seeks
    /\ \E n \in Candidates :
          m' = [OnAir(m) EXCEPT !.pc = IF mode = "both" THEN "back_join" ELSE "home_join",
                                !.target = n]
    /\ due' = IF mode = "both" THEN [NextCheck(due) EXCEPT !.back = Wait.back]
                               ELSE [NextCheck(due) EXCEPT !.wifi = Wait.wifi]
    /\ KeepWifi /\ KeepCell /\ UNCHANGED <<Others, status>>

CellStays ==
    /\ Calling /\ ~Seeks /\ ~(mode = "both" /\ wifi # NoNet /\ test = NoNet)
    /\ m' = Rest(OnAir(m)) /\ due' = NextCheck(due)
    /\ KeepWifi /\ KeepCell /\ UNCHANGED <<Others, status>>

HomeJoin ==
    /\ Joins("home_join")
    /\ Associate(IF Found THEN m.target ELSE NoNet)
    /\ m' = [Rest(m) EXCEPT !.target = NoNet]
    /\ dropped' = dropped /\ KeepCell /\ UNCHANGED <<Others, status, due>>

(* Mutant: the SIM stays connected beside the WiFi.                         *)
BackJoinKeepsSim ==
    /\ Joins("back_join")
    /\ Associate(IF Found THEN m.target ELSE NoNet)
    /\ IF Found THEN WifiUp
       ELSE m' = [Rest(m) EXCEPT !.target = NoNet] /\ status' = status
    /\ dropped' = dropped /\ KeepCell /\ UNCHANGED <<Others, due>>

(* Mutant: the SIM is let go before the WiFi has taken over.                *)
BackJoinFirstCloses ==
    /\ Joins("back_join") /\ cell' = "down"
    /\ Associate(IF Found THEN m.target ELSE NoNet)
    /\ IF Found THEN WifiUp
       ELSE m' = [Rest(m) EXCEPT !.target = NoNet] /\ status' = status
    /\ dropped' = dropped /\ modem' = modem /\ UNCHANGED <<Others, due>>

(* The SIM is let go only once the WiFi has taken over.                    *)
BackJoin ==
    /\ Joins("back_join")
    /\ Associate(IF Found THEN m.target ELSE NoNet)
    /\ IF Found THEN WifiUp /\ cell' = "down"
       ELSE m' = [Rest(m) EXCEPT !.target = NoNet] /\ UNCHANGED <<status, cell>>
    /\ dropped' = dropped /\ modem' = modem /\ UNCHANGED <<Others, due>>

---------------------------------------------------------------------------
(* Time.                                                                   *)

Aged(ago, max) == IF ago = NotYet THEN NotYet ELSE Cap(ago + 1, max)

Tick ==
    /\ m.pc = "rest" /\ Prompt /\ (uptime = 0 \/ ready)
    /\ m' = [m EXCEPT !.pc = "top", !.radioAgo = Aged(@, Wait.radioMax),
                      !.idleAgo = Aged(@, Wait.idleMax)]
    /\ due' = [t \in Timers |-> IF due[t] = 0 THEN 0 ELSE due[t] - 1]
    /\ silent' = IF modem # "ok" /\ ~Starting THEN Cap(silent + 1, Wait.silent) ELSE 0
    /\ uptime' = Cap(uptime + 1, Wait.window)
    /\ UNCHANGED <<links, ap>>

CellFirst4G == CfScan \/ CfJoin \/ CfNotDue \/ CfDial \/ CfProbe
               \/ CfFailed \/ CfStay
NoLink      == EthOnly \/ Adopt \/ WaitTest \/ Scan \/ Join \/ EthProbe \/ DialNone
               \/ Dial \/ DialFail
OnTheWifi   == WifiTested \/ WifiGone \/ WifiToCell \/ WifiDead \/ WifiStays
OnTheCell   == CellGone \/ CellFails \/ CellToWifi \/ CellSeeks \/ CellStays
               \/ HomeJoin \/ BackJoin
Pass        == GatewayIdle \/ Gateway \/ IdleReset
               \/ CellFirst4G \/ NoLink \/ OnTheWifi \/ OnTheCell
Beside      == (WifiLost \/ CellInit \/ TestEnds \/ Connect \/ Disconnect)
               /\ UNCHANGED <<m, due, silent, uptime, ap>>
Around      == WorldChanges /\ UNCHANGED <<m, due, silent, uptime, ap>>

Next == Pass \/ Tick \/ Beside \/ Around

(* The task runs at priority 6 and every call it makes has a timeout; the  *)
(* events, the client and the test go on beside it; minutes pass.          *)
Spec == Init /\ [][Next]_vars /\ WF_vars(Pass \/ Tick) /\ WF_vars(Beside)

---------------------------------------------------------------------------
(* What the task promises once the networks stop changing.                 *)

WifiKnown  == mode \in {"wifi", "both", "cellular_first"}
WifiWorks  == WifiKnown /\ \A n \in Candidates : n # NoNet /\ air[n] = "ok"
OffTheAir  == mode = "cellular" /\ wifi = NoNet
SimWorks   == /\ mode \in {"both", "cellular_first"} \/ OffTheAir
              /\ sim = "ok" /\ modem # "gone"
CableWorks == /\ cable = "ok"
              /\ (WifiKnown /\ Visible = {}) \/ OffTheAir \/ mode = "ethernet_only"

(* With one network that works the caster is reached again, whatever the   *)
(* others do; a SIM that answers and leads nowhere is apart: DeadWifiLeft. *)
ComesBack ==
    <>[](server /\ \/ WifiWorks /\ ~(mode = "cellular_first" /\ sim = "dead")
                   \/ SimWorks \/ CableWorks)
        => []<>(session # "none")

(* No flapping: with the preferred network good, or with a good WiFi and a *)
(* SIM that does not answer or leads nowhere, the session stays open once  *)
(* and for all, although the task goes on trying the other network.  A     *)
(* driver that loses its packets beside a SIM that leads nowhere is apart: *)
(* it is restarted only if the router has ever answered (JamHeals).        *)
Preferred ==
    \/ mode \in {"wifi", "both"} /\ WifiWorks
    \/ mode \in {"cellular", "cellular_first"} /\ SimWorks
    \/ /\ mode = "cellular_first" /\ \A n \in Wifis : air[n] = "ok"
       /\ sim = "off" \/ (sim = "dead" /\ ~jam)
Settles == <>[](server /\ Preferred) => <>[](session # "none")

(* "WiFi + cellulare": with a WiFi that works the SIM is let go for good.  *)
SimSpared == <>[](mode = "both" /\ WifiWorks) => <>[](cell = "down")

(* "4G with WiFi in reserve": the WiFi of the house is kept associated.    *)
HomeKept == <>[](mode = "cellular_first" /\ WifiWorks) => <>[](wifi # NoNet)

(* A driver that loses packets is restarted, by whichever check looks at   *)
(* it, unless the router never answered or the cable carries the session.  *)
JamHeals == <>[](server /\ cable = "off") => [](jam /\ m.gwOk => <>~jam)

(* A mute modem is restarted, even with the 4G out of use.                 *)
ModemRevived ==
    mode \in {"cellular", "both", "cellular_first"} =>
        []<>(modem # "mute" \/ (mode = "cellular" /\ wifi # NoNet))

(* "Solo Ethernet": the panel is within reach over the cable or the setup  *)
(* network.                                                                *)
PanelReachable == []<>(cable # "off" \/ ap)

(* A 4G that carries the session is closed only when a WiFi takes over.    *)
ServingCellKept ==
    [][session = "cell" /\ Carries("cell") /\ cell' = "down"
        => changes' # changes \/ (mode = "both" /\ wifi' # NoNet)]_vars

(* The link comes back, whatever failed before: the session, the driver,   *)
(* the modem, the panel.                                                   *)
LinksHeal == ComesBack /\ Settles /\ JamHeals /\ ModemRevived /\ PanelReachable

(* The SIM is not used for longer than the mode wants, and not dropped     *)
(* while it serves.                                                        *)
SimKept == SimSpared /\ HomeKept /\ ServingCellKept

(* net_manager.c:545-549: a WiFi without Internet is joined anew and the   *)
(* receiver does not stay on it for ever.                                  *)
DeadWifiLeft == <>[](server /\ mode = "cellular_first" /\ WifiWorks) => []<>(session # "none")
=============================================================================
