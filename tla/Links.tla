------------------------------- MODULE Links --------------------------------
(***************************************************************************)
(* What main/net_manager.c decides about: the networks around the          *)
(* receiver, the three interfaces (WiFi station, PPP over the modem, W5500 *)
(* cable), the default route between them, the caster client that uses it  *)
(* (main/ntrip_client.c) and the "Connect" test of the panel.              *)
(*                                                                         *)
(* A network is off, dead (it lets the receiver in, but leads nowhere) or  *)
(* ok.  The modem is ok, mute (it hangs, and the PPP over it with it,      *)
(* without notice) or gone.  "jam" is the WiFi driver that stays           *)
(* associated and loses its packets until it reconnects.                   *)
(***************************************************************************)
EXTENDS Integers

CONSTANTS
    Wifis,      \* the WiFi networks the settings know
    NoNet,      \* no network
    Modes,      \* values of settings.network_mode to start from
    Changes,    \* what may change around the receiver: see ChangeNames
    MaxChanges  \* how often it does

ModeNames   == {"wifi", "cellular", "both", "cellular_first", "ethernet_only"}
ChangeNames == {"air", "sim", "cable", "server", "modem", "jam", 
                "serial", "lost", "panel"}

ASSUME WifisAssumption   == Wifis # {} /\ NoNet \notin Wifis
ASSUME ModesAssumption   == Modes \subseteq ModeNames
ASSUME ChangesAssumption == Changes \subseteq ChangeNames /\ MaxChanges \in Nat

VARIABLES
    \* Around the receiver.
    air,      \* air[n]: the state of WiFi network n
    sim,      \* the mobile network
    cable,    \* the wired network
    server,   \* the caster answers
    modem,    \* the modem
    jam,      \* the WiFi driver loses its packets
    changes,  \* changes so far
    \* The interfaces.
    mode,     \* network_mode; another one needs a restart
    wifi,     \* the WiFi network the station is associated with, or NoNet
    dropped,  \* s_sta_disconnects has grown since the last look
    cell,     \* the PPP: down, up, or crooked (a CMUX that started askew)
    ready,    \* s_init_tried
    \* The caster client.
    status,   \* status_get_net
    session,  \* the interface of the open connection to the caster
    route,    \* net_route_id when it was opened
    \* The panel.
    test,     \* the network of the test in progress, or NoNet
    principal \* settings.wifi_ssid, the network the user chose last

outside == <<air, sim, cable, server, changes>>
world  == <<outside, modem, jam>>
client == <<status, session, route>>
panel  == <<test, principal>>
links  == <<world, mode, wifi, dropped, cell, ready, client, panel>>

Nets == {"off", "dead", "ok"}

LinkTypes ==
    /\ air \in [Wifis -> Nets] /\ sim \in Nets /\ cable \in Nets
    /\ modem \in {"ok", "mute", "gone"}
    /\ {server, jam, dropped, ready} \subseteq BOOLEAN
    /\ changes \in 0 .. MaxChanges
    /\ mode \in Modes
    /\ {wifi, test} \subseteq Wifis \union {NoNet} /\ principal \in Wifis
    /\ cell \in {"down", "up", "crooked"}
    /\ status \in {"none", "wifi", "cell"} /\ route \in {"none", "wifi", "cell"}
    /\ session \in {"none", "wifi", "cell", "eth"}

IsUp(l) ==
    \/ l = "wifi" /\ wifi # NoNet
    \/ l = "cell" /\ cell # "down"
    \/ l = "eth"  /\ cable # "off"

Carries(l) ==
    \/ l = "wifi" /\ wifi # NoNet /\ air[wifi] = "ok" /\ ~jam
    \/ l = "cell" /\ cell = "up" /\ sim = "ok" /\ modem = "ok"
    \/ l = "eth"  /\ cable = "ok"

(* route_prio: the PPP is above the WiFi in "4G with WiFi in reserve" and  *)
(* below it otherwise; the cable is below both.                            *)
Above(l, k) ==
    \/ l # "eth" /\ k = "eth"
    \/ <<l, k>> = IF mode = "cellular_first" THEN <<"cell", "wifi">>
                                             ELSE <<"wifi", "cell">>
DefaultIs(l) == IsUp(l) /\ \A k \in {"wifi", "cell", "eth"} : Above(k, l) => ~IsUp(k)
Reaches == \E l \in {"wifi", "cell", "eth"} : DefaultIs(l) /\ Carries(l)

(* The network wifi_link_connect_known goes for: the principal one when    *)
(* the scan sees it, else any other it knows.                              *)
Visible == {n \in Wifis : air[n] # "off"}
Candidates == IF principal \in Visible THEN {principal}
              ELSE IF Visible = {} THEN {NoNet} ELSE Visible

(* Any one will do: at the start the networks are alike.                  *)
First == CHOOSE n \in Wifis : TRUE

LinkInit ==
    /\ air = [n \in Wifis |-> "ok"] /\ sim = "ok" /\ cable \in {"off", "ok"}
    /\ server = TRUE /\ modem = "ok" /\ jam = FALSE /\ changes = 0
    /\ mode \in Modes
    /\ wifi = NoNet /\ dropped = FALSE /\ cell = "down" /\ ready = FALSE
    /\ status = "none" /\ session = "none" /\ route = "none"
    /\ test = NoNet /\ principal = First

---------------------------------------------------------------------------
(* Around the receiver.                                                    *)

Change(c) ==
    /\ c \in Changes /\ changes < MaxChanges /\ changes' = changes + 1
    /\ UNCHANGED <<mode, dropped, ready, client>>

AirChanges == \E n \in Wifis : \E s \in Nets \ {air[n]} :
    /\ Change("air") /\ air' = [air EXCEPT ![n] = s]
    /\ UNCHANGED <<sim, cable, server, modem, jam, wifi, cell, panel>>

SimChanges == \E s \in Nets \ {sim} :
    /\ Change("sim") /\ sim' = s
    /\ UNCHANGED <<air, cable, server, modem, jam, wifi, cell, panel>>

CableChanges == \E s \in Nets \ {cable} :
    /\ Change("cable") /\ cable' = s
    /\ UNCHANGED <<air, sim, server, modem, jam, wifi, cell, panel>>

ServerChanges ==
    /\ Change("server") /\ server' = ~server
    /\ UNCHANGED <<air, sim, cable, modem, jam, wifi, cell, panel>>

ModemChanges == \E s \in {"mute", "gone"} :
    /\ Change("modem") /\ modem = "ok" /\ modem' = s
    /\ UNCHANGED <<air, sim, cable, server, jam, wifi, cell, panel>>

WifiJams ==
    /\ Change("jam") /\ wifi # NoNet /\ ~jam /\ jam' = TRUE
    /\ UNCHANGED <<air, sim, cable, server, modem, wifi, cell, panel>>

SerialErrors ==
    /\ Change("serial") /\ cell = "up" /\ cell' = "crooked"
    /\ UNCHANGED <<air, sim, cable, server, modem, jam, wifi, panel>>

(* IP_EVENT_PPP_LOST_IP.  It need not come: a PPP may die without notice.  *)
CellLost ==
    /\ Change("lost") /\ cell # "down" /\ cell' = "down"
    /\ UNCHANGED <<air, sim, cable, server, modem, jam, wifi, panel>>

(* wifi_test_connect_task: first the association with the old network goes. *)
TestStart == \E n \in Visible :
    /\ Change("panel") /\ mode # "ethernet_only" /\ test = NoNet
    /\ test' = n /\ wifi' = NoNet /\ jam' = FALSE
    /\ UNCHANGED <<air, sim, cable, server, modem, cell, principal>>

WorldChanges ==
    \/ AirChanges \/ SimChanges \/ CableChanges \/ ServerChanges \/ ModemChanges
    \/ WifiJams \/ SerialErrors \/ CellLost \/ TestStart

---------------------------------------------------------------------------
(* Events and tasks beside net_manager.                                    *)

(* WIFI_EVENT_STA_DISCONNECTED: the access point is gone.                  *)
WifiLost ==
    /\ wifi # NoNet /\ air[wifi] = "off"
    /\ wifi' = NoNet /\ dropped' = TRUE /\ jam' = FALSE
    /\ UNCHANGED <<air, sim, cable, server, modem, changes, mode, cell,
                   ready, client, panel>>

CellInit ==
    /\ ~ready /\ ready' = TRUE
    /\ UNCHANGED <<world, mode, wifi, dropped, cell, client, panel>>

TestEnds ==
    /\ test # NoNet /\ test' = NoNet
    /\ wifi' = IF air[test] # "off" THEN test ELSE NoNet
    /\ principal' = IF wifi' # NoNet THEN test ELSE principal
    /\ status' = IF wifi' # NoNet /\ status # "cell" THEN "wifi" ELSE status
    /\ UNCHANGED <<world, mode, dropped, cell, ready, session, route>>

(* A connection is opened over the default route and then stays on the     *)
(* interface it was opened on, until it fails or the status names another. *)
CanConnect  == session = "none" /\ Reaches /\ server
MustMove    == session # "none" /\ status # "none" /\ status # route
MustFail    == session # "none" /\ ~(Carries(session) /\ server)

Connect ==
    /\ CanConnect
    /\ \E l \in {"wifi", "cell", "eth"} : DefaultIs(l) /\ session' = l
    /\ route' = status
    /\ UNCHANGED <<world, mode, wifi, dropped, cell, ready, status, panel>>

Disconnect ==
    /\ MustMove \/ MustFail
    /\ session' = "none"
    /\ UNCHANGED <<world, mode, wifi, dropped, cell, ready, status, route, panel>>

(* Within the minute: the client's retries (at most a minute apart), the   *)
(* events, the test (15 seconds).                                          *)
Prompt == ~CanConnect /\ ~MustMove /\ ~MustFail /\ test = NoNet
          /\ wifi \in Visible \union {NoNet}
=============================================================================
