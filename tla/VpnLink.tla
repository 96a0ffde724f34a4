------------------------------ MODULE VpnLink -------------------------------
(***************************************************************************)
(* The VPN of the base (main/vpn_link.c over components/esp_wireguard/     *)
(* esp_wireguard.c): vpn_link_tick, called by the task of the supervision, *)
(* opens the tunnel when it is on, the clock is right and there is a       *)
(* network, closes it when one of them changes, and opens it again, with a *)
(* new look at the server's name, when it has been down for five minutes.  *)
(***************************************************************************)
EXTENDS WireGuard

CONSTANTS
    Addresses,     \* addresses the server may have
    DownMinutes,   \* VPN_DOWN_RESTART_US
    VpMaxFaults    \* settings, networks, restarts of base and server, lost messages

VARIABLES
    world,     \* settings on, network in use, clock right, what DNS answers
    vpn,       \* s_started, s_up, s_started_net, minutes since it was up
    vpDue,     \* what has still to run in this minute: "timer", "tick"
    vpUsed   \* faults so far

vpnVars == <<peer, srv, net, got, world, vpn, vpDue, vpUsed>>

Down == [started |-> FALSE, up |-> FALSE, net |-> "none", down |-> 0]

VpInit ==
    /\ \E a \in Addresses :
         /\ srv = [addr |-> a, alive |-> TRUE, cur |-> 0, old |-> 0, sent |-> 0, total |-> 0]
         /\ world = [on |-> TRUE, net |-> "wifi", clock |-> FALSE, dns |-> a]
    /\ peer = NoPeer /\ net = {} /\ got = {} /\ vpn = Down /\ vpDue = {}
    /\ vpUsed = 0

---------------------------------------------------------------------------
(* esp_wireguard_connect, esp_wireguard_disconnect: the name is resolved   *)
(* first, then interface and peer are made in the thread of lwIP.          *)
Resolved == {world.dns} \cup (IF vpUsed < VpMaxFaults THEN {"unknown"} ELSE {})
StopsTunnel == peer' = NoPeer /\ vpn' = Down
Connects(a) ==
    /\ peer' = Activated(NewPeer(a))
    /\ vpn' = [Down EXCEPT !.started = TRUE, !.net = world.net]

(* A failed attempt leaves nothing behind, and the next one is half a      *)
(* minute away; it stands for every failure of esp_wireguard_connect.      *)
Starts ==
    IF ~world.clock THEN StopsTunnel /\ UNCHANGED vpUsed
    ELSE \E a \in Resolved :
           IF a = "unknown" THEN StopsTunnel /\ vpUsed' = vpUsed + 1
           ELSE Connects(a) /\ UNCHANGED vpUsed

Wanted   == world.on /\ world.net # "none"
TimedOut == vpn.down > DownMinutes
Watches ==
    /\ IF IsUp(peer) THEN vpn' = [vpn EXCEPT !.up = TRUE, !.down = 0] /\ UNCHANGED peer
       ELSE IF TimedOut THEN StopsTunnel
       ELSE vpn' = [vpn EXCEPT !.up = FALSE] /\ UNCHANGED peer
    /\ UNCHANGED vpUsed

(* vpn_link_tick; a tunnel over another network is closed and opened in    *)
(* one call.                                                               *)
VpnTick ==
    /\ "tick" \in vpDue /\ vpDue' = vpDue \ {"tick"}
    /\ \/ ~Wanted /\ StopsTunnel /\ UNCHANGED vpUsed
       \/ Wanted /\ (~vpn.started \/ vpn.net # world.net) /\ Starts
       \/ Wanted /\ vpn.started /\ vpn.net = world.net /\ Watches
    /\ UNCHANGED <<srv, net, got, world>>

TimerRuns ==
    /\ "timer" \in vpDue /\ vpDue' = vpDue \ {"timer"}
    /\ Timer(world.clock)
    /\ UNCHANGED <<world, vpn, vpUsed>>

(* Messages take less than a minute.                                       *)
MinutePasses ==
    /\ net = {} /\ vpDue = {} /\ vpDue' = {"tick", "timer"}
    /\ peer' = PeerAges(peer)
    /\ vpn' = IF vpn.started /\ vpn.down <= DownMinutes THEN [vpn EXCEPT !.down = @ + 1] ELSE vpn
    /\ UNCHANGED <<srv, net, got, world, vpUsed>>

---------------------------------------------------------------------------
(* What changes around it.                                                 *)

WireGuardStep ==
    /\ TakesResponse \/ TakesInitiation \/ TakesData \/ Unheard \/ ServerTakes
    /\ UNCHANGED <<world, vpn, vpDue, vpUsed>>
ServerActs ==
    /\ ServerSends \/ ServerInitiates
    /\ UNCHANGED <<world, vpn, vpDue, vpUsed>>
Fault == vpUsed < VpMaxFaults /\ vpUsed' = vpUsed + 1
NetFails ==
    /\ Fault /\ (Lost \/ Repeated)
    /\ UNCHANGED <<world, vpn, vpDue>>

ClockSet ==
    /\ ~world.clock /\ world.net # "none" /\ world' = [world EXCEPT !.clock = TRUE]
    /\ UNCHANGED <<peer, srv, net, got, vpn, vpDue, vpUsed>>
WorldChanges ==
    /\ Fault
    /\ \/ world' = [world EXCEPT !.on = ~@]
       \/ \E n \in {"none", "wifi", "cell"} \ {world.net} : world' = [world EXCEPT !.net = n]
    /\ UNCHANGED <<peer, srv, net, got, vpn, vpDue>>
BaseRestarts ==
    /\ Fault
    /\ world' = [world EXCEPT !.clock = FALSE] /\ peer' = NoPeer /\ vpn' = Down
    /\ UNCHANGED <<srv, net, got, vpDue>>
ServerRestarts ==
    /\ Fault
    /\ \E a \in Addresses :
         /\ srv' = [srv EXCEPT !.cur = 0, !.old = 0, !.sent = 0, !.addr = a]
         /\ world' = [world EXCEPT !.dns = a]
    /\ UNCHANGED <<peer, net, got, vpn, vpDue>>

---------------------------------------------------------------------------
VpNext ==
    \/ VpnTick \/ TimerRuns \/ MinutePasses \/ WireGuardStep \/ ServerActs
    \/ NetFails \/ ClockSet \/ WorldChanges \/ BaseRestarts \/ ServerRestarts
VpFairness ==
    /\ WF_vpnVars(VpnTick) /\ WF_vpnVars(TimerRuns) /\ WF_vpnVars(MinutePasses)
    /\ WF_vpnVars(WireGuardStep) /\ WF_vpnVars(ClockSet)
VpSpec == VpInit /\ [][VpNext]_vpnVars /\ VpFairness

---------------------------------------------------------------------------
(* The variables keep their types.                                         *)
VpTypeOK ==
    /\ srv.addr \in Addresses /\ world.dns \in Addresses /\ Cardinality(net) <= MaxFlight + 2
    /\ vpn.down \in 0..(DownMinutes + 1) /\ vpDue \subseteq {"tick", "timer"}
    /\ vpUsed \in 0..VpMaxFaults

(* A tunnel over the settings and the network it was made for: what was    *)
(* changed is seen by the next tick (vpn_link.c:144-165).                  *)
Working == /\ peer.exists /\ Valid(peer.curr) /\ peer.ip = srv.addr
           /\ peer.curr.id \in {srv.cur, srv.old}

Steady == world.on /\ world.net # "none"

(* As long as VPN, network and server stay, the tunnel works again and     *)
(* again, whatever was lost, repeated or restarted before.                 *)
TunnelComesBack == <>[]Steady => []<>Working

(* A tunnel that has been down for five minutes is made again from the     *)
(* name of the server (vpn_link.c:27, 236-239): after the server moved to  *)
(* another address the base ends up at the new one.                        *)
DeadTunnelRemade == <>[]Steady => []<>(peer.exists /\ peer.ip = srv.addr)
=============================================================================
