-------------------------------- MODULE Remote --------------------------------
(***************************************************************************)
(* What the owner of a base reaches from afar, and how: the settings and   *)
(* the long operations of the panel, the licence, the alarms, the modem    *)
(* and the VPN.  The tasks of these parts share no variable, so each       *)
(* behaviour follows one of them, the one in focus, whatever the others    *)
(* do.                                                                     *)
(***************************************************************************)
EXTENDS Integers, FiniteSets

CONSTANTS
    Ssids, Serials, Pins, FormFields, GivenFields, KnownMax, MaxChanges,
    PjMaxFailures,
    Grace, Term, Ahead, LastDay, MaxLicCuts, MaxWrong, LcRequests,
    Threshold, FirstThreshold, AlMaxFaults, AlMaxSwitches, AlMaxRestarts,
    MaxLost, MaxHangs,
    Indexes, RekeyAge, RejectAge, Window, MaxData, MaxFlight,
    Addresses, DownMinutes, VpMaxFaults

ASSUME FormAssumption ==
    /\ FormFields \subseteq {"ssid", "place", "serial", "mode", "net", "tx", "sda", "link"}
    /\ Serials # {} /\ KnownMax \in Nat
ASSUME DaysAssumption ==
    LastDay \in Nat \ {0} /\ Ahead \in Nat /\ Term \in Nat /\ Grace \in Nat
ASSUME MinutesAssumption == FirstThreshold \in Nat /\ Threshold \in Nat /\ DownMinutes \in Nat
(* There is always an index that no session and no message in flight has.  *)
ASSUME IndexAssumption ==
    /\ MaxFlight \in Nat /\ Window \in Nat /\ VpMaxFaults \in Nat
    /\ Indexes \subseteq Nat \ {0} /\ IsFiniteSet(Indexes) /\ Cardinality(Indexes) >= MaxFlight + 7
ASSUME AddressAssumption == "unknown" \notin Addresses

VARIABLES
    focus,     \* the part this behaviour is about
    cfg, stored, boot, editor, saver, task, cable, licence, restarting, changes, wanted, failed,
    bgBusy, alertsBusy, jobTask, waiting, updating, failures,
    today, clock, nvs, twoParts, lc, job, lcUsed, firstKey, bad,
    caster, watch, reach, on, latch, rtc, due, noticed, alPart, mail, alUsed,
    kind, reset, modem, pc, alone, lost, hangs,
    peer, srv, net, got, world, vpn, vpDue, vpUsed

SE == INSTANCE Settings
PJ == INSTANCE PanelJobs
LC == INSTANCE License WITH MaxRequests <- LcRequests
AL == INSTANCE Alerts WITH kept <- noticed
MO == INSTANCE ModemStart
VP == INSTANCE VpnLink

se == <<cfg, stored, boot, editor, saver, task, cable, licence, restarting, changes, wanted, failed>>
pj == <<bgBusy, alertsBusy, jobTask, waiting, updating, failures>>
li == <<today, clock, nvs, twoParts, lc, job, lcUsed, firstKey, bad>>
al == <<caster, watch, reach, on, latch, rtc, due, noticed, alPart, mail, alUsed>>
mo == <<kind, reset, modem, pc, alone, lost, hangs>>
vp == <<peer, srv, net, got, world, vpn, vpDue, vpUsed>>
remoteVars == <<focus, se, pj, li, al, mo, vp>>

(* A part that is not in focus starts in one of its initial states.        *)
RemoteInit ==
    /\ focus \in {"settings", "panel", "licence", "alarms", "modem", "vpn"}
    /\ SE!SeInit /\ (cable \/ focus = "settings")
    /\ PJ!PjInit
    /\ LC!LcInit /\ ((twoParts /\ firstKey = 0) \/ focus = "licence")
    /\ AL!AlInit
    /\ MO!MoInit /\ ((kind = "simcom" /\ modem = "at" /\ alone /\ ~reset) \/ focus = "modem")
    /\ VP!VpInit

RemoteNext ==
    /\ UNCHANGED focus
    /\ \/ focus = "settings" /\ SE!SeNext  /\ UNCHANGED <<pj, li, al, mo, vp>>
       \/ focus = "panel"    /\ PJ!PjNext  /\ UNCHANGED <<se, li, al, mo, vp>>
       \/ focus = "licence"  /\ LC!LcNext  /\ UNCHANGED <<se, pj, al, mo, vp>>
       \/ focus = "alarms"   /\ AL!AlNext  /\ UNCHANGED <<se, pj, li, mo, vp>>
       \/ focus = "modem"    /\ MO!MoNext  /\ UNCHANGED <<se, pj, li, al, vp>>
       \/ focus = "vpn"      /\ VP!VpNext  /\ UNCHANGED <<se, pj, li, al, mo>>

(* The fairness of each part is that of its own module, while in focus.    *)
RemoteFairness ==
    /\ WF_se(focus = "settings" /\ SE!Restarts)
    /\ \A w \in SE!Writers : WF_se(focus = "settings" /\ SE!Works(w))
    /\ \A k \in PJ!Kinds : WF_pj(focus = "panel" /\ PJ!Runs(k))
    /\ WF_al(focus = "alarms" /\ AL!AlTask)
    /\ WF_mo(focus = "modem" /\ MO!MoCode)
    /\ WF_mo(focus = "modem" /\ MO!Starts)
    /\ WF_vp(focus = "vpn" /\ VP!VpnTick)
    /\ WF_vp(focus = "vpn" /\ VP!TimerRuns)
    /\ WF_vp(focus = "vpn" /\ VP!MinutePasses)
    /\ WF_vp(focus = "vpn" /\ VP!WireGuardStep)
    /\ WF_vp(focus = "vpn" /\ VP!ClockSet)

RemoteSpec == RemoteInit /\ [][RemoteNext]_remoteVars /\ RemoteFairness

---------------------------------------------------------------------------
(* No change of the settings is lost under another, in memory or in NVS,   *)
(* and no sequence of them leaves a pin with two uses; and the licence in  *)
(* use is the one in the flash (settings.c:76-77, web_ui.c:1752-1777,      *)
(* license.c:897-906).                                                     *)
NothingLost ==
    /\ SE!SeTypeOK /\ SE!NothingLost /\ SE!SettingsSound
    /\ PJ!PjTypeOK /\ LC!LcTypeOK /\ LC!LicenceIsStored /\ AL!AlTypeOK

(* The panel is never blocked: the edit lock comes back whatever the form  *)
(* is answered, every long operation answers and gives its flag back, and  *)
(* a start withholds no option that is deserved (web_ui.c:2736-2737,       *)
(* license.c:585-588, 731-741).                                            *)
PanelFrees == PJ!PanelFrees /\ SE!EditEnds /\ LC!NothingWithheld

(* An outage that lasts is told as soon as it is long enough, and its end  *)
(* too: a message is made up for each, and only one that finds no way out  *)
(* of the base is lost (status.c:129-148, alerts.c:393-397, 498-523).      *)
OutageIsTold == <>[](focus = "alarms") => AL!OutageIsTold /\ AL!RecoveryIsTold

(* A payload of the VPN is delivered once, but for the packet that         *)
(* confirms a key of the responder (wireguardif.c:325-327).                *)
DeliveredOnce == VP!VpTypeOK /\ VP!DeliveredOnce

(* As long as VPN, network and server stay the tunnel works again and      *)
(* again (vpn_link.c:144-165, 236-239).                                    *)
TunnelComesBack == <>[](focus = "vpn") => VP!TunnelComesBack

(* The boot leaves the modem on, and the recovery does not switch off what *)
(* it has just switched on (cellular_link.c:397-401, 889-891).             *)
ModemStaysOn == []MO!LeftOn /\ MO!ComesOn
==============================================================================
