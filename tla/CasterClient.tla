---------------------------- MODULE CasterClient ----------------------------
(***************************************************************************)
(* The base and its remote caster: main/main.c puts the frames it cuts out *)
(* of the receiver's stream into a stream buffer, and ntrip_client_task    *)
(* (main/ntrip_client.c) sends them, over the network that is active, to   *)
(* the caster the panel names.                                             *)
(*                                                                         *)
(* A frame is two pieces, 2f-1 and 2f: the buffer is read 512 bytes at a   *)
(* time, whatever the frames.  A handshake is its outcome; the waits count *)
(* doublings of the first, 5 s.                                            *)
(***************************************************************************)
EXTENDS Integers, Sequences

CONSTANTS
    CcFrames,     \* frames the receiver sends
    CcRoom,       \* pieces the stream buffer holds
    CcRetryMax,   \* the longest wait between attempts, 60 s
    CcMaxSaves, CcMaxMoves, CcMaxFaults

VARIABLES
    ccFrames,   \* frames sent by the receiver
    up,         \* rtcm_stream
    rc,         \* ntrip_client_task
    panel,      \* the caster saved, settings_generation
    route,      \* net_route_id, 0: no network
    ccUsed,     \* bounds used up
    torn        \* history: the caster got half a frame

ccVars == <<ccFrames, up, rc, panel, route, ccUsed, torn>>

IsFirst(p) == p % 2 = 1

(* Whole frames may be missing, never half of one.                         *)
Follows(p, last) == IF IsFirst(p) THEN ~IsFirst(last) ELSE last = p - 1

CcInit ==
    /\ ccFrames = 0 /\ up = <<>> /\ torn = FALSE
    /\ rc = [pc |-> "net", cfg |-> 0, gen |-> 0, route |-> 0, retry |-> 0, left |-> 0,
             last |-> 0, lasted |-> FALSE]
    /\ panel = [caster |-> 0, gen |-> 0] /\ route \in {0, 1}
    /\ ccUsed = [moves |-> 0, faults |-> 0]

---------------------------------------------------------------------------
(* Around: the receiver, the panel, the network.                           *)

(* base_forward_rtcm_frame: the whole frame or nothing, and no waiting.    *)
FrameIn ==
    /\ ccFrames < CcFrames /\ ccFrames' = ccFrames + 1
    /\ up' = IF CcRoom - Len(up) >= 2 THEN up \o <<2 * ccFrames + 1, 2 * ccFrames + 2>> ELSE up
    /\ UNCHANGED <<rc, panel, route, ccUsed, torn>>

Saves ==
    /\ panel.gen < CcMaxSaves
    /\ \E c \in {0, 1} : panel' = [caster |-> c, gen |-> panel.gen + 1]
    /\ UNCHANGED <<ccFrames, up, rc, route, ccUsed, torn>>

RouteMoves ==
    /\ ccUsed.moves < CcMaxMoves /\ ccUsed' = [ccUsed EXCEPT !.moves = @ + 1]
    /\ route' \in {0, 1, 2} \ {route}
    /\ UNCHANGED <<ccFrames, up, rc, panel, torn>>

Fault == ccUsed.faults < CcMaxFaults /\ ccUsed' = [ccUsed EXCEPT !.faults = @ + 1]

---------------------------------------------------------------------------
(* ntrip_client_task.                                                      *)

around == <<ccFrames, panel, route>>

(* discard_for_ms: with no caster the stream is read and thrown away.      *)
Discards ==
    /\ rc.pc \in {"net", "wait", "closed"} /\ up # <<>> /\ up' = Tail(up)
    /\ UNCHANGED <<rc, ccUsed, torn, around>>

(* At the latest after 30 s without a network it tries all the same.  The  *)
(* network is noted before it connects, with the configuration.            *)
Starts ==
    /\ rc.pc = "net"
    /\ rc' = [rc EXCEPT !.pc = "connect", !.cfg = panel.caster, !.route = route]
    /\ UNCHANGED <<up, ccUsed, torn, around>>

(* ntrip_connect_and_handshake: refused, or no answer.                     *)
ConnectFails ==
    /\ rc.pc = "connect" /\ (Fault \/ (route = 0 /\ UNCHANGED ccUsed))
    /\ rc' = [rc EXCEPT !.pc = "wait", !.gen = panel.gen, !.left = rc.retry + 1]
    /\ UNCHANGED <<up, torn, around>>

(* Mutant: what is left in the stream goes first.                          *)
ConnectsUnemptied ==
    /\ rc.pc = "connect" /\ route # 0
    /\ rc' = [rc EXCEPT !.pc = "session", !.gen = panel.gen, !.last = 0, !.lasted = FALSE]
    /\ UNCHANGED <<up, ccUsed, torn, around>>

(* What came in during the handshake is old: the stream is emptied.        *)
Connects ==
    /\ rc.pc = "connect" /\ route # 0
    /\ rc' = [rc EXCEPT !.pc = "session", !.gen = panel.gen, !.last = 0, !.lasted = FALSE]
    /\ up' = <<>>
    /\ UNCHANGED <<ccUsed, torn, around>>

MovedOn == route # 0 /\ route # rc.route

(* A wait, and what it leads to: the next one is longer, up to CcRetryMax. *)
Again == [rc EXCEPT !.pc = "net", !.retry = 0]
Wait  == IF rc.left > 0 THEN [rc EXCEPT !.left = @ - 1]
         ELSE [rc EXCEPT !.pc = "net", !.retry = IF @ < CcRetryMax THEN @ + 1 ELSE @]

(* After a failed attempt a new configuration or another network ends it.  *)
Waits ==
    /\ rc.pc = "wait"
    /\ rc' = IF panel.gen # rc.gen \/ MovedOn THEN Again ELSE Wait
    /\ UNCHANGED <<up, ccUsed, torn, around>>

(* The session has lasted a minute.                                        *)
Lasts ==
    /\ rc.pc = "session" /\ ~rc.lasted /\ rc' = [rc EXCEPT !.lasted = TRUE]
    /\ UNCHANGED <<up, ccUsed, torn, around>>

(* close_active_sock.                                                      *)
Closed(changed) ==
    [rc EXCEPT !.pc = "closed", !.lasted = @ \/ changed, !.left = rc.retry + 1]

(* Mutant: the network is looked at only when the panel saved.             *)
SeesRouteAtSave ==
    /\ rc.pc = "session" /\ MovedOn /\ panel.gen # rc.gen /\ rc' = Closed(TRUE)
    /\ UNCHANGED <<up, ccUsed, torn, around>>

SeesRoute ==
    /\ rc.pc = "session" /\ MovedOn /\ rc' = Closed(TRUE)
    /\ UNCHANGED <<up, ccUsed, torn, around>>

SeesSave ==
    /\ rc.pc = "session" /\ ~MovedOn /\ panel.gen # rc.gen
    /\ rc' = IF panel.caster # rc.cfg THEN Closed(TRUE) ELSE [rc EXCEPT !.gen = panel.gen]
    /\ UNCHANGED <<up, ccUsed, torn, around>>

(* send_all: on a line that is down, or that the other end closed, the     *)
(* piece is lost and the session over.                                     *)
Sends ==
    /\ rc.pc = "session" /\ up # <<>> /\ up' = Tail(up)
    /\ \/ /\ route # 0 /\ UNCHANGED ccUsed
          /\ torn' = (torn \/ ~Follows(Head(up), rc.last))
          /\ rc' = [rc EXCEPT !.last = Head(up)]
       \/ /\ Fault \/ (route # rc.route /\ UNCHANGED ccUsed)
          /\ rc' = Closed(FALSE) /\ UNCHANGED torn
    /\ UNCHANGED around

(* 2 s after a session that lasted or was given up on purpose; after one   *)
(* that the caster closed at once the growing wait, which nothing ends.    *)
Recovers ==
    /\ rc.pc = "closed" /\ rc' = IF rc.lasted THEN Again ELSE Wait
    /\ UNCHANGED <<up, ccUsed, torn, around>>

---------------------------------------------------------------------------
CcNext ==
    \/ FrameIn \/ Saves \/ RouteMoves
    \/ Discards \/ Starts \/ ConnectFails \/ Connects \/ Waits \/ Lasts
    \/ SeesRoute \/ SeesSave \/ Sends \/ Recovers

(* The task runs; every call it makes on a socket has a limit.             *)
CcFairness ==
    /\ WF_ccVars(Starts) /\ WF_ccVars(ConnectFails \/ Connects) /\ WF_ccVars(Waits)
    /\ WF_ccVars(SeesRoute \/ SeesSave) /\ WF_ccVars(Sends) /\ WF_ccVars(Recovers)
CcSpec == CcInit /\ [][CcNext]_ccVars /\ CcFairness

---------------------------------------------------------------------------
(* The variables keep their types and the buffer its size.                 *)
CcTypeOK ==
    /\ Len(up) <= CcRoom
    /\ rc.pc \in {"net", "connect", "session", "wait", "closed"}
    /\ rc.retry \in 0..CcRetryMax /\ rc.left \in 0..(CcRetryMax + 1)

(* The remote caster never gets half a frame: neither from a full buffer,  *)
(* nor from a send cut short, nor at the start of a session from what the  *)
(* one before left (main.c:99-104, ntrip_client.c:182-188).                *)
NoHalfFrames == ~torn

(* The base does not stay on a network that is no longer the active one,   *)
(* whenever the change comes (ntrip_client.c:265-267, 296-304).            *)
RouteFollowed == []<>~(rc.pc = "session" /\ MovedOn)

(* "Before, a change from the panel counted only at the next fall: a sound *)
(* base went on for days towards the old caster" (ntrip_client.c:224-227): *)
(* it still does, the generation is read after the handshake.              *)
CasterFollowed ==
    (rc.pc = "session" /\ panel.caster # rc.cfg) ~> (rc.pc # "session" \/ panel.caster = rc.cfg)
=============================================================================
