---------------------------- MODULE CasterServer ----------------------------
(***************************************************************************)
(* The caster inside the base (main/ntrip_caster_server.c).  The frames go *)
(* into a stream buffer, broadcast_task sends what it reads from it to     *)
(* every rover in turn with s_clients_mutex held, and listen_task lets the *)
(* rovers in one at a time.                                                *)
(*                                                                         *)
(* A frame is two pieces, 2f-1 and 2f: the buffer is read 512 bytes at a   *)
(* time, whatever the frames.  A request is its answer.                    *)
(***************************************************************************)
EXTENDS Integers, Sequences, FiniteSets

CONSTANTS
    CsFrames,     \* frames the receiver sends
    CsRoom,       \* pieces the stream buffer holds
    Slots,        \* MAX_CLIENTS of them
    CsMaxFaults, CsMaxCalls

VARIABLES
    csFrames,   \* frames sent by the receiver
    feed,       \* s_feed_stream
    bc,         \* broadcast_task: the piece it sends (0: none), to whom still
    socks,      \* s_client_socks: 0 free, else 1 + the last piece the rover got
    ls,         \* listen_task; told: the rover it serves was told 200
    csUsed,     \* bounds used up
    half        \* history: a rover got half a frame

csVars == <<csFrames, feed, bc, socks, ls, csUsed, half>>

CsInit ==
    /\ csFrames = 0 /\ feed = <<>> /\ half = FALSE
    /\ bc = [piece |-> 0, todo |-> {}] /\ socks = [s \in Slots |-> 0]
    /\ ls = [pc |-> "accept", told |-> FALSE]
    /\ csUsed = [faults |-> 0, calls |-> 0]

(* ntrip_caster_server_feed, called for every frame: all of it or nothing. *)
Feed ==
    /\ csFrames < CsFrames /\ csFrames' = csFrames + 1
    /\ feed' = IF CsRoom - Len(feed) >= 2
               THEN feed \o <<2 * csFrames + 1, 2 * csFrames + 2>> ELSE feed
    /\ UNCHANGED <<bc, socks, ls, csUsed, half>>

---------------------------------------------------------------------------
(* broadcast_task.                                                         *)

Held == bc.piece # 0          \* s_clients_mutex, by broadcast_task
Fault == csUsed.faults < CsMaxFaults /\ csUsed' = [csUsed EXCEPT !.faults = @ + 1]

Takes ==
    /\ ~Held /\ feed # <<>> /\ feed' = Tail(feed)
    /\ bc' = [piece |-> Head(feed), todo |-> {s \in Slots : socks[s] # 0}]
    /\ UNCHANGED <<csFrames, socks, ls, csUsed, half>>

(* A rover that comes in the middle of a frame misses its first half.      *)
Follows(p, sock) ==
    \/ sock = 1
    \/ IF p % 2 = 1 THEN (sock - 1) % 2 = 0 ELSE sock = p

(* client_send_all: within its 1.5 s all of it, or the rover is dropped.   *)
SendsTo(s) ==
    /\ Held /\ s \in bc.todo /\ bc' = [bc EXCEPT !.todo = @ \ {s}]
    /\ \/ /\ socks' = [socks EXCEPT ![s] = bc.piece + 1] /\ UNCHANGED csUsed
          /\ half' = (half \/ ~Follows(bc.piece, socks[s]))
       \/ Fault /\ socks' = [socks EXCEPT ![s] = 0] /\ UNCHANGED half
    /\ UNCHANGED <<csFrames, feed, ls>>

Gives ==
    /\ Held /\ bc.todo = {} /\ bc' = [bc EXCEPT !.piece = 0]
    /\ UNCHANGED <<csFrames, feed, socks, ls, csUsed, half>>

---------------------------------------------------------------------------
(* listen_task.                                                            *)

Accepts ==
    /\ ls.pc = "accept" /\ csUsed.calls < CsMaxCalls
    /\ csUsed' = [csUsed EXCEPT !.calls = @ + 1]
    /\ ls' = [pc |-> "shake", told |-> FALSE]
    /\ UNCHANGED <<csFrames, feed, bc, socks, half>>

(* handle_handshake.  Five seconds for all of the request; then another    *)
(* request, the source table, an unknown mountpoint or no credentials are  *)
(* answered, if at all, and closed.                                        *)
Refuses ==
    /\ ls.pc = "shake" /\ ls' = [ls EXCEPT !.pc = "accept"]
    /\ UNCHANGED <<csFrames, feed, bc, socks, csUsed, half>>

HasFreeSlot == \E s \in Slots : socks[s] = 0

(* A good request: 200, or 503 when every place is taken.                  *)
Answers ==
    /\ ls.pc = "shake" /\ ~Held
    /\ ls' = IF HasFreeSlot THEN [pc |-> "add", told |-> TRUE] ELSE [ls EXCEPT !.pc = "accept"]
    /\ UNCHANGED <<csFrames, feed, bc, socks, csUsed, half>>

FirstFree == CHOOSE s \in Slots : socks[s] = 0 /\ \A r \in Slots : socks[r] = 0 => s <= r

Adds ==
    /\ ls.pc = "add" /\ ~Held
    /\ socks' = IF HasFreeSlot THEN [socks EXCEPT ![FirstFree] = 1] ELSE socks
    /\ ls' = [pc |-> "accept", told |-> ~HasFreeSlot]
    /\ UNCHANGED <<csFrames, feed, bc, csUsed, half>>

---------------------------------------------------------------------------
Broadcasts == Takes \/ (\E s \in Slots : SendsTo(s)) \/ Gives
CsNext ==
    \/ Feed \/ Broadcasts
    \/ Accepts \/ Refuses \/ Answers \/ Adds

(* The tasks run; the mutex goes back and forth between two of the same    *)
(* priority; every call on a socket has a limit.                           *)
CsFairness ==
    /\ WF_csVars(Broadcasts) /\ WF_csVars(Refuses) /\ SF_csVars(Adds)
CsSpec == CsInit /\ [][CsNext]_csVars /\ CsFairness

---------------------------------------------------------------------------
(* The variables keep their types and the buffer its size.                 *)
CsTypeOK ==
    /\ Len(feed) <= CsRoom /\ bc.todo \subseteq Slots
    /\ \A s \in Slots : socks[s] \in 0..(2 * CsFrames + 1)
    /\ ls.pc \in {"accept", "shake", "add"}

(* No rover ever gets half a frame, but for one that comes in the middle   *)
(* of it: not from a full buffer nor from a send cut short.                *)
WholeFramesOnly == ~half

(* A rover that was told 200 has its place: places are freed elsewhere and *)
(* taken here only (ntrip_caster_server.c:245-248).                        *)
OkMeansAPlace == ls.pc = "accept" => ~ls.told

(* A rover that is slow or says nothing does not keep the others out.      *)
NextRoverServed == []<>(ls.pc = "accept")
=============================================================================
