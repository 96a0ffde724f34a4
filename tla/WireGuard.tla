----------------------------- MODULE WireGuard ------------------------------
(***************************************************************************)
(* The WireGuard peer of the base (components/esp_wireguard: wireguard.c,  *)
(* wireguardif.c): its three key pairs, the handshakes that renew them,    *)
(* its timer and the packets it sends and takes, against a server that is  *)
(* external.  Every handler runs in the thread of lwIP, one at a time.     *)
(*                                                                         *)
(* Cryptography is symbolic: a session is named by the index the initiator *)
(* chose (wireguard_generate_unique_index), and only the two sides of a    *)
(* handshake know its key.  Time is in minutes.                            *)
(***************************************************************************)
EXTENDS Integers, FiniteSets, FiniteSetsExt

CONSTANTS
    Indexes,       \* session indexes, enough for one to be free
    RekeyAge,      \* REKEY_AFTER_TIME
    RejectAge,     \* REJECT_AFTER_TIME
    Window,        \* packets of the replay window
    MaxData,       \* packets with a payload sent by the server
    MaxFlight      \* messages in flight

VARIABLES
    peer,    \* struct wireguard_peer, NoPeer when there is no interface
    srv,     \* the server: its address, sessions it can use, newest timestamp
    net,     \* messages in flight
    got      \* history: payloads delivered to lwIP, as <<session, number, times>>

wgVars == <<peer, srv, net, got>>

NoKey == [id |-> 0, initiator |-> FALSE, age |-> 0, rx |-> FALSE, top |-> 0, seen |-> {}]
NoPeer == [exists |-> FALSE]
NewKey(id, initiator) == [NoKey EXCEPT !.id = id, !.initiator = initiator]
Valid(k) == k.id # 0
Expired(k) == k.age >= RejectAge

(* wireguardif_init, wireguardif_add_peer, wireguardif_connect: a device   *)
(* with its socket and its timer, the peer with its address, and the flag  *)
(* that lets the timer open a handshake.                                   *)
NewDevice ==
    [exists |-> TRUE, curr |-> NoKey, prev |-> NoKey, next |-> NoKey, hs |-> 0,
     ip |-> "none", active |-> FALSE,
     sendHandshake |-> FALSE, mayInitiate |-> TRUE, quiet |-> TRUE]
NewPeer(addr) == [NewDevice EXCEPT !.ip = addr]
Activated(p)  == [p EXCEPT !.active = TRUE]

(* wireguardif_peer_is_up.                                                 *)
IsUp(p) == p.exists /\ (Valid(p.curr) \/ Valid(p.prev))

InUse == {srv.cur, srv.old} \cup {m.id : m \in net}
         \cup (IF peer.exists THEN {peer.curr.id, peer.prev.id, peer.next.id, peer.hs} ELSE {})
FreeIndexes == Indexes \ InUse
UniqueIndex == Min(FreeIndexes)

Msg(type, from, id, n) == [type |-> type, from |-> from, id |-> id, n |-> n]
Initiation(id, clock) == Msg("init", "base", id, IF clock THEN 1 ELSE 0)
Response(id)          == Msg("resp", "base", id, 0)
InFlight(ms) == Cardinality(net \cup ms) <= MaxFlight

---------------------------------------------------------------------------
(* Sending: wireguardif_output_to_peer.  A key pair of the responder is    *)
(* used only once something was received under it.                         *)
OutName(p) == IF Valid(p.curr) /\ ~p.curr.initiator /\ ~p.curr.rx THEN "prev" ELSE "curr"
OutKey(p)  == p[OutName(p)]
CanOutput(p) == Valid(OutKey(p)) /\ (OutKey(p).initiator \/ OutKey(p).rx) /\ ~Expired(OutKey(p))

(* The peer after a packet or a keep-alive; the packet needs no answer and *)
(* is not kept in flight.                                                  *)
Output(p) ==
    IF CanOutput(p)
    THEN [p EXCEPT !.quiet = FALSE,
                   !.sendHandshake = @ \/ (OutKey(p).initiator /\ OutKey(p).age >= RekeyAge)]
    ELSE IF Valid(OutKey(p)) /\ Expired(OutKey(p)) /\ (OutKey(p).initiator \/ OutKey(p).rx)
    THEN [p EXCEPT ![OutName(p)] = NoKey]
    ELSE p

---------------------------------------------------------------------------
(* The timer: wireguardif_tmr.  should_reset_peer comes after three times  *)
(* RejectAge, when should_destroy_current_keypair was there long before.   *)
WithoutOldKey(p) == IF Valid(p.curr) /\ Expired(p.curr) THEN [p EXCEPT !.curr = NoKey] ELSE p
KeepaliveDue(p)  == p.quiet /\ IsUp(p)
AfterKeepalive(p) == IF KeepaliveDue(p) THEN Output(p) ELSE p
(* Mutant: a peer without a key pair waits for a packet.                   *)
InitiationDueForKey(p) ==
    /\ p.mayInitiate
    /\ p.sendHandshake \/ (Valid(p.curr) /\ ~p.curr.initiator /\ p.curr.age >= RekeyAge)
InitiationDue(p) ==
    /\ p.mayInitiate
    /\ \/ p.sendHandshake
       \/ Valid(p.curr) /\ ~p.curr.initiator /\ p.curr.age >= RekeyAge
       \/ ~Valid(p.curr) /\ p.active

(* wireguard_start_handshake: the initiation with its timestamp, which is  *)
(* the number 1 when the clock of the base is right.                       *)
Initiates(p, id) ==
    [p EXCEPT !.hs = id, !.sendHandshake = FALSE, !.mayInitiate = FALSE]

Timer(clock) ==
    /\ LET p0 == WithoutOldKey(peer)
           p1 == AfterKeepalive(p0)
           init == Initiation(UniqueIndex, clock)
       IN IF ~peer.exists THEN UNCHANGED <<peer, net>>
          ELSE IF InitiationDue(p1)
          THEN peer' = Initiates(p1, init.id) /\ net' = net \cup {init}
          ELSE peer' = p1 /\ net' = net
    /\ UNCHANGED <<srv, got>>

---------------------------------------------------------------------------
(* Receiving: wireguardif_network_rx, by type of message.                  *)

FromServer(type) == {m \in net : m.type = type /\ m.from = "server"}
Takes(m, out) == net' = (net \ {m}) \cup out

(* An index may name another session later: its history begins again.      *)
NewSession(id) == {g \in got : g[1] # id}

(* wireguardif_process_response_message: only the answer to the handshake  *)
(* that is open; add_new_keypair moves the key pairs.                      *)
StartsAsInitiator(p, id) ==
    [p EXCEPT !.prev = IF Valid(p.next) THEN p.next ELSE p.curr,
              !.next = NoKey, !.curr = NewKey(id, TRUE), !.hs = 0]
TakesResponse ==
    /\ peer.exists
    /\ \E m \in FromServer("resp") :
         /\ Takes(m, {})
         /\ IF m.id # peer.hs THEN UNCHANGED <<peer, got>>
            ELSE /\ peer' = Output([StartsAsInitiator(peer, m.id) EXCEPT !.ip = srv.addr])
                 /\ got' = NewSession(m.id)
    /\ UNCHANGED srv

(* wireguard_process_initiation_message, wireguardif_send_handshake_       *)
(* response: the base as responder; its next key pair waits for a packet.  *)
StartsAsResponder(p, id) ==
    [p EXCEPT !.next = NewKey(id, FALSE), !.prev = NoKey, !.hs = 0]
TakesInitiation ==
    /\ peer.exists
    /\ \E m \in FromServer("init") :
         /\ peer' = [StartsAsResponder(peer, m.id) EXCEPT !.ip = srv.addr]
         /\ Takes(m, {Response(m.id)}) /\ got' = NewSession(m.id)
    /\ UNCHANGED srv

(* Mutant: what the window has seen is not looked at.                      *)
FitsSeen(k, n) == n > k.top \/ k.top - n < Window

(* wireguard_check_replay: a number above the last one, or one of the      *)
(* window that was not seen.                                               *)
Fits(k, n) == n > k.top \/ (k.top - n < Window /\ n \notin k.seen)
Marks(k, n) ==
    IF ~Fits(k, n) THEN k
    ELSE LET top == IF n > k.top THEN n ELSE k.top
         IN [k EXCEPT !.top = top,
                      !.seen = {s \in k.seen \cup {n} : top - s < Window}]

(* wireguardif_process_data_message: an expired key is destroyed;          *)
(* otherwise the packet proves the key, which keypair_update moves from    *)
(* next to curr, and a payload is delivered unless it was seen.  The       *)
(* number of the packet that confirms a key is marked in the slot the key  *)
(* has just left, which is empty: the key in curr has seen nothing.        *)
KeyNames == {"curr", "next", "prev"}
KeyFor(p, id) == {k \in KeyNames : Valid(p[k]) /\ p[k].id = id}
Confirmed(p, name) ==
    IF name = "next"
    THEN [p EXCEPT !.prev = p.curr, !.curr = [p.next EXCEPT !.rx = TRUE], !.next = NoKey]
    ELSE [p EXCEPT ![name].rx = TRUE]
Marked(p, name, n) == IF name # "next" /\ n > 0 THEN [p EXCEPT ![name] = Marks(@, n)] ELSE p
RekeyDue(k) == k.initiator /\ k.age >= RekeyAge
Copies(m) == Cardinality({g \in got : g[1] = m.id /\ g[2] = m.n})
Delivers(m, first) == got' = got \cup {<<m.id, m.n, 1 + Copies(m), first>>}

TakesData ==
    /\ peer.exists
    /\ \E m \in FromServer("data") :
         /\ Takes(m, {})
         /\ \/ KeyFor(peer, m.id) = {} /\ UNCHANGED <<peer, got>>
            \/ \E name \in KeyFor(peer, m.id) :
                 \/ Expired(peer[name]) /\ peer' = [peer EXCEPT ![name] = NoKey] /\ UNCHANGED got
                 \/ /\ ~Expired(peer[name])
                    /\ peer' = [Marked(Confirmed(peer, name), name, m.n) EXCEPT
                                   !.ip = srv.addr,
                                   !.sendHandshake = @ \/ (name # "next" /\ RekeyDue(peer[name]))]
                    /\ IF m.n > 0 /\ Fits(peer[name], m.n)
                       THEN Delivers(m, name = "next") ELSE UNCHANGED got
    /\ UNCHANGED srv

---------------------------------------------------------------------------
(* Nothing listens: the interface was removed (wireguardif_shutdown).      *)
Unheard == ~peer.exists /\ (\E m \in net : m.from = "server" /\ Takes(m, {}))
           /\ UNCHANGED <<peer, srv, got>>

---------------------------------------------------------------------------
(* The server: external, as the base needs it.  It answers initiations     *)
(* whose timestamp is new, keeps its last two sessions, may open one       *)
(* itself, and may restart or move to another address.                     *)

Reaches(addr) == srv.alive /\ addr = srv.addr
ServerTakes ==
    /\ \E m \in net :
         /\ m.from = "base"
         /\ IF peer.exists /\ Reaches(peer.ip) /\ m.type = "init" /\ m.n = 1
            THEN /\ srv' = [srv EXCEPT !.old = srv.cur, !.cur = m.id, !.sent = 0]
                 /\ net' = {x \in net : ~(x.type = "init" /\ x.from = "base")}
                           \cup {Msg("resp", "server", m.id, 0)}
            ELSE IF srv.alive /\ m.type = "resp"
            THEN /\ srv' = [srv EXCEPT !.old = srv.cur, !.cur = m.id, !.sent = 0]
                 /\ net' = (net \ {m}) \cup {Msg("data", "server", m.id, 0)}
            ELSE Takes(m, {}) /\ UNCHANGED srv
    /\ UNCHANGED <<peer, got>>
ServerSends ==
    /\ srv.alive /\ srv.cur # 0 /\ srv.total < MaxData
    /\ LET m == Msg("data", "server", srv.cur, srv.sent + 1)
       IN InFlight({m}) /\ net' = net \cup {m}
    /\ srv' = [srv EXCEPT !.sent = @ + 1, !.total = @ + 1]
    /\ UNCHANGED <<peer, got>>
ServerInitiates ==
    /\ srv.alive /\ srv.total < MaxData
    /\ FreeIndexes # {}
    /\ InFlight({Msg("init", "server", UniqueIndex, 1)})
    /\ net' = net \cup {Msg("init", "server", UniqueIndex, 1)}
    /\ srv' = [srv EXCEPT !.total = @ + 1]
    /\ UNCHANGED <<peer, got>>

(* A message is taken, taken again or lost.                                *)
Lost == \E m \in net : Takes(m, {}) /\ UNCHANGED <<peer, srv, got>>
Repeated ==
    /\ srv.sent > 0
    /\ \E n \in 1..srv.sent :
         LET m == Msg("data", "server", srv.cur, n)
         IN m \notin net /\ InFlight({m}) /\ net' = net \cup {m}
    /\ UNCHANGED <<peer, srv, got>>

(* A minute: keys grow older, another initiation and a keep-alive may go.  *)
Aged(k) == IF Valid(k) /\ ~Expired(k) THEN [k EXCEPT !.age = @ + 1] ELSE k
PeerAges(p) ==
    IF p.exists
    THEN [p EXCEPT !.curr = Aged(@), !.prev = Aged(@), !.next = Aged(@),
                   !.mayInitiate = TRUE, !.quiet = TRUE]
    ELSE p

(* A payload is delivered to lwIP once, however often its packet comes     *)
(* (wireguardif.c:325-327, wireguard.c:321-366), except the one whose      *)
(* packet confirmed a key pair of the responder, which may come twice: its *)
(* number was marked in the slot the key had left (wireguardif.c:311, 327).*)
DeliveredOnce ==
    \A g \in got : g[3] > 1 => g[3] = 2 /\ <<g[1], g[2], 1, TRUE>> \in got

(* What the comment of the check says: no duplicate passes it.             *)
NoDuplicate == \A g \in got : g[3] = 1
=============================================================================
