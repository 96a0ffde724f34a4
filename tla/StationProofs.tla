---------------------------- MODULE StationProofs ----------------------------
(***************************************************************************)
(* Proofs about the parts of Station, each with its own invariant: the     *)
(* others leave its variables alone.                                       *)
(***************************************************************************)
EXTENDS Station, SequenceTheorems, FiniteSetTheorems, WellFoundedInduction, TLAPS

USE FramesAssumption

-----------------------------------------------------------------------------
(* The remote caster: what is in the stream is made of whole frames, but   *)
(* for the first piece, which in a session follows the last one sent.      *)

(* A frame has two pieces; the first has an odd number.                    *)
LEMMA Parity ==
    ASSUME NEW n \in Nat
    PROVE  /\ CC!IsFirst(2 * n + 1) /\ ~CC!IsFirst(2 * n + 2) /\ ~CC!IsFirst(0)
BY DEF CC!IsFirst

CcTypes ==
    /\ ccFrames \in Nat /\ up \in Seq(Nat) /\ torn \in BOOLEAN
    /\ rc \in [pc : {"net", "connect", "session", "wait", "closed"}, cfg : {0, 1}, gen : Nat,
               route : {0, 1, 2}, retry : 0 .. CcRetryMax, left : 0 .. (CcRetryMax + 1),
               last : Nat, lasted : BOOLEAN]
    /\ panel \in [caster : {0, 1}, gen : Nat] /\ route \in {0, 1, 2}

Chained ==
    /\ Len(up) <= CcRoom
    /\ \A i \in 1 .. Len(up) - 1 : CC!Follows(up[i + 1], up[i])
    /\ up # <<>> => ~CC!IsFirst(up[Len(up)])

CcInv ==
    /\ CcTypes /\ Chained /\ ~torn
    /\ rc.pc = "session" =>
         IF up = <<>> THEN ~CC!IsFirst(rc.last) ELSE CC!Follows(Head(up), rc.last)

LEMMA CcInitInv == CC!CcInit => CcInv
<1> SUFFICES ASSUME CC!CcInit PROVE CcInv
    OBVIOUS
<1>1. rc \in [pc : {"net", "connect", "session", "wait", "closed"}, cfg : {0, 1}, gen : Nat,
               route : {0, 1, 2}, retry : 0 .. CcRetryMax, left : 0 .. (CcRetryMax + 1),
               last : Nat, lasted : BOOLEAN]
    BY DEF CC!CcInit
<1>2. panel \in [caster : {0, 1}, gen : Nat]
    BY DEF CC!CcInit
<1>3. up = <<>> /\ Len(up) = 0 /\ torn = FALSE /\ rc.pc = "net"
    BY DEF CC!CcInit
<1> QED
  <2>1. CcTypes
    <3>1. up \in Seq(Nat)
      BY <1>3
    <3>2. ccFrames \in Nat /\ torn \in BOOLEAN /\ route \in {0, 1, 2}
      BY DEF CC!CcInit
    <3> QED
      BY <1>1, <1>2, <3>1, <3>2 DEF CcTypes
  <2>2. Chained
    BY <1>3 DEF Chained
  <2>3. rc.pc # "session" /\ ~torn
    BY <1>3
  <2> QED
    BY <2>1, <2>2, <2>3 DEF CcInv

(* What is taken from the front leaves a chain, and so does a whole frame  *)
(* that is added at the end.                                               *)
LEMMA TailChained ==
    ASSUME CcTypes, Chained, up # <<>>, up' = Tail(up)
    PROVE  /\ up' \in Seq(Nat) /\ Chained' /\ Head(up) \in Nat
           /\ IF up' = <<>> THEN ~CC!IsFirst(Head(up)) ELSE CC!Follows(Head(up'), Head(up))
<1>1. up \in Seq(Nat) /\ Len(up) \in Nat /\ Len(up) >= 1 /\ Head(up) = up[1] /\ up[1] \in Nat
    BY DEF CcTypes
<1>2. /\ up' \in Seq(Nat) /\ Len(up') = Len(up) - 1
      /\ \A i \in 1 .. Len(up') : up'[i] = up[i + 1]
    BY <1>1
<1>3. \A i \in 1 .. Len(up) - 1 : CC!Follows(up[i + 1], up[i])
    BY DEF Chained
<1>4. \A i \in 1 .. Len(up') - 1 : CC!Follows(up'[i + 1], up'[i])
    BY <1>1, <1>2, <1>3
<1>5. up' # <<>> => ~CC!IsFirst(up'[Len(up')])
    BY <1>1, <1>2 DEF Chained
<1>6. CASE up' = <<>>
  <2>1. Len(up') = 0
    BY <1>2, <1>6
  <2>2. Len(up) = 1 /\ 0 <= CcRoom
    BY <1>1, <1>2, <2>1
  <2>3. ~CC!IsFirst(Head(up))
    BY <1>1, <2>2 DEF Chained
  <2>4. Chained'
    BY <1>4, <1>6, <2>1, <2>2 DEF Chained
  <2> QED
    BY <1>1, <1>2, <1>6, <2>3, <2>4
<1>7. CASE up' # <<>>
  <2>1. Len(up) >= 2 /\ Head(up') = up[2]
    BY <1>1, <1>2, <1>7
  <2>2. CC!Follows(up[2], up[1])
    BY <1>1, <1>3, <2>1
  <2> QED
    BY <1>1, <1>2, <1>4, <1>5, <1>7, <2>1, <2>2 DEF Chained
<1> QED
    BY <1>6, <1>7

(* A frame that fits the queue follows the last one.                       *)
LEMMA FrameChained ==
    ASSUME CcTypes, Chained, CcRoom - Len(up) >= 2,
           up' = up \o <<2 * ccFrames + 1, 2 * ccFrames + 2>>
    PROVE  /\ up' \in Seq(Nat) /\ Chained' /\ up' # <<>>
           /\ Head(up') = IF up = <<>> THEN 2 * ccFrames + 1 ELSE Head(up)
<1> DEFINE one == 2 * ccFrames + 1
           two == 2 * ccFrames + 2
<1>1. /\ up \in Seq(Nat) /\ Len(up) \in Nat /\ one \in Nat /\ two \in Nat /\ one = two - 1
      /\ CC!IsFirst(one) /\ ~CC!IsFirst(two)
    BY Parity DEF CcTypes
<1> HIDE DEF one, two
<1>2. up' = up \o <<one, two>>
    BY DEF one, two
<1>3. /\ up' \in Seq(Nat) /\ Len(up') = Len(up) + 2
      /\ \A i \in 1 .. Len(up) : up'[i] = up[i]
      /\ up'[Len(up) + 1] = one /\ up'[Len(up) + 2] = two
    BY <1>1, <1>2
<1>4. ASSUME NEW i \in 1 .. Len(up') - 1 PROVE CC!Follows(up'[i + 1], up'[i])
  <2>1. CASE i < Len(up)
    BY <1>1, <1>3, <2>1 DEF Chained
  <2>2. CASE i = Len(up)
    <3>1. ~CC!IsFirst(up[Len(up)])
      BY <1>1, <2>2 DEF Chained
    <3>2. up'[i + 1] = one /\ up'[i] = up[Len(up)]
      BY <1>1, <1>3, <2>2
    <3> QED
      BY <1>1, <3>1, <3>2 DEF CC!Follows
  <2>3. CASE i = Len(up) + 1
    <3>1. up'[i + 1] = two /\ up'[i] = one
      BY <1>1, <1>3, <2>3
    <3> QED
      BY <1>1, <3>1 DEF CC!Follows
  <2> QED
    BY <1>1, <1>3, <2>1, <2>2, <2>3
<1>5. up' # <<>> /\ ~CC!IsFirst(up'[Len(up')])
    BY <1>1, <1>3
<1>6. Head(up') = IF up = <<>> THEN one ELSE Head(up)
    BY <1>1, <1>3, <1>5
<1>7. Len(up') <= CcRoom
    BY <1>1, <1>3
<1> QED
    BY <1>3, <1>4, <1>5, <1>6, <1>7 DEF Chained, one

(* The steps of the client that leave the stream alone.                    *)
RcTypes ==
    rc \in [pc : {"net", "connect", "session", "wait", "closed"}, cfg : {0, 1}, gen : Nat,
            route : {0, 1, 2}, retry : 0 .. CcRetryMax, left : 0 .. (CcRetryMax + 1),
            last : Nat, lasted : BOOLEAN]

(* The connection while it waits for its next attempt.                     *)
LEMMA Waited ==
    ASSUME CcTypes, rc.pc \in {"wait", "closed"}, rc' \in {CC!Again, CC!Wait}
    PROVE  RcTypes' /\ rc'.pc # "session"
<1> DEFINE k == IF rc.left > 0 THEN rc.left - 1 ELSE rc.left
           r == IF rc.retry < CcRetryMax THEN rc.retry + 1 ELSE rc.retry
<1>1. RcTypes
    BY DEF CcTypes, RcTypes
<1>2. k \in 0 .. (CcRetryMax + 1) /\ r \in 0 .. CcRetryMax
    BY <1>1 DEF RcTypes
<1>3. CASE rc' = [rc EXCEPT !.pc = "net", !.retry = 0]
  <2>1. 0 \in 0 .. CcRetryMax
    OBVIOUS
  <2> QED
    BY <1>1, <1>3, <2>1 DEF RcTypes
<1>4. CASE rc' = [rc EXCEPT !.left = k]
  <2> HIDE DEF k
  <2> QED
    BY <1>1, <1>2, <1>4 DEF RcTypes
<1>5. CASE rc' = [rc EXCEPT !.pc = "net", !.retry = r]
  <2> HIDE DEF r
  <2> QED
    BY <1>1, <1>2, <1>5 DEF RcTypes
<1> QED
    BY <1>3, <1>4, <1>5 DEF CC!Again, CC!Wait

(* The connection after its end.                                           *)
LEMMA ClosedRc ==
    ASSUME CcTypes, NEW c \in BOOLEAN, rc' = CC!Closed(c)
    PROVE  RcTypes' /\ rc'.pc = "closed"
<1>1. RcTypes /\ rc.retry + 1 \in 0 .. (CcRetryMax + 1) /\ (rc.lasted \/ c) \in BOOLEAN
    BY DEF CcTypes, RcTypes
<1>2. rc' = [rc EXCEPT !.pc = "closed", !.lasted = rc.lasted \/ c, !.left = rc.retry + 1]
    BY DEF CC!Closed
<1> QED
    BY <1>1, <1>2 DEF RcTypes

(* Outside a session, and in one whose stream and last piece stay.         *)
LEMMA CcQuiet ==
    ASSUME CcInv, RcTypes', rc'.pc # "session" \/ (rc.pc = "session" /\ rc'.last = rc.last),
           UNCHANGED <<up, torn, ccFrames, panel, route>>
    PROVE  CcInv'
BY DEF CcInv, CcTypes, RcTypes, Chained

LEMMA CcStep == CcInv /\ [CC!CcNext]_cc => CcInv'
<1> SUFFICES ASSUME CcInv, [CC!CcNext]_cc PROVE CcInv'
    OBVIOUS
<1>1. CcTypes /\ RcTypes /\ Chained /\ ~torn
    BY DEF CcInv, CcTypes, RcTypes
<1>2. CASE CC!FrameIn
  <2>1. UNCHANGED <<rc, panel, route, torn>> /\ ccFrames' \in Nat
    BY <1>1, <1>2 DEF CC!FrameIn, CcTypes
  <2>2. CASE CcRoom - Len(up) >= 2
    <3>1. up' = up \o <<2 * ccFrames + 1, 2 * ccFrames + 2>>
      BY <1>2, <2>2 DEF CC!FrameIn
    <3>2. /\ up' \in Seq(Nat) /\ Chained' /\ up' # <<>>
          /\ Head(up') = IF up = <<>> THEN 2 * ccFrames + 1 ELSE Head(up)
      BY <1>1, <2>2, <3>1, FrameChained
    <3>3. CC!IsFirst(2 * ccFrames + 1)
      BY <1>1, Parity DEF CcTypes
    <3>4. rc.pc = "session" => CC!Follows(Head(up'), rc.last)
      BY <3>2, <3>3 DEF CcInv, CC!Follows
    <3> QED
      BY <1>1, <2>1, <3>2, <3>4 DEF CcInv, CcTypes
  <2>3. CASE ~ (CcRoom - Len(up) >= 2)
    <3>1. up' = up
      BY <1>2, <2>3 DEF CC!FrameIn
    <3> QED
      BY <1>1, <2>1, <3>1 DEF CcInv, CcTypes, Chained
  <2> QED
    BY <2>2, <2>3
<1>3. CASE CC!Saves
  <2>1. UNCHANGED <<ccFrames, up, rc, route, torn>> /\ panel' \in [caster : {0, 1}, gen : Nat]
    BY <1>1, <1>3 DEF CC!Saves, CcTypes
  <2> QED
    BY <2>1 DEF CcInv, CcTypes, Chained
<1>4. CASE CC!RouteMoves
  <2>1. UNCHANGED <<ccFrames, up, rc, panel, torn>> /\ route' \in {0, 1, 2}
    BY <1>4 DEF CC!RouteMoves
  <2> QED
    BY <2>1 DEF CcInv, CcTypes, Chained
<1>5. CASE CC!Discards
  <2>1. up # <<>> /\ up' = Tail(up) /\ rc.pc # "session"
        /\ UNCHANGED <<rc, torn, ccFrames, panel, route>>
    BY <1>5 DEF CC!Discards, CC!around
  <2>2. up' \in Seq(Nat) /\ Chained'
    BY <1>1, <2>1, TailChained
  <2> QED
    BY <2>1, <2>2 DEF CcInv, CcTypes
<1>6. CASE CC!Starts
  <2>1. rc' = [rc EXCEPT !.pc = "connect", !.cfg = panel.caster, !.route = route]
        /\ UNCHANGED <<up, torn, ccFrames, panel, route>>
    BY <1>6 DEF CC!Starts, CC!around
  <2>2. RcTypes' /\ rc'.pc # "session"
    BY <1>1, <2>1 DEF CcTypes, RcTypes
  <2> QED
    BY <2>1, <2>2, CcQuiet
<1>7. CASE CC!ConnectFails
  <2>1. rc' = [rc EXCEPT !.pc = "wait", !.gen = panel.gen, !.left = rc.retry + 1]
        /\ UNCHANGED <<up, torn, ccFrames, panel, route>>
    BY <1>7 DEF CC!ConnectFails, CC!around
  <2>2. RcTypes' /\ rc'.pc # "session"
    <3>1. rc.retry + 1 \in 0 .. (CcRetryMax + 1) /\ panel.gen \in Nat
      BY <1>1 DEF CcTypes
    <3> QED
      BY <1>1, <2>1, <3>1 DEF RcTypes
  <2> QED
    BY <2>1, <2>2, CcQuiet
<1>8. CASE CC!Connects
  <2>1. /\ rc' = [rc EXCEPT !.pc = "session", !.gen = panel.gen, !.last = 0, !.lasted = FALSE]
        /\ up' = <<>> /\ UNCHANGED <<torn, ccFrames, panel, route>>
    BY <1>8 DEF CC!Connects, CC!around
  <2>2. RcTypes' /\ rc'.last = 0
    BY <1>1, <2>1 DEF CcTypes, RcTypes
  <2>3. up' \in Seq(Nat) /\ Len(up') = 0
    BY <2>1
  <2>4. Chained'
    BY <2>1, <2>3 DEF Chained
  <2>5. ~CC!IsFirst(rc'.last)
    BY <2>2 DEF CC!IsFirst
  <2> QED
    BY <1>1, <2>1, <2>2, <2>3, <2>4, <2>5 DEF CcInv, CcTypes, RcTypes
<1>9. CASE CC!Waits
  <2>1. rc.pc = "wait" /\ rc' \in {CC!Again, CC!Wait}
        /\ UNCHANGED <<up, torn, ccFrames, panel, route>>
    BY <1>9 DEF CC!Waits, CC!around
  <2> QED
    BY <1>1, <2>1, Waited, CcQuiet
<1>10. CASE CC!Lasts
  <2>1. rc.pc = "session" /\ rc' = [rc EXCEPT !.lasted = TRUE]
        /\ UNCHANGED <<up, torn, ccFrames, panel, route>>
    BY <1>10 DEF CC!Lasts, CC!around
  <2>2. RcTypes' /\ rc'.last = rc.last
    BY <1>1, <2>1 DEF RcTypes
  <2> QED
    BY <2>1, <2>2, CcQuiet
<1>11. CASE CC!SeesRoute
  <2>1. rc' = CC!Closed(TRUE) /\ UNCHANGED <<up, torn, ccFrames, panel, route>>
    BY <1>11 DEF CC!SeesRoute, CC!around
  <2> QED
    BY <1>1, <2>1, ClosedRc, CcQuiet
<1>12. CASE CC!SeesSave
  <2>1. /\ rc.pc = "session" /\ UNCHANGED <<up, torn, ccFrames, panel, route>>
        /\ rc' = CC!Closed(TRUE) \/ rc' = [rc EXCEPT !.gen = panel.gen]
    BY <1>12 DEF CC!SeesSave, CC!around
  <2>2. CASE rc' = CC!Closed(TRUE)
    BY <1>1, <2>1, <2>2, ClosedRc, CcQuiet
  <2>3. CASE rc' = [rc EXCEPT !.gen = panel.gen]
    <3>1. RcTypes' /\ rc'.last = rc.last
      BY <1>1, <2>3 DEF CcTypes, RcTypes
    <3> QED
      BY <2>1, <3>1, CcQuiet
  <2> QED
    BY <2>1, <2>2, <2>3
<1>13. CASE CC!Sends
  <2>1. rc.pc = "session" /\ up # <<>> /\ up' = Tail(up) /\ UNCHANGED <<ccFrames, panel, route>>
    BY <1>13 DEF CC!Sends, CC!around
  <2>2. /\ up' \in Seq(Nat) /\ Chained' /\ Head(up) \in Nat
        /\ IF up' = <<>> THEN ~CC!IsFirst(Head(up)) ELSE CC!Follows(Head(up'), Head(up))
    BY <1>1, <2>1, TailChained
  <2>3. CC!Follows(Head(up), rc.last)
    BY <2>1 DEF CcInv
  <2>4. CASE torn' = (torn \/ ~CC!Follows(Head(up), rc.last)) /\ rc' = [rc EXCEPT !.last = Head(up)]
    <3>1. ~torn' /\ torn' \in BOOLEAN
      BY <1>1, <2>3, <2>4
    <3>2. RcTypes' /\ rc'.last = Head(up)
      BY <1>1, <2>2, <2>4 DEF RcTypes
    <3> QED
      BY <1>1, <2>1, <2>2, <3>1, <3>2 DEF CcInv, CcTypes, RcTypes
  <2>5. CASE rc' = CC!Closed(FALSE) /\ UNCHANGED torn
    <3>1. RcTypes' /\ rc'.pc = "closed"
      BY <1>1, <2>5, ClosedRc
    <3> QED
      BY <1>1, <2>1, <2>2, <2>5, <3>1 DEF CcInv, CcTypes, RcTypes
  <2> QED
    BY <1>13, <2>4, <2>5 DEF CC!Sends
<1>14. CASE CC!Recovers
  <2>1. rc.pc = "closed" /\ rc' \in {CC!Again, CC!Wait}
        /\ UNCHANGED <<up, torn, ccFrames, panel, route>>
    BY <1>14 DEF CC!Recovers, CC!around
  <2> QED
    BY <1>1, <2>1, Waited, CcQuiet
<1>15. CASE UNCHANGED cc
    BY <1>15 DEF cc, CcInv, CcTypes, Chained
<1> QED
    BY <1>2, <1>3, <1>4, <1>5, <1>6, <1>7, <1>8, <1>9, <1>10, <1>11, <1>12, <1>13, <1>14, <1>15
       DEF CC!CcNext

-----------------------------------------------------------------------------
(* The caster in the base: every rover is either at the piece that is      *)
(* sent, or after it, where what is left in the stream goes on; and a      *)
(* place that was found free stays free until it is taken.                 *)

Pieces == 1 .. 2 * CsFrames

CsTypes ==
    /\ csFrames \in 0 .. CsFrames /\ feed \in Seq(Pieces)
    /\ bc \in [piece : 0 .. 2 * CsFrames, todo : SUBSET Slots]
    /\ socks \in [Slots -> 0 .. (2 * CsFrames + 1)]
    /\ ls \in [pc : {"accept", "shake", "add"}, told : BOOLEAN] /\ half \in BOOLEAN

FeedChained ==
    /\ Len(feed) <= CsRoom
    /\ \A i \in 1 .. Len(feed) - 1 : CS!Follows(feed[i + 1], feed[i] + 1)
    /\ feed # <<>> => feed[Len(feed)] % 2 = 0

(* A rover with this mark can be sent what comes next from the stream f.   *)
Ready(f, mark) ==
    \/ mark \in {0, 1}
    \/ IF f = <<>> THEN (mark - 1) % 2 = 0 ELSE CS!Follows(Head(f), mark)

RoversFollow ==
    /\ CS!Held => Ready(feed, bc.piece + 1)
    /\ ~CS!Held => bc.todo = {}
    /\ \A s \in bc.todo : socks[s] # 0 /\ CS!Follows(bc.piece, socks[s])
    /\ \A s \in Slots \ bc.todo : Ready(feed, socks[s])

PlaceKept ==
    /\ ls.pc # "add" => ~ls.told
    /\ ls.pc = "add" => CS!HasFreeSlot

CsInv == CsTypes /\ FeedChained /\ RoversFollow /\ PlaceKept /\ ~half

LEMMA CsInitInv == CS!CsInit => CsInv
<1> SUFFICES ASSUME CS!CsInit PROVE CsInv
    OBVIOUS
<1>1. feed = <<>> /\ Len(feed) = 0 /\ feed \in Seq(Pieces)
    BY DEF CS!CsInit
<1>2. bc.todo = {} /\ ~CS!Held /\ \A s \in Slots : socks[s] = 0
    BY DEF CS!CsInit, CS!Held
<1>3. CsTypes
  <2>1. bc \in [piece : 0 .. 2 * CsFrames, todo : SUBSET Slots]
    BY DEF CS!CsInit
  <2>2. socks \in [Slots -> 0 .. (2 * CsFrames + 1)]
    BY DEF CS!CsInit
  <2>3. ls \in [pc : {"accept", "shake", "add"}, told : BOOLEAN] /\ half \in BOOLEAN
    BY DEF CS!CsInit
  <2>4. csFrames \in 0 .. CsFrames
    BY DEF CS!CsInit
  <2> QED
    BY <1>1, <2>1, <2>2, <2>3, <2>4 DEF CsTypes
<1>4. RoversFollow
    BY <1>2 DEF RoversFollow, Ready
<1> QED
    BY <1>1, <1>3, <1>4 DEF CS!CsInit, CsInv, FeedChained, PlaceKept

(* What is taken from the front, and a whole frame added at the end.       *)
LEMMA TailFed ==
    ASSUME CsTypes, FeedChained, feed # <<>>, feed' = Tail(feed)
    PROVE  /\ feed' \in Seq(Pieces) /\ FeedChained' /\ Head(feed) \in Pieces
           /\ Ready(feed', Head(feed) + 1)
<1>1. /\ feed \in Seq(Pieces) /\ Len(feed) \in Nat /\ Len(feed) >= 1
      /\ Head(feed) = feed[1] /\ feed[1] \in Pieces
    BY DEF CsTypes
<1>2. /\ feed' \in Seq(Pieces) /\ Len(feed') = Len(feed) - 1
      /\ \A i \in 1 .. Len(feed') : feed'[i] = feed[i + 1]
    BY <1>1
<1>3. \A i \in 1 .. Len(feed) - 1 : CS!Follows(feed[i + 1], feed[i] + 1)
    BY DEF FeedChained
<1>4. \A i \in 1 .. Len(feed') - 1 : CS!Follows(feed'[i + 1], feed'[i] + 1)
    BY <1>1, <1>2, <1>3
<1>5. feed' # <<>> => feed'[Len(feed')] % 2 = 0
    BY <1>1, <1>2 DEF FeedChained
<1>6. Len(feed') <= CsRoom
    BY <1>1, <1>2 DEF FeedChained
<1>7. FeedChained'
    BY <1>4, <1>5, <1>6 DEF FeedChained
<1>8. CASE feed' = <<>>
  <2>1. Len(feed') = 0
    BY <1>2, <1>8
  <2>2. Len(feed) = 1
    BY <1>1, <1>2, <2>1
  <2>3. feed[1] % 2 = 0
    BY <1>1, <2>2 DEF FeedChained
  <2>4. (feed[1] + 1) - 1 = feed[1]
    BY <1>1 DEF Pieces
  <2>5. ((Head(feed) + 1) - 1) % 2 = 0
    BY <1>1, <2>3, <2>4, Zenon
  <2>6. Ready(feed', Head(feed) + 1)
    BY <1>8, <2>5, Zenon DEF Ready
  <2> QED
    BY <1>1, <1>2, <1>7, <2>6
<1>9. CASE feed' # <<>>
  <2>1. Len(feed) >= 2 /\ Head(feed') = feed[2]
    BY <1>1, <1>2, <1>9
  <2>2. CS!Follows(feed[2], feed[1] + 1)
    BY <1>1, <1>3, <2>1
  <2> QED
    BY <1>1, <1>2, <1>7, <1>9, <2>1, <2>2 DEF Ready
<1> QED
    BY <1>8, <1>9

(* A frame that fits the room of the caster's feed follows the last one.   *)
LEMMA FrameFed ==
    ASSUME CsTypes, FeedChained, csFrames < CsFrames, CsRoom - Len(feed) >= 2,
           feed' = feed \o <<2 * csFrames + 1, 2 * csFrames + 2>>
    PROVE  /\ feed' \in Seq(Pieces) /\ FeedChained'
           /\ \A m \in 0 .. (2 * CsFrames + 1) : Ready(feed, m) => Ready(feed', m)
<1> DEFINE one == 2 * csFrames + 1
           two == 2 * csFrames + 2
<1>1. /\ feed \in Seq(Pieces) /\ Len(feed) \in Nat /\ one \in Pieces /\ two \in Pieces
      /\ two = one + 1 /\ one % 2 = 1 /\ two % 2 = 0
    BY DEF CsTypes, Pieces
<1> HIDE DEF one, two
<1>2. feed' = feed \o <<one, two>>
    BY DEF one, two
<1>3. /\ feed' \in Seq(Pieces) /\ Len(feed') = Len(feed) + 2
      /\ \A i \in 1 .. Len(feed) : feed'[i] = feed[i]
      /\ feed'[Len(feed) + 1] = one /\ feed'[Len(feed) + 2] = two
    BY <1>1, <1>2
<1>4. ASSUME NEW i \in 1 .. Len(feed') - 1 PROVE CS!Follows(feed'[i + 1], feed'[i] + 1)
  <2>1. CASE i < Len(feed)
    BY <1>1, <1>3, <2>1 DEF FeedChained
  <2>2. CASE i = Len(feed)
    <3>1. feed[i] \in Pieces /\ feed[i] % 2 = 0
      BY <1>1, <2>2 DEF FeedChained
    <3>2. feed'[i + 1] = one /\ feed'[i] = feed[i]
      BY <1>1, <1>3, <2>2
    <3>3. (feed[i] + 1) - 1 = feed[i]
      BY <3>1 DEF Pieces
    <3>4. ((feed[i] + 1) - 1) % 2 = 0 /\ one % 2 = 1
      BY <1>1, <3>1, <3>3, Zenon
    <3>5. CS!Follows(one, feed[i] + 1)
      BY <3>4, Zenon DEF CS!Follows
    <3> QED
      BY <3>2, <3>5
  <2>3. CASE i = Len(feed) + 1
    <3>1. feed'[i + 1] = two /\ feed'[i] = one
      BY <1>1, <1>3, <2>3
    <3>2. two % 2 # 1
      BY <1>1
    <3>3. CS!Follows(two, one + 1)
      BY <1>1, <3>2, Zenon DEF CS!Follows
    <3> QED
      BY <3>1, <3>3
  <2> QED
    BY <1>1, <1>3, <2>1, <2>2, <2>3
<1>5. feed' # <<>> /\ feed'[Len(feed')] % 2 = 0 /\ Len(feed') <= CsRoom
    BY <1>1, <1>3
<1>6. Head(feed') = IF feed = <<>> THEN one ELSE Head(feed)
    BY <1>1, <1>3, <1>5
<1>7. ASSUME NEW m \in 0 .. (2 * CsFrames + 1), Ready(feed, m) PROVE Ready(feed', m)
    BY <1>1, <1>5, <1>6, <1>7 DEF Ready, CS!Follows
<1> QED
    BY <1>3, <1>4, <1>5, <1>7 DEF FeedChained

LEMMA CsStep == CsInv /\ [CS!CsNext]_cs => CsInv'
<1> SUFFICES ASSUME CsInv, [CS!CsNext]_cs PROVE CsInv'
    OBVIOUS
<1>1. CsTypes /\ FeedChained /\ RoversFollow /\ PlaceKept /\ ~half
    BY DEF CsInv
<1>2. CASE CS!Feed
  <2>1. /\ csFrames < CsFrames /\ csFrames' \in 0 .. CsFrames
        /\ UNCHANGED <<bc, socks, ls, csUsed, half>>
    BY <1>1, <1>2 DEF CS!Feed, CsTypes
  <2>2. /\ feed' \in Seq(Pieces) /\ FeedChained'
        /\ \A m \in 0 .. (2 * CsFrames + 1) : Ready(feed, m) => Ready(feed', m)
    <3>1. CASE CsRoom - Len(feed) >= 2
      BY <1>1, <1>2, <2>1, <3>1, FrameFed DEF CS!Feed
    <3>2. CASE ~ (CsRoom - Len(feed) >= 2)
      <4>1. feed' = feed
        BY <1>2, <3>2 DEF CS!Feed
      <4> QED
        BY <1>1, <4>1 DEF CsTypes, FeedChained
    <3> QED
      BY <3>1, <3>2
  <2>3. CsTypes'
    BY <1>1, <2>1, <2>2 DEF CsTypes
  <2>4. bc.piece + 1 \in 0 .. (2 * CsFrames + 1)
        /\ \A s \in Slots : socks[s] \in 0 .. (2 * CsFrames + 1)
    BY <1>1 DEF CsTypes
  <2>5. RoversFollow'
    BY <1>1, <2>1, <2>2, <2>4 DEF RoversFollow, CS!Held
  <2>6. PlaceKept' /\ ~half'
    BY <1>1, <2>1 DEF PlaceKept, CS!HasFreeSlot
  <2> QED
    BY <2>2, <2>3, <2>5, <2>6 DEF CsInv
<1>3. CASE CS!Takes
  <2>1. /\ ~CS!Held /\ feed # <<>> /\ feed' = Tail(feed)
        /\ bc' = [piece |-> Head(feed), todo |-> {s \in Slots : socks[s] # 0}]
        /\ UNCHANGED <<csFrames, socks, ls, csUsed, half>>
    BY <1>3 DEF CS!Takes
  <2>2. /\ feed' \in Seq(Pieces) /\ FeedChained' /\ Head(feed) \in Pieces
        /\ Ready(feed', Head(feed) + 1)
    BY <1>1, <2>1, TailFed
  <2>3. CsTypes'
    <3>1. bc' \in [piece : 0 .. 2 * CsFrames, todo : SUBSET Slots]
      BY <2>1, <2>2 DEF Pieces
    <3> QED
      BY <1>1, <2>1, <2>2, <3>1 DEF CsTypes
  <2>4. \A s \in Slots : Ready(feed, socks[s])
    BY <1>1, <2>1 DEF RoversFollow
  <2>5. ASSUME NEW s \in Slots, socks[s] # 0 PROVE CS!Follows(Head(feed), socks[s])
    BY <2>1, <2>4, <2>5 DEF Ready, CS!Follows
  <2>6. bc'.piece = Head(feed) /\ bc'.todo = {s \in Slots : socks[s] # 0}
    BY <2>1
  <2>7. RoversFollow'
    <3>1. \A s \in Slots \ bc'.todo : Ready(feed', socks'[s])
      BY <2>1, <2>6 DEF Ready
    <3>2. \A s \in bc'.todo : socks'[s] # 0 /\ CS!Follows(bc'.piece, socks'[s])
      BY <2>1, <2>5, <2>6
    <3>3. bc'.piece # 0 /\ Ready(feed', bc'.piece + 1)
      BY <2>2, <2>6 DEF Pieces
    <3> QED
      BY <3>1, <3>2, <3>3 DEF RoversFollow, CS!Held
  <2>8. PlaceKept' /\ ~half'
    BY <1>1, <2>1 DEF PlaceKept, CS!HasFreeSlot
  <2> QED
    BY <2>2, <2>3, <2>7, <2>8 DEF CsInv
<1>4. ASSUME NEW s \in Slots, CS!SendsTo(s) PROVE CsInv'
  <2>1. /\ CS!Held /\ s \in bc.todo /\ bc' = [bc EXCEPT !.todo = bc.todo \ {s}]
        /\ UNCHANGED <<csFrames, feed, ls>>
    BY <1>4 DEF CS!SendsTo
  <2>2. bc'.piece = bc.piece /\ bc'.todo = bc.todo \ {s}
        /\ bc' \in [piece : 0 .. 2 * CsFrames, todo : SUBSET Slots]
    BY <1>1, <2>1 DEF CsTypes
  <2>3. PICK m \in {0, bc.piece + 1} : socks' = [socks EXCEPT ![s] = m]
    BY <1>4 DEF CS!SendsTo
  <2>4. ~half' /\ half' \in BOOLEAN
    <3>1. CS!Follows(bc.piece, socks[s])
      BY <1>1, <2>1 DEF RoversFollow
    <3>2. half' = (half \/ ~CS!Follows(bc.piece, socks[s])) \/ half' = half
      BY <1>4 DEF CS!SendsTo
    <3>3. half \in BOOLEAN
      BY <1>1 DEF CsTypes
    <3>4. CASE half' = (half \/ ~CS!Follows(bc.piece, socks[s]))
      BY <1>1, <3>1, <3>4
    <3> QED
      BY <1>1, <3>2, <3>3, <3>4
  <2>5. m \in 0 .. (2 * CsFrames + 1) /\ Ready(feed, m)
    BY <1>1, <2>1 DEF CsTypes, RoversFollow, Ready
  <2>6. CsTypes' /\ FeedChained'
    <3>1. socks' \in [Slots -> 0 .. (2 * CsFrames + 1)]
      BY <1>1, <2>3, <2>5 DEF CsTypes
    <3> QED
      BY <1>1, <2>1, <2>2, <2>4, <3>1 DEF CsTypes, FeedChained
  <2>7. \A r \in Slots : socks'[r] = IF r = s THEN m ELSE socks[r]
    BY <1>1, <2>3 DEF CsTypes
  <2>8. RoversFollow'
    BY <1>1, <2>1, <2>2, <2>5, <2>7 DEF RoversFollow, CS!Held, CsTypes
  <2>9. CS!HasFreeSlot => CS!HasFreeSlot'
    BY <1>1, <2>1, <2>7 DEF CS!HasFreeSlot, RoversFollow
  <2>10. PlaceKept'
    BY <1>1, <2>1, <2>9 DEF PlaceKept
  <2> QED
    BY <2>4, <2>6, <2>8, <2>10 DEF CsInv
<1>5. CASE CS!Gives
  <2>1. /\ CS!Held /\ bc.todo = {} /\ bc' = [bc EXCEPT !.piece = 0]
        /\ UNCHANGED <<csFrames, feed, socks, ls, csUsed, half>>
    BY <1>5 DEF CS!Gives
  <2>2. bc'.piece = 0 /\ bc'.todo = {} /\ bc' \in [piece : 0 .. 2 * CsFrames, todo : SUBSET Slots]
    BY <1>1, <2>1 DEF CsTypes
  <2>3. CsTypes' /\ FeedChained'
    BY <1>1, <2>1, <2>2 DEF CsTypes, FeedChained
  <2>4. RoversFollow'
    BY <1>1, <2>1, <2>2 DEF RoversFollow, CS!Held
  <2>5. PlaceKept' /\ ~half'
    BY <1>1, <2>1 DEF PlaceKept, CS!HasFreeSlot
  <2> QED
    BY <2>3, <2>4, <2>5 DEF CsInv
<1>6. CASE CS!Accepts \/ CS!Refuses \/ CS!Answers
  <2>1. /\ ls' \in [pc : {"accept", "shake", "add"}, told : BOOLEAN]
        /\ ls'.pc # "add" => ~ls'.told
        /\ ls'.pc = "add" => CS!HasFreeSlot
    <3>1. ls \in [pc : {"accept", "shake", "add"}, told : BOOLEAN]
          /\ (ls.pc # "add" => ls.told = FALSE)
      BY <1>1 DEF CsTypes, PlaceKept
    <3>2. CASE CS!Accepts
      BY <3>2 DEF CS!Accepts
    <3>3. CASE CS!Refuses
      BY <3>1, <3>3 DEF CS!Refuses
    <3>4. CASE CS!Answers
      <4>1. CASE CS!HasFreeSlot
        BY <3>4, <4>1 DEF CS!Answers
      <4>2. CASE ~CS!HasFreeSlot
        BY <3>1, <3>4, <4>2 DEF CS!Answers
      <4> QED
        BY <4>1, <4>2
    <3> QED
      BY <1>6, <3>2, <3>3, <3>4
  <2>2. UNCHANGED <<csFrames, feed, bc, socks, half>>
    BY <1>6 DEF CS!Accepts, CS!Refuses, CS!Answers
  <2>3. CsTypes' /\ FeedChained'
    BY <1>1, <2>1, <2>2 DEF CsTypes, FeedChained
  <2>4. RoversFollow'
    BY <1>1, <2>2 DEF RoversFollow, CS!Held
  <2>5. PlaceKept' /\ ~half'
    BY <1>1, <2>1, <2>2 DEF PlaceKept, CS!HasFreeSlot
  <2> QED
    BY <2>3, <2>4, <2>5 DEF CsInv
<1>7. CASE CS!Adds
  <2>1. /\ ls.pc = "add" /\ ~CS!Held /\ UNCHANGED <<csFrames, feed, bc, csUsed, half>>
        /\ ls' = [pc |-> "accept", told |-> ~CS!HasFreeSlot]
        /\ socks' = IF CS!HasFreeSlot THEN [socks EXCEPT ![CS!FirstFree] = 1] ELSE socks
    BY <1>7 DEF CS!Adds
  <2>2. CS!HasFreeSlot
    BY <1>1, <2>1 DEF PlaceKept
  <2>3. ls'.pc = "accept" /\ ls'.told = FALSE
        /\ ls' \in [pc : {"accept", "shake", "add"}, told : BOOLEAN]
    BY <2>1, <2>2
  <2>4. socks' \in [Slots -> 0 .. (2 * CsFrames + 1)]
        /\ \A s \in Slots : socks'[s] \in {1, socks[s]}
    <3>1. PICK f : socks' = [socks EXCEPT ![f] = 1]
      BY <2>1, <2>2
    <3>2. socks \in [Slots -> 0 .. (2 * CsFrames + 1)] /\ 1 \in 0 .. (2 * CsFrames + 1)
      BY <1>1 DEF CsTypes
    <3> QED
      BY <3>1, <3>2
  <2>5. CsTypes' /\ FeedChained'
    BY <1>1, <2>1, <2>3, <2>4 DEF CsTypes, FeedChained
  <2>6. RoversFollow'
    BY <1>1, <2>1, <2>4 DEF RoversFollow, CS!Held, Ready
  <2>7. PlaceKept' /\ ~half'
    BY <1>1, <2>1, <2>3 DEF PlaceKept
  <2> QED
    BY <2>5, <2>6, <2>7 DEF CsInv
<1>8. CASE UNCHANGED cs
    BY <1>1, <1>8 DEF cs, CsInv, CsTypes, FeedChained, RoversFollow, PlaceKept, CS!Held,
                      CS!HasFreeSlot
<1> QED
    BY <1>2, <1>3, <1>4, <1>5, <1>6, <1>7, <1>8 DEF CS!CsNext, CS!Broadcasts

-----------------------------------------------------------------------------
(* The measure: a task that runs has not come to its end, and the progress *)
(* of one that nobody is ending is in NVS but for less than SaveEvery.     *)

HIDE FramesAssumption

Progress == [of : Nat, done : Nat, good : Nat]
Accs == [elapsed : Nat, fixed : Nat, float : Nat, never : BOOLEAN, has : Progress,
         base : Nat, last : Nat, quiet : Nat]
MeasureTasks == [is : {"none", "main", "rtk", "has"}, do : {"run", "clear", "save", "restart"},
                 ok : BOOLEAN, of : Nat]

BmTypes ==
    /\ cfg \in [active : BOOLEAN, method : {"rtk", "has"}, mode : {"base", "rover"},
                msg : {"none", "running", "done", "failed", "cancelled"},
                pos : [of : Nat, from : {"installer", "has", "fixed", "float"}]]
    /\ saved \in Progress /\ acc \in Accs /\ task \in MeasureTasks
    /\ httpd \in [act : {"none", "rtk", "has", "cancel"}, do : {"idle", "clear", "save", "restart"}]
    /\ httpd.act = "none" => httpd.do = "idle"
    /\ licensed \in BOOLEAN /\ on \in BOOLEAN /\ asked \in Nat
    /\ cfg.active => cfg.mode = "rover"

NotOver(kind, c) ==
    /\ c.elapsed <= Timeout + Warmup + Hours
    /\ kind = "rtk" => c.elapsed < Timeout
    /\ kind = "has" => c.elapsed <= Warmup \/ c.base + (c.elapsed - Warmup) < Hours

Kept(c, s) == c.last = s.done /\ c.has.done < c.last + SaveEvery

BmInv ==
    /\ BmTypes
    /\ acc.elapsed <= Timeout + Warmup + Hours
    /\ on /\ task.do = "run" => NotOver(task.is, acc)
    /\ BM!Running("has") /\ httpd = BM!Idle => Kept(acc, saved)

(* Nothing accumulated, nothing measured.                                  *)
LEMMA NoAccType ==
    /\ BM!NoAcc \in Accs /\ BM!NoAcc.elapsed = 0 /\ BM!NoTask \in MeasureTasks
    /\ BM!NoTask.is = "none" /\ BM!None \in Progress
<1>1. BM!None \in Progress
    BY DEF BM!None, Progress
<1>2. BM!NoAcc \in Accs /\ BM!NoAcc.elapsed = 0
    BY <1>1 DEF BM!NoAcc, Accs
<1>3. BM!NoTask \in MeasureTasks /\ BM!NoTask.is = "none"
    BY DEF BM!NoTask, MeasureTasks
<1> QED
    BY <1>1, <1>2, <1>3

LEMMA BmInitInv == BM!BmInit => BmInv
<1> SUFFICES ASSUME BM!BmInit PROVE BmInv
    OBVIOUS
<1>1. /\ cfg.active = FALSE
      /\ cfg \in [active : BOOLEAN, method : {"rtk", "has"}, mode : {"base", "rover"},
                  msg : {"none", "running", "done", "failed", "cancelled"},
                  pos : [of : Nat, from : {"installer", "has", "fixed", "float"}]]
    BY DEF BM!BmInit
<1>2. /\ saved = BM!None /\ task = BM!NoTask /\ acc = BM!NoAcc /\ httpd = BM!Idle
      /\ licensed \in BOOLEAN /\ on = FALSE /\ asked = 0
    BY DEF BM!BmInit
<1>3. /\ httpd \in [act : {"none", "rtk", "has", "cancel"},
                    do : {"idle", "clear", "save", "restart"}]
      /\ httpd.do = "idle"
    BY <1>2 DEF BM!Idle
<1>4. BmTypes
    BY <1>1, <1>2, <1>3, NoAccType DEF BmTypes
<1>5. acc.elapsed <= Timeout + Warmup + Hours
    BY <1>2, NoAccType, MeasureAssumption
<1> QED
    BY <1>2, <1>4, <1>5 DEF BmInv, BM!Running

(* The board restarts: nothing runs, and the count is nought.              *)
LEMMA BmOff ==
    ASSUME BmInv, BM!Off, BmTypes'
    PROVE  BmInv'
<1>1. on' = FALSE /\ acc' = BM!NoAcc
    BY DEF BM!Off
<1>2. acc'.elapsed <= Timeout + Warmup + Hours
    BY <1>1, NoAccType, MeasureAssumption
<1> QED
    BY <1>1, <1>2 DEF BmInv, BM!Running

(* Nothing that the invariant is about moves, or a request is begun.       *)
LEMMA BmStays ==
    ASSUME BmInv, BmTypes', UNCHANGED <<on, acc, saved>>,
           task' = task \/ task'.do # "run", httpd' = httpd \/ httpd' # BM!Idle
    PROVE  BmInv'
BY DEF BmInv, BM!Running

LEMMA MeasureTickStep == BmInv /\ BM!MeasureTick => BmInv'
<1> SUFFICES ASSUME BmInv, BM!MeasureTick PROVE BmInv'
    OBVIOUS
<1>1. PICK sample \in {"none", "fixed", "float", "outlier"}, connected \in BOOLEAN :
          acc' = [BM!Averaged(acc, sample) EXCEPT !.elapsed = @ + 1, !.never = @ /\ ~connected]
    BY DEF BM!MeasureTick
<1>2. /\ on /\ task.is = "rtk" /\ task.do = "run" /\ BM!RtkEnds(acc')
      /\ UNCHANGED <<cfg, saved, httpd, licensed, on, budget, asked>>
    BY DEF BM!MeasureTick, BM!Running
<1>3. BmTypes /\ acc \in Accs /\ task \in MeasureTasks /\ acc.elapsed < Timeout
    BY <1>2 DEF BmInv, BmTypes, NotOver
<1> DEFINE fx == IF sample = "fixed" THEN acc.fixed + 1 ELSE acc.fixed
           fl == IF sample = "float" THEN acc.float + 1 ELSE acc.float
           av == BM!Averaged(acc, sample)
<1>4. av = [acc EXCEPT !.fixed = fx, !.float = fl]
    BY DEF BM!Averaged
<1>5. fx \in Nat /\ fl \in Nat
    BY <1>3 DEF Accs
<1> HIDE DEF fx, fl
<1>6. av \in Accs /\ av.elapsed = acc.elapsed
  <2> HIDE DEF av
  <2> QED
    BY <1>3, <1>4, <1>5 DEF Accs
<1>7. acc' \in Accs /\ acc'.elapsed = acc.elapsed + 1
  <2> HIDE DEF av
  <2>1. acc' = [av EXCEPT !.elapsed = av.elapsed + 1, !.never = av.never /\ ~connected]
    BY <1>1 DEF av
  <2>2. (av.never /\ ~connected) \in BOOLEAN /\ av.elapsed + 1 \in Nat
    BY <1>3, <1>6 DEF Accs
  <2> QED
    BY <1>3, <1>6, <2>1, <2>2 DEF Accs
<1>8. task' \in MeasureTasks /\ task'.is = "rtk" /\ (task'.do = "run" => acc'.elapsed < Timeout)
  <2>1. CASE task' = task /\ acc'.elapsed < Timeout
    BY <1>2, <1>3, <2>1
  <2>2. ASSUME NEW ok \in BOOLEAN, BM!Finish(ok)
        PROVE  task' \in MeasureTasks /\ task'.is = "rtk" /\ task'.do = "save"
    <3>1. task' = [task EXCEPT !.do = "save", !.ok = ok]
      BY <1>2, <2>2 DEF BM!Finish
    <3> QED
      BY <1>2, <1>3, <3>1 DEF MeasureTasks
  <2>3. (task' = task /\ acc'.elapsed < Timeout) \/ (\E ok \in BOOLEAN : BM!Finish(ok))
    <3>1. CASE acc'.never /\ acc'.elapsed >= NoCaster
      BY <1>2, <3>1 DEF BM!RtkEnds
    <3>2. CASE ~ (acc'.never /\ acc'.elapsed >= NoCaster) /\ acc'.fixed >= FixedTarget
      BY <1>2, <3>2 DEF BM!RtkEnds
    <3>3. CASE ~ (acc'.never /\ acc'.elapsed >= NoCaster) /\ ~ (acc'.fixed >= FixedTarget)
      <4> DEFINE ok == acc'.fixed >= FixedMin \/ acc'.float >= FloatMin
      <4>1. acc'.fixed < FixedTarget /\ ok \in BOOLEAN
        BY <1>7, <3>3, MeasureAssumption DEF Accs
      <4>2. CASE acc'.elapsed >= Timeout
        <5>1. BM!Finish(ok)
          BY <1>2, <3>3, <4>1, <4>2, Zenon DEF BM!RtkEnds
        <5> QED
          BY <4>1, <5>1, Zenon
      <4>3. CASE ~ (acc'.elapsed >= Timeout)
        <5>1. UNCHANGED task
          BY <1>2, <3>3, <4>1, <4>3, Zenon DEF BM!RtkEnds
        <5> QED
          BY <1>7, <4>3, <5>1, MeasureAssumption DEF Accs
      <4> QED
        BY <4>2, <4>3
    <3> QED
      BY <3>1, <3>2, <3>3
  <2> QED
    BY <2>1, <2>2, <2>3
<1>9. BmTypes'
    BY <1>2, <1>3, <1>7, <1>8 DEF BmTypes
<1>10. acc'.elapsed <= Timeout + Warmup + Hours /\ (task'.do = "run" => NotOver("rtk", acc'))
    BY <1>3, <1>7, <1>8, MeasureAssumption DEF NotOver, Accs
<1> QED
    BY <1>8, <1>9, <1>10 DEF BmInv, BM!Running

LEMMA HasTickStep == BmInv /\ BM!HasTick => BmInv'
<1> SUFFICES ASSUME BmInv, BM!HasTick PROVE BmInv'
    OBVIOUS
<1>1. PICK sol \in {"none", "bad", "good"} :
        LET now == BM!HasNow(sol)
        IN  /\ acc' = IF BM!HasSaves(now) THEN [now EXCEPT !.last = now.has.done] ELSE now
            /\ saved' = IF now.quiet < NoData /\ BM!HasSaves(now) THEN now.has ELSE saved
            /\ BM!HasEnds(now)
    BY DEF BM!HasTick
<1>2. /\ on /\ task.is = "has" /\ task.do = "run" /\ BM!Running("has")
      /\ UNCHANGED <<cfg, httpd, licensed, on, budget, asked>>
    BY DEF BM!HasTick, BM!Running
<1>3. /\ BmTypes /\ acc \in Accs /\ saved \in Progress /\ task \in MeasureTasks
      /\ acc.elapsed <= Warmup \/ acc.base + (acc.elapsed - Warmup) < Hours
      /\ httpd = BM!Idle => Kept(acc, saved)
    BY <1>2 DEF BmInv, BmTypes, NotOver
<1> DEFINE q   == IF sol = "none" THEN acc.quiet + 1 ELSE 0
           one == [acc EXCEPT !.elapsed = acc.elapsed + 1, !.quiet = q]
           d   == BM!HasDone(one)
           g   == BM!HasAveraged(acc, sol)
           two == [one EXCEPT !.has.of = IF @ = 0 THEN task.of ELSE @,
                              !.has.done = d, !.has.good = g]
<1>4. q \in Nat /\ task.of \in Nat /\ acc.has \in Progress
  <2>1. acc.quiet \in Nat /\ task.of \in Nat /\ acc.has.of \in Nat
    BY <1>3 DEF Accs, MeasureTasks, Progress
  <2> QED
    BY <1>3, <2>1 DEF Accs
<1>5. /\ one \in Accs /\ one.elapsed = acc.elapsed + 1 /\ one.has = acc.has
      /\ one.base = acc.base /\ one.last = acc.last /\ one.quiet = q
  <2> DEFINE e == acc.elapsed + 1
  <2>1. acc \in Accs /\ q \in Nat /\ e \in Nat
    BY <1>3, <1>4 DEF Accs
  <2>2. one = [acc EXCEPT !.elapsed = e, !.quiet = q]
    OBVIOUS
  <2> HIDE DEF q, e, one
  <2>3. /\ one \in Accs /\ one.elapsed = e /\ one.has = acc.has
        /\ one.base = acc.base /\ one.last = acc.last /\ one.quiet = q
    BY <2>1, <2>2 DEF Accs
  <2> QED
    BY <2>3 DEF e
<1>6. /\ d \in Nat /\ g \in Nat
      /\ d = acc.base + (IF one.elapsed > Warmup THEN one.elapsed - Warmup ELSE 0)
  <2>1. d = one.base + (IF one.elapsed > Warmup THEN one.elapsed - Warmup ELSE 0)
    BY DEF BM!HasDone
  <2>2. one.base = acc.base /\ acc.base \in Nat /\ one.elapsed \in Nat
    BY <1>3, <1>5 DEF Accs
  <2>3. g \in Nat
    BY <1>4 DEF BM!HasAveraged, Progress
  <2> HIDE DEF one, d
  <2> QED
    BY <2>1, <2>2, <2>3, MeasureAssumption
<1>7. /\ two \in Accs /\ two.has \in Progress /\ two.has.done = d /\ two.elapsed = one.elapsed
      /\ two.base = one.base /\ two.last = one.last /\ two.quiet = q
  <2> DEFINE o  == IF one.has.of = 0 THEN task.of ELSE one.has.of
             h1 == [one.has EXCEPT !.of = o]
             a1 == [one EXCEPT !.has = h1]
             h2 == [a1.has EXCEPT !.done = d]
             a2 == [a1 EXCEPT !.has = h2]
             h3 == [a2.has EXCEPT !.good = g]
             a3 == [a2 EXCEPT !.has = h3]
  <2> HIDE DEF one, d, g, q
  <2>1. two = a3
    OBVIOUS
  <2>2. o \in Nat /\ one.has \in Progress /\ one \in Accs
    BY <1>4, <1>5 DEF Progress
  <2> HIDE DEF o
  <2>3. h1 \in Progress
    BY <2>2 DEF Progress
  <2> HIDE DEF h1
  <2>4. a1 \in Accs /\ a1.has = h1 /\ a1.elapsed = one.elapsed /\ a1.base = one.base
        /\ a1.last = one.last /\ a1.quiet = one.quiet
    BY <2>2, <2>3 DEF Accs
  <2> HIDE DEF a1
  <2>5. h2 \in Progress /\ h2.done = d
    BY <1>6, <2>3, <2>4 DEF Progress
  <2> HIDE DEF h2
  <2>6. a2 \in Accs /\ a2.has = h2 /\ a2.elapsed = one.elapsed /\ a2.base = one.base
        /\ a2.last = one.last /\ a2.quiet = one.quiet
    BY <2>4, <2>5 DEF Accs
  <2> HIDE DEF a2
  <2>7. h3 \in Progress /\ h3.done = d
    BY <1>6, <2>5, <2>6 DEF Progress
  <2> HIDE DEF h3
  <2>8. a3 \in Accs /\ a3.has = h3 /\ a3.elapsed = one.elapsed /\ a3.base = one.base
        /\ a3.last = one.last /\ a3.quiet = one.quiet
    BY <2>6, <2>7 DEF Accs
  <2> QED
    BY <1>5, <2>1, <2>7, <2>8
<1>8. /\ acc' = IF BM!HasSaves(two) THEN [two EXCEPT !.last = two.has.done] ELSE two
      /\ saved' = IF two.quiet < NoData /\ BM!HasSaves(two) THEN two.has ELSE saved
      /\ BM!HasEnds(two)
  <2>1. two = BM!HasNow(sol)
    BY DEF BM!HasNow
  <2> HIDE DEF two
  <2> QED
    BY <1>1, <2>1
<1> HIDE DEF two, one, d, g, q
<1>9. /\ acc' \in Accs /\ acc'.elapsed = acc.elapsed + 1 /\ acc'.base = acc.base
      /\ acc'.has.done = d /\ saved' \in Progress
      /\ acc'.last = IF BM!HasSaves(two) THEN d ELSE acc.last
  <2>1. d \in Nat /\ two.has.done = d
    BY <1>6, <1>7
  <2> QED
    BY <1>3, <1>5, <1>7, <1>8, <2>1 DEF Accs
<1>10. /\ task' \in MeasureTasks
       /\ task'.do = "run" => /\ task' = task /\ two.quiet < NoData /\ d < Hours
  <2>1. CASE two.quiet >= NoData
    <3>0. BM!Finish(FALSE)
      <4>1. ~ (two.quiet < NoData)
        BY <1>4, <1>7, <2>1, MeasureAssumption
      <4> QED
        BY <1>8, <2>1, <4>1, Zenon DEF BM!HasEnds
    <3>1. task' = [task EXCEPT !.do = "clear", !.ok = FALSE]
      BY <1>2, <3>0 DEF BM!Finish
    <3> QED
      BY <1>3, <3>1 DEF MeasureTasks
  <2>2. CASE two.quiet < NoData /\ two.has.done >= Hours
    <3>1. ~ (two.quiet >= NoData) /\ (two.has.good >= MinGood) \in BOOLEAN
      BY <1>4, <1>7, <2>2, MeasureAssumption
    <3>2. BM!Finish(two.has.good >= MinGood)
      BY <1>8, <2>2, <3>1, Zenon DEF BM!HasEnds
    <3> DEFINE ok == two.has.good >= MinGood
    <3>3. task' = [task EXCEPT !.do = "clear", !.ok = ok]
      BY <1>2, <3>2 DEF BM!Finish
    <3> HIDE DEF ok
    <3> QED
      BY <1>3, <3>1, <3>3 DEF MeasureTasks, ok
  <2>3. CASE ~ (two.quiet >= NoData) /\ ~ (two.quiet < NoData /\ two.has.done >= Hours)
    <3>1. UNCHANGED task
      BY <1>8, <2>3, Zenon DEF BM!HasEnds
    <3> QED
      BY <1>3, <1>4, <1>6, <1>7, <2>3, <3>1, MeasureAssumption
  <2> QED
    BY <2>1, <2>2, <2>3
<1>11. acc'.elapsed <= Timeout + Warmup + Hours
       /\ (task'.do = "run" => NotOver("has", acc'))
  <2>1. /\ acc.elapsed \in Nat /\ acc.base \in Nat /\ one.elapsed = acc.elapsed + 1
        /\ acc'.elapsed = acc.elapsed + 1 /\ acc'.base = acc.base
    BY <1>3, <1>5, <1>9 DEF Accs
  <2>2. acc'.elapsed <= Timeout + Warmup + Hours
    BY <1>3, <2>1, MeasureAssumption
  <2>3. task'.do = "run" => acc'.elapsed <= Warmup \/ acc'.base + (acc'.elapsed - Warmup) < Hours
    BY <1>6, <1>10, <2>1, MeasureAssumption
  <2> QED
    BY <2>2, <2>3 DEF NotOver
<1>12. BM!Running("has")' /\ httpd' = BM!Idle => Kept(acc', saved')
  <2>1. SUFFICES ASSUME task'.do = "run", httpd' = BM!Idle PROVE Kept(acc', saved')
    BY DEF BM!Running
  <2>2. Kept(acc, saved) /\ two.quiet < NoData
    BY <1>2, <1>3, <1>10, <2>1
  <2>3. CASE BM!HasSaves(two)
    BY <1>6, <1>7, <1>8, <1>9, <2>2, <2>3, MeasureAssumption DEF Kept
  <2>4. CASE ~BM!HasSaves(two)
    <3>1. d - acc.last < SaveEvery
      BY <1>3, <1>5, <1>6, <1>7, <2>4, MeasureAssumption DEF BM!HasSaves, Accs
    <3> QED
      BY <1>3, <1>6, <1>8, <1>9, <2>2, <2>4, <3>1, MeasureAssumption DEF Kept, Accs
  <2> QED
    BY <2>3, <2>4
<1>13. BmTypes'
    BY <1>2, <1>3, <1>9, <1>10 DEF BmTypes
<1> QED
    BY <1>2, <1>10, <1>11, <1>12, <1>13 DEF BmInv, NotOver

LEMMA BmStep == BmInv /\ [BM!BmNext]_bm => BmInv'
<1> SUFFICES ASSUME BmInv, [BM!BmNext]_bm PROVE BmInv'
    OBVIOUS
<1>1. BmTypes
    BY DEF BmInv
<1>2. CASE BM!StartIfActive
  <2>1. /\ ~on /\ on' = TRUE /\ UNCHANGED <<cfg, saved, httpd, licensed, budget, asked>>
        /\ acc' = IF cfg.active /\ licensed /\ cfg.method = "has" THEN BM!HasLoad ELSE BM!NoAcc
    BY <1>2 DEF BM!StartIfActive
  <2>2. acc' \in Accs /\ acc'.elapsed = 0
    <3>1. saved \in Progress /\ saved.done \in Nat
      BY <1>1 DEF BmTypes, Progress
    <3>2. BM!HasLoad = [BM!NoAcc EXCEPT !.has = saved, !.base = saved.done, !.last = saved.done]
      BY DEF BM!HasLoad
    <3>3. BM!HasLoad \in Accs /\ BM!HasLoad.elapsed = 0
      BY <3>1, <3>2, NoAccType DEF Accs
    <3> QED
      BY <2>1, <3>3, NoAccType
  <2>3. CASE ~cfg.active
    <3>1. task' = BM!NoTask
      BY <1>2, <2>3 DEF BM!StartIfActive
    <3> QED
      BY <1>1, <2>1, <2>2, <3>1, NoAccType, MeasureAssumption
         DEF BmInv, BmTypes, BM!Running, NotOver
  <2>4. CASE cfg.active /\ ~licensed
    <3>1. task' = BM!Task("main", "clear")
      BY <1>2, <2>4 DEF BM!StartIfActive
    <3>2. task' \in MeasureTasks /\ task'.do = "clear"
      BY <1>1, <3>1 DEF BM!Task, MeasureTasks, BmTypes
    <3> QED
      BY <1>1, <2>1, <2>2, <3>2, MeasureAssumption DEF BmInv, BmTypes, BM!Running
  <2>5. CASE cfg.active /\ licensed
    <3>1. task' = BM!Task(cfg.method, "run")
      BY <1>2, <2>5 DEF BM!StartIfActive
    <3>2. task' \in MeasureTasks /\ task'.do = "run" /\ task'.is = cfg.method
      BY <1>1, <3>1 DEF BM!Task, MeasureTasks, BmTypes
    <3>3. NotOver(task'.is, acc') /\ acc'.elapsed <= Timeout + Warmup + Hours
      BY <2>2, MeasureAssumption DEF NotOver
    <3>4. cfg.method = "has" => Kept(acc', saved')
      <4>1. SUFFICES ASSUME cfg.method = "has" PROVE Kept(acc', saved')
        OBVIOUS
      <4>2. acc' = [BM!NoAcc EXCEPT !.has = saved, !.base = saved.done, !.last = saved.done]
        BY <2>1, <2>5, <4>1 DEF BM!HasLoad
      <4>3. acc'.has = saved /\ acc'.last = saved.done /\ saved.done \in Nat
        BY <1>1, <4>2, NoAccType DEF Accs, BmTypes, Progress
      <4> QED
        BY <2>1, <4>3, MeasureAssumption DEF Kept
    <3> QED
      BY <1>1, <2>1, <2>2, <3>2, <3>3, <3>4 DEF BmInv, BmTypes, BM!Running
  <2> QED
    BY <2>3, <2>4, <2>5
<1>3. CASE BM!MeasureTick \/ BM!HasTick
    BY <1>3, MeasureTickStep, HasTickStep
<1>4. CASE BM!FinishClear
  <2>1. /\ saved' = BM!None /\ task' = [task EXCEPT !.do = "save"]
        /\ UNCHANGED <<cfg, acc, httpd, licensed, on, budget, asked>>
    BY <1>4 DEF BM!FinishClear
  <2>2. task' \in MeasureTasks /\ task'.do = "save"
    BY <1>1, <2>1 DEF BmTypes, MeasureTasks
  <2> QED
    BY <1>1, <2>1, <2>2, NoAccType DEF BmInv, BmTypes, BM!Running
<1>5. CASE BM!FinishSave
  <2>1. /\ cfg' = [cfg EXCEPT !.active = FALSE, !.mode = "base",
                              !.msg = IF task.ok THEN "done" ELSE "failed",
                              !.pos = IF task.ok THEN [of |-> task.of, from |-> BM!From] ELSE @]
        /\ task' = [task EXCEPT !.do = "restart"]
        /\ UNCHANGED <<saved, acc, httpd, licensed, on, budget, asked>>
    BY <1>5 DEF BM!FinishSave
  <2>2. task' \in MeasureTasks /\ task'.do = "restart"
    BY <1>1, <2>1 DEF BmTypes, MeasureTasks
  <2>3. /\ cfg' \in [active : BOOLEAN, method : {"rtk", "has"}, mode : {"base", "rover"},
                     msg : {"none", "running", "done", "failed", "cancelled"},
                     pos : [of : Nat, from : {"installer", "has", "fixed", "float"}]]
        /\ cfg'.active = FALSE
    <3> DEFINE ps == IF task.ok THEN [of |-> task.of, from |-> BM!From] ELSE cfg.pos
               ms == IF task.ok THEN "done" ELSE "failed"
    <3>1. task.of \in Nat /\ BM!From \in {"installer", "has", "fixed", "float"}
      BY <1>1 DEF BmTypes, MeasureTasks, BM!From
    <3>2. ps \in [of : Nat, from : {"installer", "has", "fixed", "float"}]
          /\ ms \in {"none", "running", "done", "failed", "cancelled"}
      BY <1>1, <3>1 DEF BmTypes
    <3>3. cfg' = [cfg EXCEPT !.active = FALSE, !.mode = "base", !.msg = ms, !.pos = ps]
      BY <2>1
    <3> HIDE DEF ps, ms
    <3> QED
      BY <1>1, <3>2, <3>3 DEF BmTypes
  <2>4. BmTypes'
    BY <1>1, <2>1, <2>2, <2>3 DEF BmTypes
  <2> QED
    BY <2>1, <2>2, <2>4, BmStays
<1>6. CASE BM!FinishRestart \/ BM!HttpdRestart \/ BM!PowerCut
  <2>1. BM!Off /\ UNCHANGED <<cfg, saved, licensed, asked>>
    BY <1>6 DEF BM!FinishRestart, BM!HttpdRestart, BM!PowerCut
  <2>2. /\ httpd' \in [act : {"none", "rtk", "has", "cancel"},
                       do : {"idle", "clear", "save", "restart"}]
        /\ httpd'.do = "idle"
    BY <2>1 DEF BM!Off, BM!Idle
  <2>3. BmTypes'
    BY <1>1, <2>1, <2>2, NoAccType DEF BmTypes, BM!Off
  <2> QED
    BY <2>1, <2>3, BmOff
<1>7. CASE BM!LicenseChanges
  <2>1. BmTypes' /\ UNCHANGED <<on, acc, saved, task, httpd>>
    BY <1>1, <1>7 DEF BM!LicenseChanges, BmTypes
  <2> QED
    BY <2>1, BmStays
<1>8. CASE BM!Request
  <2>1. /\ UNCHANGED <<cfg, saved, task, acc, licensed, on, asked>>
        /\ httpd' = httpd \/ \E act \in {"rtk", "has", "cancel"}, do \in {"clear", "save"} :
                                 httpd' = [act |-> act, do |-> do]
    BY <1>8 DEF BM!Request
  <2>2. BmTypes'
    BY <1>1, <2>1 DEF BmTypes
  <2>3. httpd' = httpd \/ httpd' # BM!Idle
    BY <2>1 DEF BM!Idle
  <2> QED
    BY <2>1, <2>2, <2>3, BmStays
<1>9. CASE BM!HttpdClear
  <2>1. /\ saved' = BM!None /\ UNCHANGED <<cfg, task, acc, licensed, on, budget, asked>>
        /\ httpd' = [httpd EXCEPT !.do = IF httpd.act = "has" THEN "save" ELSE "restart"]
    BY <1>9 DEF BM!HttpdClear
  <2>2. /\ httpd' \in [act : {"none", "rtk", "has", "cancel"},
                       do : {"idle", "clear", "save", "restart"}]
        /\ httpd'.do # "idle" /\ httpd'.act # "none"
    BY <1>1, <1>9, <2>1 DEF BmTypes, BM!HttpdClear
  <2>3. httpd' # BM!Idle
    BY <2>2 DEF BM!Idle
  <2>4. BmTypes'
    BY <1>1, <2>1, <2>2, NoAccType DEF BmTypes
  <2> QED
    BY <2>1, <2>3, <2>4 DEF BmInv, BM!Running
<1>10. CASE BM!HttpdStart
  <2>1. /\ cfg' = [cfg EXCEPT !.active = TRUE, !.method = httpd.act, !.mode = "rover",
                              !.msg = "running"]
        /\ httpd' = [httpd EXCEPT !.do = "restart"] /\ asked' = asked + 1
        /\ UNCHANGED <<saved, task, acc, licensed, on, budget>>
        /\ httpd.act # "cancel" /\ httpd.do = "save"
    BY <1>10 DEF BM!HttpdStart
  <2>2. /\ httpd' \in [act : {"none", "rtk", "has", "cancel"},
                       do : {"idle", "clear", "save", "restart"}]
        /\ httpd'.do = "restart" /\ httpd'.act = httpd.act /\ httpd.act \in {"rtk", "has"}
    BY <1>1, <2>1 DEF BmTypes
  <2>3. BmTypes'
    <3>1. /\ cfg' \in [active : BOOLEAN, method : {"rtk", "has"}, mode : {"base", "rover"},
                       msg : {"none", "running", "done", "failed", "cancelled"},
                       pos : [of : Nat, from : {"installer", "has", "fixed", "float"}]]
          /\ cfg'.mode = "rover"
      BY <1>1, <2>1, <2>2 DEF BmTypes
    <3>2. asked' \in Nat
      BY <1>1, <2>1 DEF BmTypes
    <3> QED
      BY <1>1, <2>1, <2>2, <3>1, <3>2 DEF BmTypes
  <2>4. httpd' # BM!Idle
    BY <2>2 DEF BM!Idle
  <2> QED
    BY <2>1, <2>3, <2>4, BmStays
<1>11. CASE BM!HttpdCancel
  <2>1. /\ cfg' = [cfg EXCEPT !.active = FALSE, !.mode = "base", !.msg = "cancelled"]
        /\ httpd' = [httpd EXCEPT !.do = "clear"]
        /\ UNCHANGED <<saved, task, acc, licensed, on, budget, asked>>
        /\ httpd.act = "cancel"
    BY <1>11 DEF BM!HttpdCancel
  <2>2. /\ httpd' \in [act : {"none", "rtk", "has", "cancel"},
                       do : {"idle", "clear", "save", "restart"}]
        /\ httpd'.do = "clear" /\ httpd'.act = "cancel"
    BY <1>1, <2>1 DEF BmTypes
  <2>3. BmTypes'
    BY <1>1, <2>1, <2>2 DEF BmTypes
  <2>4. httpd' # BM!Idle
    BY <2>2 DEF BM!Idle
  <2> QED
    BY <2>1, <2>3, <2>4, BmStays
<1>12. CASE UNCHANGED bm
    BY <1>12 DEF bm, BmInv, BmTypes, BM!Running
<1> QED
    BY <1>2, <1>3, <1>4, <1>5, <1>6, <1>7, <1>8, <1>9, <1>10, <1>11, <1>12
       DEF BM!BmNext, BM!Measures, BM!Serves

-----------------------------------------------------------------------------
(* The check of the position: a sample is far, a window is bad and the     *)
(* alarm is on only when the antenna has been away from the reference.     *)

Frames == [is : {"nav"}, part : Parts, of : 1 .. MaxIssues]
          \union [is : {"rawx"}, after : 1 .. (EphMaxAge + 1)]
Windows  == [n : Nat, far : Nat, elapsed : 0 .. Window]
Verdicts == [have : BOOLEAN, exceed : 0 .. AlarmWindows, alarm : BOOLEAN]

SpTypes ==
    /\ issue \in 1 .. MaxIssues /\ antenna \in SP!Places
    /\ sent \in SP!Places \union {"none"} /\ ref \in SP!Places \union {"none"}
    /\ queue \in Seq(Frames) /\ Len(queue) <= QueueMax
    /\ parts \in [Parts -> 0 .. MaxIssues]
    /\ eph \in [of : SUBSET (0 .. MaxIssues), age : Nat] /\ SP!Cardinality(eph.of) <= 1
    /\ win \in Windows /\ win.far <= win.n
    /\ verdict \in Verdicts /\ (verdict.alarm <=> verdict.exceed >= AlarmWindows)
    /\ wasAway \in BOOLEAN

Earned(w, v, was) == w.far > 0 \/ v.exceed > 0 => was

SpInv ==
    /\ SpTypes
    /\ ref # "none" /\ antenna # ref => wasAway
    /\ Earned(win, verdict, wasAway)

(* An empty window, no verdict.                                            *)
LEMMA EmptyWindow ==
    /\ SP!NoWindow \in Windows /\ SP!NoWindow.far = 0 /\ SP!NoWindow.n = 0
    /\ SP!NoResult \in Verdicts /\ SP!NoResult.exceed = 0 /\ SP!NoResult.alarm = FALSE
<1>1. SP!NoWindow \in Windows /\ SP!NoWindow.far = 0 /\ SP!NoWindow.n = 0
    BY DriftAssumption DEF SP!NoWindow, Windows
<1>2. SP!NoResult \in Verdicts /\ SP!NoResult.exceed = 0 /\ SP!NoResult.alarm = FALSE
    BY DriftAssumption DEF SP!NoResult, Verdicts
<1> QED
    BY <1>1, <1>2

LEMMA SpInitInv == SP!SpInit => SpInv
<1> SUFFICES ASSUME SP!SpInit PROVE SpInv
    OBVIOUS
<1>1. /\ issue \in 1 .. MaxIssues /\ antenna = "here" /\ sent = "none" /\ ref = "none"
      /\ wasAway = FALSE /\ win = SP!NoWindow /\ verdict = SP!NoResult
    BY DriftAssumption DEF SP!SpInit
<1>2. queue \in Seq(Frames) /\ Len(queue) <= QueueMax
    BY DriftAssumption DEF SP!SpInit
<1>3. parts \in [Parts -> 0 .. MaxIssues]
    BY DriftAssumption DEF SP!SpInit
<1>4. eph \in [of : SUBSET (0 .. MaxIssues), age : Nat] /\ SP!Cardinality(eph.of) <= 1
  <2>1. eph = [of |-> {}, age |-> 0]
    BY DEF SP!SpInit, SP!NoEph
  <2>2. SP!Cardinality({}) = 0
    <3>1. \A S : SP!Cardinality(S) = Cardinality(S)
      BY Zenon DEF SP!Cardinality, Cardinality
    <3> QED
      BY <3>1, FS_EmptySet
  <2> QED
    BY <2>1, <2>2
<1>5. win \in Windows /\ win.far <= win.n /\ win.far = 0
    BY <1>1, EmptyWindow
<1>6. /\ verdict \in Verdicts /\ (verdict.alarm <=> verdict.exceed >= AlarmWindows)
      /\ verdict.exceed = 0
    BY <1>1, EmptyWindow, DriftAssumption
<1>7. SpTypes
    BY <1>1, <1>2, <1>3, <1>4, <1>5, <1>6 DEF SpTypes, SP!Places
<1> QED
    BY <1>1, <1>5, <1>6, <1>7 DEF SpInv, Earned

(* What comes and goes in the queue is frames.                             *)
LEMMA TailFrames ==
    ASSUME SpTypes, queue # <<>>
    PROVE  Tail(queue) \in Seq(Frames) /\ Len(Tail(queue)) <= QueueMax /\ Head(queue) \in Frames
<1>1. queue \in Seq(Frames) /\ Len(queue) <= QueueMax /\ Len(queue) \in Nat
    BY DEF SpTypes
<1>2. Len(Tail(queue)) = Len(queue) - 1 /\ Tail(queue) \in Seq(Frames) /\ Head(queue) \in Frames
    BY <1>1
<1> QED
    BY <1>1, <1>2, DriftAssumption

(* What the receiver puts in the queue, whatever quality it has.           *)
LEMMA FedFrames ==
    ASSUME SpTypes, SP!FeedGood \/ SP!FeedPoor
    PROVE  queue' \in Seq(Frames) /\ Len(queue') <= QueueMax
<1>1. /\ \A p \in Parts : SP!Nav(p) \in Frames
      /\ \A dt \in {1, EphMaxAge + 1} : SP!Rawx(dt) \in Frames
    BY DriftAssumption DEF SpTypes, Frames, SP!Nav, SP!Rawx
<1>2. ASSUME NEW f \in Frames, SP!Queue(f)
      PROVE  queue' \in Seq(Frames) /\ Len(queue') <= QueueMax
  <2>1. CASE Len(queue) < QueueMax
    <3>1. queue' = Append(queue, f)
      BY <1>2, <2>1 DEF SP!Queue
    <3>2. queue \in Seq(Frames) /\ Len(queue) \in Nat
      BY DEF SpTypes
    <3>3. queue' \in Seq(Frames) /\ Len(queue') = Len(queue) + 1
      BY <3>1, <3>2
    <3> QED
      BY <2>1, <3>2, <3>3, DriftAssumption
  <2>2. CASE ~ (Len(queue) < QueueMax)
    BY <1>2, <2>2 DEF SP!Queue, SpTypes
  <2> QED
    BY <2>1, <2>2
<1>3. CASE SP!FeedGood
  <2>1. PICK p \in Parts : queue' = <<SP!Nav(p), SP!Rawx(1)>>
    BY <1>3 DEF SP!FeedGood
  <2> QED
    BY <1>1, <2>1, DriftAssumption
<1>4. CASE SP!FeedPoor
  <2>1. PICK f \in {SP!Nav(p) : p \in Parts} \union {SP!Rawx(dt) : dt \in {1, EphMaxAge + 1}} :
            SP!Queue(f)
    BY <1>4 DEF SP!FeedPoor
  <2> QED
    BY <1>1, <1>2, <2>1
<1> QED
    BY <1>3, <1>4

(* The window after an epoch, and the verdict after a window.              *)
LEMMA SampleEarned ==
    ASSUME NEW w \in Windows, w.far <= w.n, NEW sol \in {"here", "there", "wild", "none"},
           NEW dt \in 1 .. (EphMaxAge + 1)
    PROVE  /\ SP!Sampled(w, sol, dt) \in Windows
           /\ SP!Sampled(w, sol, dt).far <= SP!Sampled(w, sol, dt).n
           /\ SP!Sampled(w, sol, dt).far > 0 =>
                w.far > 0 \/ (sent # "none" /\ sol \in SP!Places \ {ref'})
<1> DEFINE n == w.n + (IF sent # "none" /\ sol \in SP!Places THEN 1 ELSE 0)
           f == w.far + (IF sent # "none" /\ sol \in SP!Places \ {ref'} THEN 1 ELSE 0)
           e == IF w.elapsed + dt > Window THEN Window ELSE w.elapsed + dt
<1>1. w.n \in Nat /\ w.far \in Nat /\ w.elapsed \in 0 .. Window
    BY DEF Windows
<1>2. /\ n \in Nat /\ f \in Nat /\ f <= n
      /\ f > 0 => w.far > 0 \/ (sent # "none" /\ sol \in SP!Places \ {ref'})
    BY <1>1
<1>3. e \in 0 .. Window
    BY <1>1, DriftAssumption
<1>4. SP!Sampled(w, sol, dt) = [n |-> n, far |-> f, elapsed |-> e]
    BY DEF SP!Sampled
<1> HIDE DEF n, f, e
<1> QED
    BY <1>2, <1>3, <1>4 DEF Windows

(* A window that closes counts its exceedance, so an alarm is earned.      *)
LEMMA ClosedEarned ==
    ASSUME NEW v \in Verdicts, v.alarm <=> v.exceed >= AlarmWindows,
           NEW w \in Windows, NEW was \in BOOLEAN, Earned(w, v, was)
    PROVE  /\ SP!Closed(v, w) \in Verdicts
           /\ SP!Closed(v, w).alarm <=> SP!Closed(v, w).exceed >= AlarmWindows
           /\ Earned(SP!NoWindow, SP!Closed(v, w), was)
<1>1. CASE w.n < MinSamples
    BY <1>1, EmptyWindow DEF SP!Closed, Earned
<1>2. CASE ~ (w.n < MinSamples)
  <2> DEFINE over == 2 * w.far >= w.n
             e    == IF over THEN (IF v.exceed < AlarmWindows THEN v.exceed + 1 ELSE v.exceed)
                     ELSE 0
  <2>1. SP!Closed(v, w) = [have |-> TRUE, exceed |-> e, alarm |-> e >= AlarmWindows]
    BY <1>2 DEF SP!Closed
  <2>2. e \in 0 .. AlarmWindows /\ (e > 0 => 2 * w.far >= w.n)
    BY DriftAssumption DEF Verdicts
  <2>3. e > 0 => w.far > 0
    <3>1. w.n > 0 /\ w.far \in Nat /\ w.n \in Nat
      BY <1>2, DriftAssumption DEF Windows
    <3> HIDE DEF e
    <3> QED
      BY <2>2, <3>1
  <2>4. (e >= AlarmWindows) \in BOOLEAN
    OBVIOUS
  <2> HIDE DEF e
  <2> QED
    BY <2>1, <2>2, <2>3, <2>4, EmptyWindow DEF Verdicts, Earned
<1> QED
    BY <1>1, <1>2

LEMMA DecodeStep == SpInv /\ SP!Decode => SpInv'
<1> SUFFICES ASSUME SpInv, SP!Decode PROVE SpInv'
    OBVIOUS
<1>1. /\ queue # <<>> /\ queue' = Tail(queue) /\ Head(queue).is = "nav"
      /\ parts' = [parts EXCEPT ![Head(queue).part] = Head(queue).of]
      /\ UNCHANGED <<issue, sky, antenna, sent, left, ref, win, verdict, alerted, wasAway>>
    BY DEF SP!Decode, SP!Receives, SP!around
<1>2. SpTypes
    BY DEF SpInv
<1>3. /\ queue' \in Seq(Frames) /\ Len(queue') <= QueueMax /\ Head(queue).part \in Parts
      /\ Head(queue).of \in 0 .. MaxIssues
  <2>1. Head(queue) \in Frames /\ queue' \in Seq(Frames) /\ Len(queue') <= QueueMax
    BY <1>1, <1>2, TailFrames
  <2>2. Head(queue) \in [is : {"nav"}, part : Parts, of : 1 .. MaxIssues]
    BY <1>1, <2>1 DEF Frames
  <2>3. Head(queue).part \in Parts /\ Head(queue).of \in 1 .. MaxIssues
    BY <2>2
  <2> QED
    BY <2>1, <2>3, DriftAssumption
<1>4. parts' \in [Parts -> 0 .. MaxIssues]
    BY <1>1, <1>2, <1>3 DEF SpTypes
<1> DEFINE of == {parts'[p] : p \in Parts}
<1>5. eph' \in [of : SUBSET (0 .. MaxIssues), age : Nat] /\ SP!Cardinality(eph'.of) <= 1
  <2>1. eph' = IF SP!Whole(of) THEN [of |-> of, age |-> 0] ELSE eph
    BY DEF SP!Decode
  <2>2. of \in SUBSET (0 .. MaxIssues)
    BY <1>4
  <2> HIDE DEF of
  <2>3. CASE SP!Whole(of)
    <3>1. eph' = [of |-> of, age |-> 0] /\ SP!Cardinality(of) = 1
      BY <2>1, <2>3 DEF SP!Whole
    <3> QED
      BY <2>2, <3>1
  <2>4. CASE ~SP!Whole(of)
    BY <1>2, <2>1, <2>4 DEF SpTypes
  <2> QED
    BY <2>3, <2>4
<1>6. SpTypes'
    BY <1>1, <1>2, <1>3, <1>4, <1>5 DEF SpTypes
<1> QED
    BY <1>1, <1>6 DEF SpInv

LEMMA ProcessStep == SpInv /\ SP!ProcessRawx => SpInv'
<1> SUFFICES ASSUME SpInv, SP!ProcessRawx PROVE SpInv'
    OBVIOUS
<1> DEFINE dt == Head(queue).after
           w0 == IF SP!NewReference THEN SP!NoWindow ELSE win
           v0 == IF SP!NewReference THEN SP!NoResult ELSE verdict
<1>1. /\ queue # <<>> /\ queue' = Tail(queue) /\ Head(queue).is = "rawx"
      /\ eph' = SP!Aged(dt) /\ ref' = (IF sent = "none" THEN ref ELSE sent)
      /\ wasAway' = (IF SP!NewReference THEN antenna # sent ELSE wasAway)
      /\ UNCHANGED <<issue, sky, antenna, sent, left, parts, alerted>>
    BY DEF SP!ProcessRawx, SP!Receives, SP!around
<1>2. SpTypes
    BY DEF SpInv
<1>3. queue' \in Seq(Frames) /\ Len(queue') <= QueueMax /\ dt \in 1 .. (EphMaxAge + 1)
  <2>1. Head(queue) \in Frames /\ queue' \in Seq(Frames) /\ Len(queue') <= QueueMax
    BY <1>1, <1>2, TailFrames
  <2>2. Head(queue) \in [is : {"rawx"}, after : 1 .. (EphMaxAge + 1)]
    BY <1>1, <2>1 DEF Frames
  <2> QED
    BY <2>1, <2>2
<1> HIDE DEF dt
<1>4. eph' \in [of : SUBSET (0 .. MaxIssues), age : Nat] /\ SP!Cardinality(eph'.of) <= 1
  <2> DEFINE g == IF eph.age + dt > EphMaxAge THEN EphMaxAge + 1 ELSE eph.age + dt
  <2>1. eph' = [eph EXCEPT !.age = g]
    BY <1>1 DEF SP!Aged
  <2>2. g \in Nat
    BY <1>2, <1>3, DriftAssumption DEF SpTypes
  <2> HIDE DEF g
  <2> QED
    BY <1>2, <2>1, <2>2 DEF SpTypes
<1>5. PICK sol \in SP!Solutions :
         LET w == SP!Sampled(w0, sol, dt)
         IN  IF sent # "none" /\ w.elapsed >= Window
             THEN win' = SP!NoWindow /\ verdict' = SP!Closed(v0, w)
             ELSE win' = w /\ verdict' = v0
    BY DEF SP!ProcessRawx, dt
<1>6. sol \in {antenna, "wild", "none"} /\ antenna \in {"here", "there"}
    BY <1>2 DEF SP!Solutions, SP!Solved, SpTypes, SP!Places
<1>7. /\ w0 \in Windows /\ w0.far <= w0.n
      /\ v0 \in Verdicts /\ (v0.alarm <=> v0.exceed >= AlarmWindows)
      /\ Earned(w0, v0, wasAway')
  <2>1. CASE SP!NewReference
    BY <2>1, EmptyWindow, DriftAssumption DEF Earned
  <2>2. CASE ~SP!NewReference
    BY <1>1, <1>2, <2>2 DEF SpInv, SpTypes
  <2> QED
    BY <2>1, <2>2
<1>8. ref' # "none" /\ antenna # ref' => wasAway'
    BY <1>1 DEF SpInv, SP!NewReference
<1>9. sent # "none" /\ sol \in SP!Places \ {ref'} => wasAway'
    BY <1>1, <1>2, <1>6, <1>8 DEF SP!Places, SpTypes
<1> HIDE DEF w0, v0
<1> DEFINE w == SP!Sampled(w0, sol, dt)
<1>10. w \in Windows /\ w.far <= w.n /\ (w.far > 0 => wasAway')
    BY <1>3, <1>6, <1>7, <1>9, SampleEarned DEF Earned
<1>11. Earned(w, v0, wasAway')
    BY <1>7, <1>10 DEF Earned
<1>12. wasAway' \in BOOLEAN
    BY <1>1, <1>2 DEF SpTypes
<1>13. /\ win' \in Windows /\ win'.far <= win'.n /\ verdict' \in Verdicts
       /\ (verdict'.alarm <=> verdict'.exceed >= AlarmWindows)
       /\ Earned(win', verdict', wasAway')
  <2> HIDE DEF w
  <2>1. CASE sent # "none" /\ w.elapsed >= Window
    <3>1. win' = SP!NoWindow /\ verdict' = SP!Closed(v0, w)
      BY <1>5, <2>1 DEF w
    <3>2. /\ SP!Closed(v0, w) \in Verdicts
          /\ SP!Closed(v0, w).alarm <=> SP!Closed(v0, w).exceed >= AlarmWindows
          /\ Earned(SP!NoWindow, SP!Closed(v0, w), wasAway')
      BY <1>7, <1>10, <1>11, <1>12, ClosedEarned
    <3> QED
      BY <3>1, <3>2, EmptyWindow
  <2>2. CASE ~ (sent # "none" /\ w.elapsed >= Window)
    <3>1. win' = w /\ verdict' = v0
      BY <1>5, <2>2 DEF w
    <3> QED
      BY <1>7, <1>10, <1>11, <3>1
  <2> QED
    BY <2>1, <2>2
<1>14. SpTypes'
    BY <1>1, <1>2, <1>3, <1>4, <1>12, <1>13 DEF SpTypes
<1>15. (ref # "none" /\ antenna # ref => wasAway)'
    BY <1>1, <1>8
<1>16. Earned(win, verdict, wasAway)'
    BY <1>13 DEF Earned
<1> QED
    BY <1>14, <1>15, <1>16 DEF SpInv

LEMMA SpStep == SpInv /\ [SP!SpNext]_sp => SpInv'
<1> SUFFICES ASSUME SpInv, [SP!SpNext]_sp PROVE SpInv'
    OBVIOUS
<1>1. SpTypes
    BY DEF SpInv
<1>2. CASE SP!Move
  <2>1. /\ antenna' \in SP!Places /\ wasAway' = (wasAway \/ (ref # "none" /\ antenna' # ref))
        /\ UNCHANGED <<issue, sky, sent, queue, parts, eph, ref, win, verdict, alerted>>
    BY <1>2 DEF SP!Move, SP!program
  <2>2. wasAway' \in BOOLEAN /\ (wasAway => wasAway') /\ (ref # "none" /\ antenna' # ref => wasAway')
    BY <1>1, <2>1 DEF SpTypes
  <2>3. SpTypes'
    BY <1>1, <2>1, <2>2 DEF SpTypes
  <2> QED
    BY <2>1, <2>2, <2>3 DEF SpInv, Earned
<1>3. CASE SP!Sends1005
  <2>1. /\ sent' \in SP!Places
        /\ UNCHANGED <<issue, sky, antenna, queue, parts, eph, ref, win, verdict, alerted, wasAway>>
    BY <1>3 DEF SP!Sends1005, SP!program
  <2> QED
    BY <1>1, <2>1 DEF SpInv, SpTypes
<1>4. CASE SP!NewIssue
  <2>1. issue' \in 1 .. MaxIssues
        /\ UNCHANGED <<sent, sky, antenna, queue, parts, eph, ref, win, verdict, alerted, wasAway>>
    BY <1>1, <1>4, DriftAssumption DEF SP!NewIssue, SP!program, SpTypes
  <2> QED
    BY <1>1, <2>1 DEF SpInv, SpTypes
<1>5. CASE SP!SkyChanges
  <2>1. UNCHANGED <<issue, antenna, sent, queue, parts, eph, ref, win, verdict, alerted, wasAway>>
    BY <1>5 DEF SP!SkyChanges, SP!program
  <2> QED
    BY <1>1, <2>1 DEF SpInv, SpTypes
<1>6. CASE SP!FeedGood \/ SP!FeedPoor
  <2>1. UNCHANGED <<issue, sky, antenna, sent, parts, eph, ref, win, verdict, alerted, wasAway>>
    BY <1>6 DEF SP!FeedGood, SP!FeedPoor, SP!around
  <2>2. queue' \in Seq(Frames) /\ Len(queue') <= QueueMax
    BY <1>1, <1>6, FedFrames
  <2> QED
    BY <1>1, <2>1, <2>2 DEF SpInv, SpTypes
<1>7. CASE SP!SelfposTask
    BY <1>7, DecodeStep, ProcessStep DEF SP!SelfposTask
<1>8. CASE SP!AlertDrift
  <2>1. UNCHANGED <<issue, sky, antenna, sent, queue, parts, eph, ref, win, verdict, wasAway>>
    BY <1>8 DEF SP!AlertDrift, SP!around
  <2> QED
    BY <1>1, <2>1 DEF SpInv, SpTypes
<1>9. CASE UNCHANGED sp
    BY <1>1, <1>9 DEF sp, SpInv, SpTypes
<1> QED
    BY <1>2, <1>3, <1>4, <1>5, <1>6, <1>7, <1>8, <1>9 DEF SP!SpNext

-----------------------------------------------------------------------------
(* The SIM: what is asked is counted once, as waiting or as done, and the  *)
(* card that is kept as the known one is one whose arrival was told.       *)

Holders == Sims \union {"none"}
StTypes ==
    /\ sim \in [card : Sims, present : BOOLEAN] /\ numbers \in [Sims -> Holders]
    /\ inbox \in Seq({"other", "reply"}) /\ toAsked \in ST!Asks \union {"none"}
    /\ st \in [iccid : Holders, prev : Holders, phone : Holders, busy : BOOLEAN,
               credit : {"none", "other", "reply"}, silent : BOOLEAN]
    /\ kept \in [iccid : Sims, auto : BOOLEAN]
    /\ read \in [iccid : BOOLEAN, number : BOOLEAN, tried : BOOLEAN]
    /\ reply \in {"none", "waiting", "due"}
    /\ part \in {"off", "request", "reply", "iccid", "tell", "save", "number", "write",
                 "health", "credit"}
    /\ runs \in [accepted : Nat, done : Nat, events : Nat]

Asked == runs.accepted = runs.done + (IF toAsked = "none" THEN 0 ELSE 1)

(* Between the reading of the card and its saving the arrival is told.     *)
Announced ==
    /\ kept.iccid \in told
    /\ part # "off" /\ ~read.iccid => st.iccid = kept.iccid /\ st.prev = "none"
    /\ part = "off" => st.prev = "none" /\ ~read.iccid
    /\ part = "tell" => read.iccid /\ st.iccid \in Sims /\ (st.prev # "none" \/ st.iccid \in told)
    /\ part = "save" => read.iccid /\ st.iccid \in Sims /\ st.iccid \in told

StInv == StTypes /\ Asked /\ (st.busy => toAsked # "none") /\ Announced

LEMMA StInitInv == ST!StInit => StInv
<1> SUFFICES ASSUME ST!StInit PROVE StInv
    OBVIOUS
<1>1. /\ sim = [card |-> FirstSim, present |-> TRUE]
      /\ numbers = [c \in Sims |-> "none"] /\ inbox = <<>> /\ toAsked = "none"
      /\ st = [iccid |-> "none", prev |-> "none", phone |-> "none", busy |-> FALSE,
               credit |-> "none", silent |-> FALSE]
      /\ kept = [iccid |-> FirstSim, auto |-> FALSE]
      /\ read = [iccid |-> FALSE, number |-> FALSE, tried |-> FALSE]
      /\ reply = "none" /\ part = "off" /\ told = {FirstSim}
      /\ runs = [accepted |-> 0, done |-> 0, events |-> 0]
    BY DEF ST!StInit, ST!None, ST!NothingRead
<1>2. StTypes
    BY <1>1, SimsAssumption DEF StTypes, Holders
<1> QED
    BY <1>1, <1>2 DEF StInv, Asked, Announced

(* What is asked of the modem changes only the credit and the reply.       *)
LEMMA CreditType ==
    ASSUME StTypes, NEW s, s \in [iccid : Holders, prev : Holders, phone : Holders,
               busy : BOOLEAN, credit : {"none", "other", "reply"}, silent : BOOLEAN],
           NEW m \in {"other", "reply"}
    PROVE  /\ ST!Credited(s, m) \in [iccid : Holders, prev : Holders, phone : Holders,
               busy : BOOLEAN, credit : {"none", "other", "reply"}, silent : BOOLEAN]
           /\ ST!Credited(s, m).iccid = s.iccid /\ ST!Credited(s, m).prev = s.prev
           /\ ST!Credited(s, m).busy = s.busy
BY DEF ST!Credited

(* What happens around the module: power, cards, messages, requests.       *)
LEMMA AroundStep ==
    ASSUME StInv,
           ST!PowersOn \/ ST!PowerCut \/ ST!SwapsSim \/ ST!ModemComesAndGoes
             \/ ST!MessageArrives \/ ST!Requests \/ ST!MinutePasses
    PROVE  StInv'
<1>0. StTypes
    BY DEF StInv
<1>1. CASE ST!PowersOn
  <2>1. /\ part = "off" /\ part' = "request" /\ st' = [st EXCEPT !.iccid = kept.iccid]
        /\ UNCHANGED <<sim, numbers, inbox, toAsked, kept, read, reply, told, runs>>
    BY <1>1 DEF ST!PowersOn
  <2>2. /\ st' \in [iccid : Holders, prev : Holders, phone : Holders, busy : BOOLEAN,
                    credit : {"none", "other", "reply"}, silent : BOOLEAN]
        /\ st'.iccid = kept.iccid /\ st'.prev = st.prev /\ st'.busy = st.busy
    BY <1>0, <2>1 DEF StTypes, Holders
  <2>3. StTypes'
    BY <1>0, <2>1, <2>2 DEF StTypes
  <2> QED
    BY <2>1, <2>2, <2>3 DEF StInv, Asked, Announced
<1>2. CASE ST!PowerCut
  <2>1. /\ part' = "off" /\ toAsked' = "none" /\ reply' = "none"
        /\ st' = [st EXCEPT !.iccid = "none", !.prev = "none", !.phone = "none",
                            !.busy = FALSE, !.silent = FALSE]
        /\ read' = [iccid |-> FALSE, number |-> FALSE, tried |-> FALSE]
        /\ runs' = [runs EXCEPT !.events = @ + 1, !.accepted = runs.done]
        /\ UNCHANGED <<sim, numbers, inbox, kept, told>>
    BY <1>2 DEF ST!PowerCut, ST!Off, ST!None, ST!NothingRead
  <2>2. st' \in [iccid : Holders, prev : Holders, phone : Holders, busy : BOOLEAN,
                 credit : {"none", "other", "reply"}, silent : BOOLEAN]
        /\ st'.prev = "none" /\ st'.busy = FALSE
    BY <1>0, <2>1 DEF StTypes, Holders
  <2>3. runs' \in [accepted : Nat, done : Nat, events : Nat] /\ runs'.accepted = runs'.done
    <3>1. runs.accepted \in Nat /\ runs.done \in Nat /\ runs.events + 1 \in Nat
      BY <1>0 DEF StTypes
    <3>2. runs' = [accepted |-> runs.done, done |-> runs.done, events |-> runs.events + 1]
      BY <1>0, <2>1 DEF StTypes
    <3> QED
      BY <3>1, <3>2
  <2>4. read' \in [iccid : BOOLEAN, number : BOOLEAN, tried : BOOLEAN] /\ ~read'.iccid
    BY <2>1
  <2>5. StTypes'
    BY <1>0, <2>1, <2>2, <2>3, <2>4 DEF StTypes
  <2>6. runs'.done \in Nat
    BY <2>3
  <2>7. Asked'
    BY <2>1, <2>3, <2>6 DEF Asked
  <2> QED
    BY <2>1, <2>2, <2>4, <2>5, <2>7 DEF StInv, Announced
<1>3. CASE ST!SwapsSim
  <2>1. /\ inbox' = <<>> /\ runs' = [runs EXCEPT !.events = @ + 1]
        /\ \E c \in Sims \ {sim.card} : sim' = [sim EXCEPT !.card = c]
        /\ UNCHANGED <<numbers, toAsked, st, kept, read, reply, part, told>>
    BY <1>3 DEF ST!SwapsSim
  <2>2. sim' \in [card : Sims, present : BOOLEAN]
    BY <1>0, <2>1 DEF StTypes
  <2>3. /\ runs' \in [accepted : Nat, done : Nat, events : Nat]
        /\ runs'.accepted = runs.accepted /\ runs'.done = runs.done
    BY <1>0, <2>1 DEF StTypes
  <2>4. StTypes'
    BY <1>0, <2>1, <2>2, <2>3 DEF StTypes
  <2> QED
    BY <2>1, <2>3, <2>4 DEF StInv, Asked, Announced
<1>4. CASE ST!ModemComesAndGoes
  <2>1. /\ runs' = (IF sim.present THEN [runs EXCEPT !.events = @ + 1] ELSE runs)
        /\ sim' = [sim EXCEPT !.present = ~@]
        /\ UNCHANGED <<numbers, inbox, toAsked, st, kept, read, reply, part, told>>
    BY <1>4 DEF ST!ModemComesAndGoes
  <2>2. sim' \in [card : Sims, present : BOOLEAN]
    BY <1>0, <2>1 DEF StTypes
  <2>3. /\ runs' \in [accepted : Nat, done : Nat, events : Nat]
        /\ runs'.accepted = runs.accepted /\ runs'.done = runs.done
    BY <1>0, <2>1 DEF StTypes
  <2>4. StTypes'
    BY <1>0, <2>1, <2>2, <2>3 DEF StTypes
  <2> QED
    BY <2>1, <2>3, <2>4 DEF StInv, Asked, Announced
<1>5. CASE ST!MessageArrives
  <2>1. /\ runs' = [runs EXCEPT !.events = @ + 1]
        /\ \E m \in {"other", "reply"} : inbox' = Append(inbox, m)
        /\ UNCHANGED <<sim, numbers, toAsked, st, kept, read, reply, part, told>>
    BY <1>5 DEF ST!MessageArrives
  <2>2. inbox' \in Seq({"other", "reply"})
    BY <1>0, <2>1 DEF StTypes
  <2>3. /\ runs' \in [accepted : Nat, done : Nat, events : Nat]
        /\ runs'.accepted = runs.accepted /\ runs'.done = runs.done
    BY <1>0, <2>1 DEF StTypes
  <2>4. StTypes'
    BY <1>0, <2>1, <2>2, <2>3 DEF StTypes
  <2> QED
    BY <2>1, <2>3, <2>4 DEF StInv, Asked, Announced
<1>6. CASE ST!Requests
  <2>1. /\ toAsked = "none" /\ toAsked' \in ST!Asks /\ toAsked' # "none"
        /\ runs' = [runs EXCEPT !.accepted = @ + 1]
        /\ UNCHANGED <<sim, numbers, inbox, st, kept, read, reply, part, told>>
    BY <1>6 DEF ST!Requests, ST!None, ST!Asks
  <2>2. /\ runs' \in [accepted : Nat, done : Nat, events : Nat]
        /\ runs'.accepted = runs.accepted + 1 /\ runs'.done = runs.done
    BY <1>0, <2>1 DEF StTypes
  <2>3. StTypes'
    BY <1>0, <2>1, <2>2 DEF StTypes
  <2>4. Asked'
    <3>1. runs.accepted = runs.done /\ runs.done \in Nat
      BY <1>0, <2>1 DEF StInv, Asked, StTypes
    <3> QED
      BY <2>1, <2>2, <3>1 DEF Asked
  <2> QED
    BY <2>1, <2>3, <2>4 DEF StInv, Announced
<1>7. CASE ST!MinutePasses
  <2>1. reply' = "due" /\ UNCHANGED <<sim, numbers, inbox, toAsked, st, kept, read, part, told, runs>>
    BY <1>7 DEF ST!MinutePasses
  <2> QED
    BY <1>0, <2>1 DEF StInv, StTypes, Asked, Announced
<1> QED
    BY <1>1, <1>2, <1>3, <1>4, <1>5, <1>6, <1>7

(* One turn of the task of the modem.                                      *)
LEMMA TickStep ==
    ASSUME StInv, ST!Tick
    PROVE  StInv'
<1> DEFINE Sts == [iccid : Holders, prev : Holders, phone : Holders, busy : BOOLEAN,
                   credit : {"none", "other", "reply"}, silent : BOOLEAN]
<1>0. StTypes /\ st \in Sts
    BY DEF StInv, StTypes
<1>1. CASE ST!TakesRequest
  <2>1. /\ part = "request" /\ toAsked # "none" /\ st' = [st EXCEPT !.busy = TRUE]
        /\ UNCHANGED <<sim, numbers, inbox, toAsked, kept, read, reply, part, told, runs>>
    BY <1>1 DEF ST!TakesRequest, ST!None
  <2>2. st' \in Sts /\ st'.iccid = st.iccid /\ st'.prev = st.prev
    BY <1>0, <2>1
  <2>3. StTypes'
    BY <1>0, <2>1, <2>2 DEF StTypes
  <2> QED
    BY <2>1, <2>2, <2>3 DEF StInv, Asked, Announced
<1>2. CASE ST!RunsRequest
  <2> DEFINE s == [st EXCEPT !.busy = FALSE]
  <2>1. /\ part = "request" /\ part' = "reply" /\ st.busy /\ toAsked' = "none"
        /\ runs' = [runs EXCEPT !.done = @ + 1]
        /\ UNCHANGED <<sim, numbers, kept, read, told>>
    BY <1>2 DEF ST!RunsRequest, ST!Goes, ST!None
  <2>2. /\ st' \in {s, ST!Credited(s, "reply")} /\ inbox' \in {inbox, <<>>}
        /\ reply' \in {reply, "waiting"}
    BY <1>2, Zenon DEF ST!RunsRequest
  <2>3. s \in Sts /\ s.iccid = st.iccid /\ s.prev = st.prev /\ s.busy = FALSE
    BY <1>0
  <2> HIDE DEF s
  <2>4. st' \in Sts /\ st'.iccid = st.iccid /\ st'.prev = st.prev /\ st'.busy = FALSE
    BY <1>0, <2>2, <2>3, CreditType
  <2>5. /\ runs' \in [accepted : Nat, done : Nat, events : Nat]
        /\ runs'.accepted = runs.accepted /\ runs'.done = runs.done + 1
    BY <1>0, <2>1 DEF StTypes
  <2>6. inbox' \in Seq({"other", "reply"}) /\ reply' \in {"none", "waiting", "due"}
    <3>1. <<>> \in Seq({"other", "reply"})
      OBVIOUS
    <3>2. inbox \in Seq({"other", "reply"}) /\ reply \in {"none", "waiting", "due"}
      BY <1>0 DEF StTypes
    <3> QED
      BY <2>2, <3>1, <3>2, Zenon
  <2>7. StTypes'
    BY <1>0, <2>1, <2>4, <2>5, <2>6 DEF StTypes
  <2>8. Asked'
    <3>1. runs.accepted = runs.done + 1 /\ runs.done \in Nat
      BY <1>0, <2>1 DEF StInv, Asked, StTypes
    <3> QED
      BY <2>1, <2>5, <3>1 DEF Asked
  <2> QED
    BY <2>1, <2>4, <2>7, <2>8 DEF StInv, Announced
<1>3. CASE ST!NoRequest
  <2>1. /\ part = "request" /\ part' = "reply"
        /\ UNCHANGED <<sim, numbers, inbox, toAsked, st, kept, read, reply, told, runs>>
    BY <1>3 DEF ST!NoRequest, ST!Goes
  <2> QED
    BY <1>0, <2>1 DEF StInv, StTypes, Asked, Announced
<1>4. CASE ST!ReadsReply
  <2>1. /\ part = "reply" /\ part' = "iccid" /\ reply' \in {reply, "none"}
        /\ st' = st \/ (ST!LastMessage # "none" /\ st' = ST!Credited(st, ST!LastMessage))
        /\ UNCHANGED <<sim, numbers, inbox, toAsked, kept, read, told, runs>>
    BY <1>4 DEF ST!ReadsReply, ST!Goes, ST!None
  <2>2. ST!LastMessage # "none" => ST!LastMessage \in {"other", "reply"}
    <3>1. CASE inbox = <<>>
      BY <3>1 DEF ST!LastMessage, ST!None
    <3>2. CASE inbox # <<>>
      <4>1. Len(inbox) \in 1 .. Len(inbox)
        BY <1>0, <3>2 DEF StTypes
      <4>2. inbox[Len(inbox)] \in {"other", "reply"}
        BY <1>0, <4>1 DEF StTypes
      <4> QED
        BY <3>2, <4>2 DEF ST!LastMessage
    <3> QED
      BY <3>1, <3>2
  <2>3. st' \in Sts /\ st'.iccid = st.iccid /\ st'.prev = st.prev /\ st'.busy = st.busy
    BY <1>0, <2>1, <2>2, CreditType
  <2>4. StTypes'
    BY <1>0, <2>1, <2>3 DEF StTypes
  <2> QED
    BY <2>1, <2>3, <2>4 DEF StInv, Asked, Announced
<1>5. CASE ST!SkipsCard
  <2>1. /\ part = "iccid" /\ part' = "number"
        /\ UNCHANGED <<sim, numbers, inbox, toAsked, st, kept, read, reply, told, runs>>
    BY <1>5 DEF ST!SkipsCard, ST!Goes
  <2> QED
    BY <1>0, <2>1 DEF StInv, StTypes, Asked, Announced
<1>6. CASE ST!ReadsCard
  <2> DEFINE p == IF st.iccid \notin {"none", sim.card} THEN st.iccid ELSE st.prev
  <2>1. /\ part = "iccid" /\ part' = "tell" /\ ~read.iccid
        /\ read' = [read EXCEPT !.iccid = TRUE]
        /\ st' = [st EXCEPT !.iccid = sim.card, !.prev = p]
        /\ UNCHANGED <<sim, numbers, inbox, toAsked, kept, reply, told, runs>>
    BY <1>6 DEF ST!ReadsCard, ST!Goes, ST!None
  <2>2. p \in Holders /\ sim.card \in Sims
    BY <1>0 DEF StTypes
  <2>3. st.iccid = kept.iccid /\ kept.iccid \in Sims /\ kept.iccid \in told
    BY <1>0, <2>1 DEF StInv, StTypes, Announced
  <2>4. p # "none" \/ sim.card \in told
    BY <2>3, SimsAssumption
  <2> HIDE DEF p
  <2>5. st' \in Sts /\ st'.iccid = sim.card /\ st'.prev = p /\ st'.busy = st.busy
    BY <1>0, <2>1, <2>2 DEF Holders
  <2>6. read' \in [iccid : BOOLEAN, number : BOOLEAN, tried : BOOLEAN] /\ read'.iccid
    BY <1>0, <2>1 DEF StTypes
  <2>7. StTypes'
    BY <1>0, <2>1, <2>5, <2>6 DEF StTypes
  <2> QED
    BY <2>1, <2>2, <2>3, <2>4, <2>5, <2>6, <2>7 DEF StInv, Asked, Announced
<1>7. CASE ST!TellsSwap
  <2>1. /\ part = "tell" /\ part' = "save"
        /\ told' = (IF st.prev # "none" THEN told \union {st.iccid} ELSE told)
        /\ UNCHANGED <<sim, numbers, inbox, toAsked, st, kept, read, reply, runs>>
    BY <1>7 DEF ST!TellsSwap, ST!Goes, ST!None
  <2>2. st.iccid \in told' /\ told \subseteq told'
    BY <2>1 DEF StInv, Announced
  <2>3. StTypes'
    BY <1>0, <2>1 DEF StTypes
  <2> QED
    BY <2>1, <2>2, <2>3 DEF StInv, Asked, Announced
<1>8. CASE ST!SavesIds
  <2>1. /\ part = "save" /\ part' = "number" /\ kept' = [kept EXCEPT !.iccid = st.iccid]
        /\ UNCHANGED <<sim, numbers, inbox, toAsked, st, read, reply, told, runs>>
    BY <1>8 DEF ST!SavesIds, ST!Goes
  <2>2. st.iccid \in Sims /\ st.iccid \in told /\ read.iccid
    BY <2>1 DEF StInv, Announced
  <2>3. kept' \in [iccid : Sims, auto : BOOLEAN] /\ kept'.iccid = st.iccid
    BY <1>0, <2>1, <2>2 DEF StTypes
  <2>4. StTypes'
    BY <1>0, <2>1, <2>3 DEF StTypes
  <2> QED
    BY <2>1, <2>2, <2>3, <2>4 DEF StInv, Asked, Announced
<1>9. CASE ST!ReadsNumber
  <2>1. /\ part = "number" /\ part' = "write"
        /\ \/ UNCHANGED <<read, st>>
           \/ /\ read' = [read EXCEPT !.number = TRUE]
              /\ st' = [st EXCEPT !.phone = numbers[sim.card]]
        /\ UNCHANGED <<sim, numbers, inbox, toAsked, kept, reply, told, runs>>
    BY <1>9 DEF ST!ReadsNumber, ST!Goes
  <2>2. numbers[sim.card] \in Holders
    BY <1>0 DEF StTypes
  <2>3. st' \in Sts /\ st'.iccid = st.iccid /\ st'.prev = st.prev /\ st'.busy = st.busy
    BY <1>0, <2>1, <2>2
  <2>4. read' \in [iccid : BOOLEAN, number : BOOLEAN, tried : BOOLEAN] /\ read'.iccid = read.iccid
    BY <1>0, <2>1 DEF StTypes
  <2>5. StTypes'
    BY <1>0, <2>1, <2>3, <2>4 DEF StTypes
  <2> QED
    BY <2>1, <2>3, <2>4, <2>5 DEF StInv, Asked, Announced
<1>10. CASE ST!WritesNumber
  <2>1. /\ part = "write" /\ part' = "health"
        /\ read' \in {read, [read EXCEPT !.tried = TRUE]}
        /\ \/ UNCHANGED <<numbers, st>>
           \/ /\ numbers' = [numbers EXCEPT ![sim.card] = FirstSim]
              /\ st' = [st EXCEPT !.phone = FirstSim]
        /\ UNCHANGED <<sim, inbox, toAsked, kept, reply, told, runs>>
    BY <1>10 DEF ST!WritesNumber, ST!Goes, ST!Manual
  <2>2. FirstSim \in Holders /\ numbers' \in [Sims -> Holders]
    BY <1>0, <2>1, SimsAssumption DEF StTypes, Holders
  <2>3. st' \in Sts /\ st'.iccid = st.iccid /\ st'.prev = st.prev /\ st'.busy = st.busy
    BY <1>0, <2>1, <2>2
  <2>4. read' \in [iccid : BOOLEAN, number : BOOLEAN, tried : BOOLEAN] /\ read'.iccid = read.iccid
    BY <1>0, <2>1 DEF StTypes
  <2>5. StTypes'
    BY <1>0, <2>1, <2>2, <2>3, <2>4 DEF StTypes
  <2> QED
    BY <2>1, <2>3, <2>4, <2>5 DEF StInv, Asked, Announced
<1>11. CASE ST!ReadsHealth
  <2>1. /\ part = "health" /\ part' = "credit"
        /\ st' = st \/ st' = [st EXCEPT !.silent = ~sim.present]
        /\ UNCHANGED <<sim, numbers, inbox, toAsked, kept, read, reply, told, runs>>
    BY <1>11 DEF ST!ReadsHealth, ST!Goes
  <2>2. st' \in Sts /\ st'.iccid = st.iccid /\ st'.prev = st.prev /\ st'.busy = st.busy
    <3>1. (~sim.present) \in BOOLEAN
      OBVIOUS
    <3> QED
      BY <1>0, <2>1, <3>1
  <2>3. StTypes'
    BY <1>0, <2>1, <2>2 DEF StTypes
  <2> QED
    BY <2>1, <2>2, <2>3 DEF StInv, Asked, Announced
<1>12. CASE ST!ChecksCredit
  <2>1. /\ part = "credit" /\ part' = "request"
        /\ UNCHANGED <<sim, numbers, inbox, toAsked, read, told, runs>>
    BY <1>12 DEF ST!ChecksCredit, ST!Goes
  <2>2. /\ kept' \in {kept, [kept EXCEPT !.auto = TRUE]}
        /\ st' \in {st, ST!Credited(st, "reply")} /\ reply' \in {reply, "waiting"}
    BY <1>12, Zenon DEF ST!ChecksCredit, ST!AsksCredit
  <2>3. st' \in Sts /\ st'.iccid = st.iccid /\ st'.prev = st.prev /\ st'.busy = st.busy
    BY <1>0, <2>2, CreditType
  <2>4. kept' \in [iccid : Sims, auto : BOOLEAN] /\ kept'.iccid = kept.iccid
    BY <1>0, <2>2 DEF StTypes
  <2>5. reply' \in {"none", "waiting", "due"}
    BY <1>0, <2>2 DEF StTypes
  <2>6. StTypes'
    BY <1>0, <2>1, <2>3, <2>4, <2>5 DEF StTypes
  <2> QED
    BY <2>1, <2>3, <2>4, <2>6 DEF StInv, Asked, Announced
<1> QED
    BY <1>1, <1>2, <1>3, <1>4, <1>5, <1>6, <1>7, <1>8, <1>9, <1>10, <1>11, <1>12 DEF ST!Tick

LEMMA StStep == StInv /\ [ST!StNext]_to => StInv'
<1> SUFFICES ASSUME StInv, [ST!StNext]_to PROVE StInv'
    OBVIOUS
<1>1. CASE UNCHANGED to
    BY <1>1 DEF to, StInv, StTypes, Asked, Announced
<1> QED
    BY <1>1, AroundStep, TickStep DEF ST!StNext

-----------------------------------------------------------------------------
(* The calendar of the plan: months follow one another, and a date is a    *)
(* day of one of them.  The day a month begins on is defined by recursion; *)
(* its closed form is proved from the least month that would not have it.  *)

(* Numbers that have a property have a least one.                          *)
LEMMA LeastNat ==
    ASSUME NEW T \in SUBSET Nat, T # {}
    PROVE  \E m \in T : \A k \in T : m <= k
<1> DEFINE Below(m) == 0 .. (m - 1)
           B == {Below(m) : m \in T}
<1>1. B \subseteq FiniteSubsetsOf(Nat) /\ B # {}
  <2>1. \A m \in T : IsFiniteSet(Below(m)) /\ Below(m) \in SUBSET Nat
    BY FS_Interval
  <2>2. \A m \in T : Below(m) \in FiniteSubsetsOf(Nat)
    BY <2>1 DEF FiniteSubsetsOf
  <2> HIDE DEF Below
  <2> QED
    BY <2>2
<1>2. PICK x \in B : \A y \in B : ~ (<<y, x>> \in StrictSubsetOrdering(Nat))
  BY <1>1, FS_StrictSubsetOrderingWellFounded, WFMin
<1>3. PICK m \in T : x = Below(m)
  BY <1>2
<1>4. ASSUME NEW k \in T, k < m PROVE FALSE
  <2>1. Below(k) \subseteq Below(m) /\ k \in Below(m) /\ k \notin Below(k)
    BY <1>4
  <2>2. <<Below(k), Below(m)>> \in StrictSubsetOrdering(Nat)
    BY <2>1 DEF StrictSubsetOrdering
  <2> QED
    BY <1>2, <1>3, <2>2
<1> QED
  BY <1>3, <1>4

(* The day a month begins on, in closed form.                              *)
First(m) == 1 + 5 * (m \div 2) + 3 * (m % 2)

(* Long and short months alternate.                                        *)
LEMMA LenType ==
    ASSUME NEW m \in Nat
    PROVE  PL!LenOf(m) = IF m % 2 = 0 THEN 3 ELSE 2
BY DEF PL!LenOf, ShortMonths

(* The days of the months are numbered without gaps.                       *)
LEMMA NextFirst ==
    ASSUME NEW m \in Nat
    PROVE  First(m) \in Nat /\ First(m + 1) = First(m) + PL!LenOf(m)
<1>1. CASE m % 2 = 0
  <2>1. PICK k \in Nat : m = 2 * k
    BY <1>1
  <2>2. m \div 2 = k /\ (m + 1) \div 2 = k /\ m % 2 = 0 /\ (m + 1) % 2 = 1
    BY <2>1
  <2> QED
    BY <2>2, LenType DEF First
<1>2. CASE m % 2 = 1
  <2>1. PICK k \in Nat : m = 2 * k + 1
    BY <1>2
  <2>2. m \div 2 = k /\ (m + 1) \div 2 = k + 1 /\ m % 2 = 1 /\ (m + 1) % 2 = 0
    BY <2>1
  <2> QED
    BY <2>2, LenType DEF First
<1>3. m % 2 \in {0, 1}
  OBVIOUS
<1> QED
  BY <1>1, <1>2, <1>3

LEMMA FirstOfIs == \A m \in 0 .. (Months + 2) : PL!FirstOf[m] = First(m)
<1> DEFINE Dom == 0 .. (Months + 2)
           G(f) == [m \in Dom |-> IF m = 0 THEN 1 ELSE f[m - 1] + PL!LenOf(m - 1)]
           g == [m \in Dom |-> First(m)]
<1>1. g = G(g)
  <2>1. ASSUME NEW m \in Dom PROVE First(m) = IF m = 0 THEN 1 ELSE g[m - 1] + PL!LenOf(m - 1)
    <3>1. CASE m = 0
      BY <3>1 DEF First
    <3>2. CASE m # 0
      <4>1. m - 1 \in Nat /\ m - 1 \in Dom /\ (m - 1) + 1 = m
        BY <3>2, CalendarAssumption
      <4>2. First(m) = First(m - 1) + PL!LenOf(m - 1)
        BY <4>1, NextFirst
      <4> QED
        BY <3>2, <4>1, <4>2
    <3> QED
      BY <3>1, <3>2
  <2> QED
    BY <2>1
<1>2. PL!FirstOf = G(PL!FirstOf)
  BY <1>1 DEF PL!FirstOf
<1>3. SUFFICES ASSUME NEW m0 \in Dom, PL!FirstOf[m0] # First(m0) PROVE FALSE
  OBVIOUS
<1>4. PICK m \in {i \in Dom : PL!FirstOf[i] # First(i)} :
         \A k \in {i \in Dom : PL!FirstOf[i] # First(i)} : m <= k
  <2>1. {i \in Dom : PL!FirstOf[i] # First(i)} \in SUBSET Nat
    OBVIOUS
  <2> QED
    BY <1>3, <2>1, LeastNat
<1>5. PL!FirstOf[m] = IF m = 0 THEN 1 ELSE PL!FirstOf[m - 1] + PL!LenOf(m - 1)
  <2> HIDE DEF Dom
  <2> QED
    BY <1>2, <1>4
<1>6. CASE m = 0
  BY <1>4, <1>5, <1>6 DEF First
<1>7. CASE m # 0
  <2>1. m - 1 \in Dom /\ m - 1 \in Nat /\ (m - 1) + 1 = m /\ ~ (m <= m - 1)
    BY <1>4, <1>7, CalendarAssumption
  <2>2. PL!FirstOf[m - 1] = First(m - 1)
    BY <1>4, <2>1
  <2>3. First(m) = First(m - 1) + PL!LenOf(m - 1)
    BY <2>1, NextFirst
  <2> QED
    BY <1>4, <1>5, <1>7, <2>2, <2>3
<1> QED
  BY <1>6, <1>7

Cal == 0 .. (Months + 1)

(* The months follow one another.                                          *)
LEMMA MonthsApart ==
    ASSUME NEW i \in Nat, NEW j \in Nat, i < j
    PROVE  First(i) + PL!LenOf(i) <= First(j)
<1>1. First(i) + PL!LenOf(i) = First(i + 1)
    BY NextFirst
<1>2. First(i + 1) <= First(j)
  <2>1. PICK a \in Nat, r \in {0, 1} : i + 1 = 2 * a + r
    <3>1. i + 1 = 2 * ((i + 1) \div 2) + ((i + 1) % 2) /\ (i + 1) \div 2 \in Nat
          /\ (i + 1) % 2 \in {0, 1}
        OBVIOUS
    <3> QED
        BY <3>1
  <2>2. PICK b \in Nat, q \in {0, 1} : j = 2 * b + q
    <3>1. j = 2 * (j \div 2) + (j % 2) /\ j \div 2 \in Nat /\ j % 2 \in {0, 1}
        OBVIOUS
    <3> QED
        BY <3>1
  <2>3. First(i + 1) = 1 + 5 * a + 3 * r
    <3>1. (i + 1) \div 2 = a /\ (i + 1) % 2 = r
        BY <2>1
    <3> QED
        BY <3>1 DEF First
  <2>4. First(j) = 1 + 5 * b + 3 * q
    <3>1. j \div 2 = b /\ j % 2 = q
        BY <2>2
    <3> QED
        BY <3>1 DEF First
  <2>5. 2 * a + r <= 2 * b + q
      BY <2>1, <2>2
  <2>6. CASE a = b
      BY <2>3, <2>4, <2>5, <2>6
  <2>7. CASE a < b
      BY <2>3, <2>4, <2>7
  <2> QED
      BY <2>5, <2>6, <2>7
<1> QED
    BY <1>1, <1>2

(* A day of the calendar is in one month, from which its date is made.     *)
Dated(d) == d \in Cal \X Nat /\ d[2] \in 1 .. PL!LenOf(d[1])

(* A month has two or three days and begins after as many days as months.  *)
LEMMA LenBounds ==
    ASSUME NEW m \in Nat
    PROVE  PL!LenOf(m) \in 2 .. 3 /\ First(m) \in Nat /\ First(m) >= m + 1
<1>1. PL!LenOf(m) \in 2 .. 3
    BY LenType
<1>2. First(m) \in Nat
    BY NextFirst
<1>3. First(m) >= m + 1
  <2>1. m = 2 * (m \div 2) + (m % 2) /\ m \div 2 \in Nat /\ m % 2 \in {0, 1}
      OBVIOUS
  <2> QED
      BY <2>1 DEF First
<1> QED
    BY <1>1, <1>2, <1>3

(* The date of a day is in the month that holds it.                        *)
LEMMA DateIs ==
    ASSUME NEW n \in 1 .. (First(Months + 2) - 1)
    PROVE  /\ Dated(PL!DateOf(n))
           /\ First(PL!DateOf(n)[1]) <= n /\ n < First(PL!DateOf(n)[1] + 1)
           /\ PL!Number(PL!DateOf(n)) = n
<1> DEFINE In(m) == PL!FirstOf[m] <= n /\ n < PL!FirstOf[m + 1]
           c == CHOOSE m \in Cal : In(m)
<1>1. \A m \in Cal : In(m) <=> First(m) <= n /\ n < First(m + 1)
    BY FirstOfIs, CalendarAssumption DEF Cal
<1>2. \E m \in Nat : First(m) <= n /\ n < First(m + 1)
  <2>1. PICK q \in Nat, r \in 0 .. 4 : n - 1 = 5 * q + r
    <3>1. /\ n - 1 = 5 * ((n - 1) \div 5) + ((n - 1) % 5)
          /\ (n - 1) \div 5 \in Nat /\ (n - 1) % 5 \in 0 .. 4
        OBVIOUS
    <3> QED
        BY <3>1
  <2>2. CASE r < 3
    <3>1. First(2 * q) = 1 + 5 * q /\ 2 * q \in Nat /\ PL!LenOf(2 * q) = 3
      <4>1. (2 * q) \div 2 = q /\ (2 * q) % 2 = 0
          OBVIOUS
      <4> QED
          BY <4>1, LenType DEF First
    <3>2. First(2 * q + 1) = First(2 * q) + 3
        BY <3>1, NextFirst
    <3> QED
        BY <2>1, <2>2, <3>1, <3>2
  <2>3. CASE r >= 3
    <3>1. First(2 * q + 1) = 4 + 5 * q /\ 2 * q + 1 \in Nat /\ PL!LenOf(2 * q + 1) = 2
      <4>1. (2 * q + 1) \div 2 = q /\ (2 * q + 1) % 2 = 1
          OBVIOUS
      <4> QED
          BY <4>1, LenType DEF First
    <3>2. First((2 * q + 1) + 1) = First(2 * q + 1) + 2
        BY <3>1, NextFirst
    <3> QED
        BY <2>1, <2>3, <3>1, <3>2
  <2> QED
      BY <2>1, <2>2, <2>3
<1>3. PICK m \in Nat : First(m) <= n /\ n < First(m + 1)
    BY <1>2
<1>4. m \in Cal
  <2>1. First(Months + 2) \in Nat /\ First(m) \in Nat /\ Months \in Nat
      BY LenBounds, CalendarAssumption
  <2>2. CASE m > Months + 2
    <3>1. First(Months + 2) + PL!LenOf(Months + 2) <= First(m) /\ PL!LenOf(Months + 2) \in 2 .. 3
        BY <2>1, <2>2, MonthsApart, LenBounds
    <3> QED
        BY <1>3, <2>1, <3>1
  <2>3. CASE m = Months + 2
      BY <1>3, <2>1, <2>3
  <2> QED
      BY <2>1, <2>2, <2>3 DEF Cal
<1>5. c \in Cal /\ In(c)
    BY <1>1, <1>3, <1>4
<1>6. First(c) <= n /\ n < First(c + 1)
    BY <1>1, <1>5
<1>7. PL!DateOf(n) = <<c, n - PL!FirstOf[c] + 1>> /\ PL!FirstOf[c] = First(c)
    BY <1>5, FirstOfIs, CalendarAssumption DEF PL!DateOf, Cal
<1> HIDE DEF c, In
<1>8. c \in Nat /\ First(c) \in Nat /\ First(c + 1) = First(c) + PL!LenOf(c) /\ PL!LenOf(c) \in 2 .. 3
    BY <1>5, LenBounds, NextFirst, CalendarAssumption DEF Cal
<1>9. n - First(c) + 1 \in 1 .. PL!LenOf(c)
    BY <1>6, <1>8
<1>10. PL!Number(PL!DateOf(n)) = n
    BY <1>7, <1>8 DEF PL!Number
<1> QED
    BY <1>5, <1>6, <1>7, <1>9, <1>10 DEF Dated

(* The number of a date is in its month.                                   *)
LEMMA NumberIs ==
    ASSUME NEW d, Dated(d)
    PROVE  /\ d = <<d[1], d[2]>> /\ d[1] \in Cal /\ d[1] \in Nat /\ d[2] \in Nat \ {0}
           /\ PL!Number(d) = First(d[1]) + d[2] - 1 /\ PL!Number(d) \in Nat \ {0}
           /\ First(d[1]) <= PL!Number(d) /\ PL!Number(d) < First(d[1] + 1)
           /\ d # <<0, 0>>
<1>1. d = <<d[1], d[2]>> /\ d[1] \in Cal /\ d[1] \in Nat /\ d[2] \in 1 .. PL!LenOf(d[1])
    BY CalendarAssumption DEF Dated, Cal
<1>2. PL!LenOf(d[1]) \in 2 .. 3 /\ First(d[1]) \in Nat \ {0}
      /\ First(d[1] + 1) = First(d[1]) + PL!LenOf(d[1])
    BY <1>1, LenBounds, NextFirst
<1>3. PL!Number(d) = First(d[1]) + d[2] - 1
    BY <1>1, FirstOfIs, CalendarAssumption DEF PL!Number, Cal
<1>4. d # <<0, 0>>
    BY <1>1
<1> QED
    BY <1>1, <1>2, <1>3, <1>4

(* Earlier days are in earlier months.                                     *)
LEMMA MonthBefore ==
    ASSUME NEW i \in Nat, NEW j \in Nat, NEW n \in Nat, First(i) <= n, n < First(j)
    PROVE  i < j
<1>1. First(i) \in Nat /\ First(j) \in Nat /\ PL!LenOf(j) \in 2 .. 3
    BY LenBounds
<1>2. CASE i = j
    BY <1>1, <1>2
<1>3. CASE j < i
  <2>1. First(j) + PL!LenOf(j) <= First(i)
      BY <1>3, MonthsApart
  <2> QED
      BY <1>1, <2>1
<1> QED
    BY <1>2, <1>3

DayOK == day \in First(1) .. (First(Months) - 1)
PlanOK == /\ plan \in [date : Nat \X Nat, mode : PL!Modes]
          /\ plan.date = <<0, 0>> \/ Dated(plan.date)

(* The first two months.                                                   *)
LEMMA FirstSmall == First(0) = 1 /\ First(1) = 4
BY DEF First

(* The two months after the last one of the plans have five days.          *)
LEMMA YearLong ==
    First(Months + 2) = First(Months) + 5 /\ First(Months) \in Nat /\ Months \in Nat
<1>1. Months \in Nat /\ Months + 1 \in Nat /\ (Months + 1) + 1 = Months + 2
    BY CalendarAssumption
<1>2. PL!LenOf(Months) + PL!LenOf(Months + 1) = 5
  <2>1. PICK k \in Nat, r \in {0, 1} : Months = 2 * k + r
    <3>1. Months = 2 * (Months \div 2) + (Months % 2) /\ Months \div 2 \in Nat
          /\ Months % 2 \in {0, 1}
        BY <1>1
    <3> QED
        BY <3>1
  <2>2. CASE r = 0
    <3>1. Months % 2 = 0 /\ (Months + 1) % 2 = 1
        BY <2>1, <2>2
    <3> QED
        BY <1>1, <3>1, LenType
  <2>3. CASE r = 1
    <3>1. Months % 2 = 1 /\ (Months + 1) % 2 = 0
        BY <2>1, <2>3
    <3> QED
        BY <1>1, <3>1, LenType
  <2> QED
      BY <2>2, <2>3
<1>3. First(Months + 2) = First(Months) + PL!LenOf(Months) + PL!LenOf(Months + 1)
    BY <1>1, NextFirst, LenBounds
<1> QED
    BY <1>1, <1>2, <1>3, LenBounds

(* The date of today.                                                      *)
LEMMA TodayIs ==
    ASSUME DayOK
    PROVE  /\ Dated(PL!Today) /\ PL!Today[1] \in 1 .. (Months - 1) /\ PL!Number(PL!Today) = day
           /\ First(PL!Today[1]) <= day /\ day < First(PL!Today[1] + 1)
           /\ day \in 4 .. (First(Months) - 1) /\ Months \in Nat
<1>1. day \in 4 .. (First(Months) - 1) /\ day \in 1 .. (First(Months + 2) - 1) /\ Months \in Nat
    BY FirstSmall, YearLong DEF DayOK
<1>2. /\ Dated(PL!Today) /\ PL!Number(PL!Today) = day
      /\ First(PL!Today[1]) <= day /\ day < First(PL!Today[1] + 1)
    BY <1>1, DateIs DEF PL!Today
<1>3. PL!Today[1] \in Nat /\ PL!Today[1] + 1 \in Nat
    BY <1>2, NumberIs
<1>4. PL!Today[1] < Months
  <2>1. day \in Nat /\ day < First(Months)
      BY <1>1, YearLong
  <2> QED
      BY <1>1, <1>2, <1>3, <2>1, MonthBefore
<1>5. 1 < PL!Today[1] + 1
    BY <1>1, <1>2, <1>3, MonthBefore, FirstSmall
<1> QED
    BY <1>1, <1>2, <1>3, <1>4, <1>5

(* A date some months away, on the wished day or the last one of its       *)
(* month.                                                                  *)
LEMMA MonthlyDate ==
    ASSUME NEW d \in Nat \X Nat, NEW k \in Int, d[1] + k \in Cal, NEW w \in Nat \ {0}
    PROVE  /\ Dated(PL!AddMonths(d, k, w))
           /\ PL!AddMonths(d, k, w)[1] = d[1] + k
           /\ PL!AddMonths(d, k, w)[2] =
                IF w > PL!LenOf(d[1] + k) THEN PL!LenOf(d[1] + k) ELSE w
<1> DEFINE m == d[1] + k
<1>1. m \in Cal /\ m \in Nat
    BY CalendarAssumption DEF Cal
<1>2. PL!AddMonths(d, k, w) = <<m, IF w > PL!LenOf(m) THEN PL!LenOf(m) ELSE w>>
    BY DEF PL!AddMonths
<1>3. PL!LenOf(m) \in 2 .. 3
    BY <1>1, LenBounds
<1> HIDE DEF m
<1> QED
    BY <1>1, <1>2, <1>3 DEF Dated, m

(* The number of whole periods in a difference, rounded down.              *)
LEMMA WholePeriods ==
    ASSUME NEW diff \in Int, NEW e \in 1 .. 4, NEW k,
           k = IF diff >= 0 THEN diff \div e ELSE -((-diff + e - 1) \div e)
    PROVE  k \in Int /\ k * e <= diff /\ diff < k * e + e
<1>1. CASE e = 1
    BY <1>1
<1>2. CASE e = 2
    BY <1>2
<1>3. CASE e = 3
    BY <1>3
<1>4. CASE e = 4
    BY <1>4
<1> QED
    BY <1>1, <1>2, <1>3, <1>4

(* Whatever the plan, today is in the period it is counted in, and that    *)
(* period begins on a date of the calendar.                                *)
LEMMA PeriodHasToday ==
    ASSUME DayOK, PlanOK
    PROVE  PL!PeriodHoldsToday /\ Dated(PL!PeriodStart(plan, PL!Today))
<1> DEFINE t == PL!Today
           s == PL!PeriodStart(plan, t)
<1>1. /\ Dated(t) /\ t[1] \in 1 .. (Months - 1) /\ PL!Number(t) = day
      /\ First(t[1]) <= day /\ day < First(t[1] + 1) /\ day \in 4 .. (First(Months) - 1)
      /\ Months \in Nat /\ t \in Nat \X Nat
    BY TodayIs, NumberIs DEF Dated, Cal
<1> HIDE DEF t
<1> SUFFICES Dated(s) /\ PL!Number(s) <= day /\ day < PL!Number(s) + PL!PeriodDays(plan, s)
    BY DEF t, PL!PeriodHoldsToday
<1>2. CASE plan.date = PL!None \/ plan.mode = "single"
  <2>1. s = <<t[1], 1>> /\ PL!PeriodDays(plan, s) = PL!LenOf(t[1])
      BY <1>2 DEF PL!PeriodStart, PL!PeriodDays
  <2>2. PL!LenOf(t[1]) \in 2 .. 3 /\ First(t[1] + 1) = First(t[1]) + PL!LenOf(t[1])
        /\ First(t[1]) \in Nat
      BY <1>1, LenBounds, NextFirst
  <2>3. Dated(s)
      BY <1>1, <2>1, <2>2 DEF Dated, Cal
  <2>4. PL!Number(s) = First(t[1])
      BY <2>1, <2>2, <2>3, NumberIs
  <2> QED
      BY <1>1, <2>1, <2>2, <2>3, <2>4
<1>3. CASE plan.date # PL!None /\ plan.mode = "monthly"
  <2> DEFINE w == plan.date[2]
             this == PL!AddMonths(t, 0, w)
  <2>1. w \in Nat \ {0}
      BY <1>3, NumberIs DEF PlanOK, PL!None
  <2> HIDE DEF w
  <2>2. /\ Dated(this) /\ this[1] = t[1]
        /\ this[2] = IF w > PL!LenOf(t[1]) THEN PL!LenOf(t[1]) ELSE w
    <3>1. t[1] + 0 = t[1] /\ t[1] + 0 \in Cal
        BY <1>1 DEF Cal
    <3> QED
        BY <1>1, <2>1, <3>1, MonthlyDate
  <2>3. PL!Number(this) = First(t[1]) + this[2] - 1 /\ PL!Number(this) \in Nat
      BY <2>2, NumberIs
  <2>4. CASE PL!Number(this) <= day
    <3> DEFINE next == PL!AddMonths(this, 1, w)
    <3>1. s = this
        BY <1>1, <1>3, <2>4 DEF PL!PeriodStart, w
    <3>2. PL!PeriodDays(plan, s) = PL!Number(next) - PL!Number(s)
        BY <1>3, <3>1 DEF PL!PeriodDays, PL!Between, w
    <3>3. Dated(next) /\ next[1] = t[1] + 1
      <4>1. this \in Nat \X Nat /\ this[1] + 1 = t[1] + 1 /\ t[1] + 1 \in Cal
          BY <1>1, <2>2, NumberIs DEF Cal, Dated
      <4> QED
          BY <2>1, <4>1, MonthlyDate
    <3>4. First(t[1] + 1) <= PL!Number(next) /\ PL!Number(next) \in Nat
        BY <3>3, NumberIs
    <3>5. First(t[1] + 1) \in Nat
        BY <1>1, LenBounds
    <3> HIDE DEF next, this
    <3> QED
        BY <1>1, <2>2, <2>3, <2>4, <3>1, <3>2, <3>4, <3>5
  <2>5. CASE ~ (PL!Number(this) <= day)
    <3> DEFINE prev == PL!AddMonths(t, -1, w)
               next == PL!AddMonths(prev, 1, w)
    <3>1. s = prev
        BY <1>1, <1>3, <2>5 DEF PL!PeriodStart, w
    <3>2. PL!PeriodDays(plan, s) = PL!Number(next) - PL!Number(s)
        BY <1>3, <3>1 DEF PL!PeriodDays, PL!Between, w
    <3>3. Dated(prev) /\ prev[1] = t[1] - 1
      <4>1. t[1] + -1 = t[1] - 1 /\ t[1] - 1 \in Cal /\ -1 \in Int
          BY <1>1 DEF Cal
      <4> QED
          BY <1>1, <2>1, <4>1, MonthlyDate
    <3>4. PL!Number(prev) \in Nat /\ PL!Number(prev) < First(t[1]) /\ prev \in Nat \X Nat
      <4>1. prev[1] + 1 = t[1]
          BY <1>1, <3>3
      <4> QED
          BY <3>3, <4>1, NumberIs DEF Dated, Cal
    <3>5. next = this
      <4>1. prev[1] + 1 = t[1] + 0
          BY <1>1, <3>3
      <4> QED
          BY <4>1 DEF PL!AddMonths
    <3>6. First(t[1]) \in Nat
        BY <1>1, LenBounds
    <3> HIDE DEF next, this, prev
    <3> QED
        BY <1>1, <2>3, <2>5, <3>1, <3>2, <3>3, <3>4, <3>5, <3>6
  <2> QED
      BY <2>4, <2>5
<1>4. CASE plan.date # PL!None /\ plan.mode = "days"
  <2> DEFINE a == PL!Number(plan.date)
             k == IF day - a >= 0 THEN (day - a) \div Every
                  ELSE -((-(day - a) + Every - 1) \div Every)
  <2>1. a \in Nat
      BY <1>4, NumberIs DEF PlanOK, PL!None
  <2>2. s = PL!DateOf(a + k * Every) /\ PL!PeriodDays(plan, s) = Every
      BY <1>1, <1>4 DEF PL!PeriodStart, PL!PeriodDays, PL!Between, PL!AddDays
  <2>3. k \in Int /\ k * Every <= day - a /\ day - a < k * Every + Every
    <3> HIDE DEF a
    <3>1. day - a \in Int /\ Every \in 1 .. 4
        BY <1>1, <2>1, CalendarAssumption
    <3> QED
        BY <3>1, WholePeriods
  <2> HIDE DEF a, k
  <2>4. k * Every \in Int /\ Every \in 1 .. 4
      BY <2>3, CalendarAssumption
  <2>5. a + k * Every \in 1 .. (First(Months + 2) - 1)
      BY <1>1, <2>1, <2>3, <2>4, YearLong
  <2>6. Dated(s) /\ PL!Number(s) = a + k * Every
      BY <2>2, <2>5, DateIs
  <2> QED
      BY <1>1, <2>1, <2>2, <2>3, <2>4, <2>6
<1> QED
    BY <1>2, <1>3, <1>4 DEF PlanOK, PL!Modes

(* The next renewal is a date of the calendar: one month, or one period of *)
(* days, before it is still in the past.                                   *)
LEMMA RenewalDated ==
    ASSUME DayOK, PlanOK, PL!Recurs, PL!Left < 0
    PROVE  Dated(PL!NextRenewal)
<1> DEFINE d == plan.date
           Later(k) == IF plan.mode = "monthly" THEN PL!AddMonths(d, k, d[2])
                       ELSE PL!AddDays(d, k * Every)
           Ahead(k) == PL!Between(PL!Today, Later(k)) >= 0
           Fits(k) == Ahead(k) /\ \A j \in 1 .. (k - 1) : PL!Between(PL!Today, Later(j)) < 0
           first == CHOOSE k \in 1 .. day : Fits(k)
<1>1. /\ Dated(d) /\ d \in Nat \X Nat /\ d[1] \in Nat /\ d[2] \in Nat \ {0}
      /\ PL!Number(d) \in Nat \ {0} /\ First(d[1]) <= PL!Number(d)
      /\ PL!Number(d) < First(d[1] + 1)
    BY NumberIs DEF PL!Recurs, PlanOK, PL!None
<1>2. /\ PL!Today[1] \in 1 .. (Months - 1) /\ PL!Number(PL!Today) = day
      /\ First(PL!Today[1]) <= day /\ day < First(PL!Today[1] + 1)
      /\ day \in 4 .. (First(Months) - 1) /\ Months \in Nat
    BY TodayIs
<1>3. PL!Number(d) < day
    BY <1>1, <1>2 DEF PL!Left, PL!Between
<1>4. PL!NextRenewal = Later(first)
    BY DEF PL!NextRenewal
<1>5. ASSUME NEW K \in 1 .. day, Dated(Later(K)), PL!Number(Later(K)) >= day,
             \A k \in 1 .. K : Dated(Later(k))
      PROVE  Dated(PL!NextRenewal)
  <2> DEFINE T == {k \in 1 .. K : PL!Number(Later(k)) >= day}
  <2> HIDE DEF Later
  <2>1. PICK m \in T : \A k \in T : m <= k
    <3>1. T \in SUBSET Nat /\ K \in T
        BY <1>5
    <3> QED
        BY <3>1, LeastNat
  <2>2. \A k \in 1 .. K : PL!Number(Later(k)) \in Nat
      BY <1>5, NumberIs
  <2>3. Fits(m)
    <3>1. PL!Between(PL!Today, Later(m)) >= 0
        BY <1>2, <2>1, <2>2 DEF PL!Between
    <3>2. ASSUME NEW j \in 1 .. (m - 1) PROVE PL!Between(PL!Today, Later(j)) < 0
      <4>1. j \in 1 .. K /\ j \notin T
          BY <2>1
      <4>2. PL!Number(Later(j)) < day /\ PL!Number(Later(j)) \in Nat
          BY <1>2, <2>2, <4>1
      <4> QED
          BY <1>2, <4>2 DEF PL!Between
    <3> QED
        BY <3>1, <3>2
  <2>4. m \in 1 .. day
      BY <1>2, <1>5, <2>1
  <2> HIDE DEF Fits
  <2>5. first \in 1 .. day /\ Fits(first)
      BY <2>3, <2>4
  <2> HIDE DEF first
  <2>6. first <= K
    <3>1. CASE K < first
      <4>1. K \in 1 .. (first - 1)
          BY <1>2, <1>5, <2>5, <3>1
      <4>2. PL!Between(PL!Today, Later(K)) < 0
          BY <2>5, <4>1 DEF Fits
      <4>3. PL!Number(Later(K)) \in Nat
          BY <1>5, <2>2
      <4> QED
          BY <1>2, <1>5, <4>2, <4>3 DEF PL!Between
    <3> QED
        BY <1>2, <1>5, <2>5, <3>1
  <2>7. first \in 1 .. K
      BY <2>5, <2>6, <1>5
  <2> QED
      BY <1>4, <1>5, <2>7
<1>6. CASE plan.mode = "monthly"
  <2> DEFINE K == PL!Today[1] + 1 - d[1]
  <2>1. d[1] < PL!Today[1] + 1
    <3>1. First(d[1]) <= day /\ day \in Nat /\ PL!Today[1] + 1 \in Nat
      <4>1. First(d[1]) \in Nat
          BY <1>1, LenBounds
      <4> QED
          BY <1>1, <1>2, <1>3, <4>1
    <3> QED
        BY <1>1, <1>2, <3>1, MonthBefore
  <2>2. K \in 1 .. day
    <3>1. PL!Today[1] + 1 <= First(PL!Today[1]) /\ First(PL!Today[1]) \in Nat
        BY <1>2, LenBounds
    <3> QED
        BY <1>1, <1>2, <2>1, <3>1
  <2>3. ASSUME NEW k \in 1 .. K
        PROVE  Dated(Later(k)) /\ Later(k)[1] = d[1] + k
    <3>1. d[1] + k \in Cal /\ k \in Int
        BY <1>1, <1>2, <2>2 DEF Cal
    <3>2. Later(k) = PL!AddMonths(d, k, d[2])
        BY <1>6
    <3> HIDE DEF Later
    <3> QED
        BY <1>1, <3>1, <3>2, MonthlyDate
  <2>4. Dated(Later(K)) /\ Later(K)[1] = PL!Today[1] + 1
    <3>1. K \in 1 .. K /\ d[1] + K = PL!Today[1] + 1
        BY <1>1, <1>2, <2>2
    <3> HIDE DEF K, Later
    <3> QED
        BY <2>3, <3>1
  <2> HIDE DEF K, Later
  <2>5. PL!Number(Later(K)) >= day
    <3>1. First(PL!Today[1] + 1) <= PL!Number(Later(K)) /\ PL!Number(Later(K)) \in Nat
        BY <2>4, NumberIs
    <3>2. First(PL!Today[1] + 1) \in Nat
        BY <1>2, LenBounds
    <3> QED
        BY <1>2, <3>1, <3>2
  <2> QED
      BY <1>5, <2>2, <2>3, <2>4, <2>5
<1>7. CASE plan.mode # "monthly"
  <2> DEFINE a == PL!Number(d)
             S == {k \in Nat : a + k * Every >= day}
  <2>1. a \in Nat \ {0} /\ a < day /\ Every \in 1 .. 4 /\ day \in Nat
      BY <1>1, <1>2, <1>3, CalendarAssumption
  <2>2. \A k \in Int : Later(k) = PL!DateOf(a + k * Every)
      BY <1>7 DEF PL!AddDays
  <2> HIDE DEF a, Later
  <2>3. \A k \in Nat : k * Every \in Nat /\ (k + 1) * Every = k * Every + Every
      BY <2>1
  <2>4. day - a \in S
    <3>1. (day - a) * Every >= day - a
        BY <2>1
    <3> QED
        BY <2>1, <2>3, <3>1
  <2>5. PICK K \in S : \A k \in S : K <= k
      BY <2>4, LeastNat
  <2>6. K \in 1 .. day
    <3>1. K # 0
        BY <2>1, <2>5
    <3>2. K <= day - a
        BY <2>4, <2>5
    <3> QED
        BY <2>1, <2>5, <3>1, <3>2
  <2>7. K - 1 \in Nat /\ K - 1 \notin S
      BY <2>5, <2>6
  <2>8. a + K * Every < day + Every
    <3>1. a + (K - 1) * Every < day
        BY <2>1, <2>3, <2>7
    <3>2. K * Every = (K - 1) * Every + Every /\ (K - 1) * Every \in Nat
        BY <2>3, <2>7
    <3> QED
        BY <2>1, <3>1, <3>2
  <2>9. ASSUME NEW k \in 1 .. K
        PROVE  a + k * Every \in 1 .. (First(Months + 2) - 1)
    <3>1. k * Every \in Nat /\ k * Every <= K * Every /\ K * Every \in Nat
        BY <2>1, <2>3, <2>6
    <3> QED
        BY <1>2, <2>1, <2>8, <3>1, YearLong
  <2>10. \A k \in 1 .. K : Dated(Later(k)) /\ PL!Number(Later(k)) = a + k * Every
      BY <2>2, <2>9, DateIs
  <2>11. PL!Number(Later(K)) >= day /\ Dated(Later(K))
      BY <2>5, <2>6, <2>10
  <2> QED
      BY <1>5, <2>6, <2>10, <2>11
<1> QED
    BY <1>6, <1>7

-----------------------------------------------------------------------------
(* The traffic: what the counter lacks was lost to power cuts, and what    *)
(* was not saved is what the next cut will cost.                           *)
Dates == Nat \X Nat
Notes == [key : {"month", "day"}, val : Dates] \union [key : {"cell"}, val : Nat \X Nat]
Counters == [month : Dates, day : Dates, cell : Nat]

PlTypes ==
    /\ DayOK /\ plKnown \in BOOLEAN /\ PlanOK
    /\ use \in Counters /\ flash \in Counters
    /\ saving \in Seq(Notes) /\ Len(saving) <= 3
    /\ spUsed \in [traffic : 0 .. MaxTraffic, cuts : Nat, plans : Nat]
    /\ real \in [spent : Int, unsaved : Int, lost : Int]

Counted ==
    /\ use.cell <= spUsed.traffic /\ flash.cell <= spUsed.traffic
    /\ \A i \in 1 .. Len(saving) : saving[i].key = "cell" => saving[i].val[1] <= spUsed.traffic
    /\ real.spent - use.cell <= real.lost
    /\ use.cell - flash.cell <= real.unsaved

PlInv == PlTypes /\ Counted

(* The days a behaviour begins and ends with.                              *)
LEMMA FirstDayIs == PL!FirstOf[1] = First(1) /\ PL!FirstOf[Months] = First(Months)
BY FirstOfIs, CalendarAssumption

LEMMA PlInitInv == PL!PlInit => PlInv
<1> SUFFICES ASSUME PL!PlInit PROVE PlInv
    OBVIOUS
<1>1. /\ day = First(1) /\ plKnown = FALSE
      /\ plan = [date |-> <<0, 0>>, mode |-> "single"]
      /\ use = [month |-> <<1, 1>>, day |-> <<1, 1>>, cell |-> 0] /\ flash = use
      /\ saving = <<>> /\ spUsed = [traffic |-> 0, cuts |-> 0, plans |-> 0]
      /\ real = [spent |-> 0, unsaved |-> 0, lost |-> 0]
    BY FirstDayIs DEF PL!PlInit, PL!FirstDay, PL!None, PL!NothingSpent
<1>2. DayOK
  <2>1. 1 \in Nat /\ Months \in Nat /\ 1 < Months
      BY CalendarAssumption
  <2>2. First(1) + PL!LenOf(1) <= First(Months) /\ PL!LenOf(1) \in 2 .. 3
        /\ First(1) \in Nat /\ First(Months) \in Nat
      BY <2>1, MonthsApart, LenBounds
  <2> QED
      BY <1>1, <2>2 DEF DayOK
<1>3. PlanOK
    BY <1>1 DEF PlanOK, PL!Modes
<1>4. use \in Counters /\ flash \in Counters
    BY <1>1 DEF Counters, Dates
<1>5. saving \in Seq(Notes) /\ Len(saving) = 0
    BY <1>1
<1>6. /\ spUsed \in [traffic : 0 .. MaxTraffic, cuts : Nat, plans : Nat]
      /\ real \in [spent : Int, unsaved : Int, lost : Int]
    BY <1>1, CalendarAssumption
<1>7. PlTypes
  <2>1. plKnown \in BOOLEAN
      BY <1>1, Zenon
  <2>2. Len(saving) <= 3
      BY <1>5
  <2> QED
      BY <1>2, <1>3, <1>4, <1>5, <1>6, <2>1, <2>2, Zenon DEF PlTypes
<1>8. Counted
    BY <1>1, <1>5 DEF Counted
<1> QED
    BY <1>7, <1>8 DEF PlInv

LEMMA PlStep == PlInv /\ [PL!PlNext]_pl => PlInv'
<1> SUFFICES ASSUME PlInv, [PL!PlNext]_pl PROVE PlInv'
    OBVIOUS
<1>0. PlTypes /\ Counted
    BY DEF PlInv
<1>1. CASE PL!SetsPlan
  <2>1. PICK n \in day .. (day + PlanAhead), m \in PL!Modes :
           plan' = [date |-> PL!DateOf(n), mode |-> m]
      BY <1>1 DEF PL!SetsPlan
  <2>2. /\ spUsed' = [spUsed EXCEPT !.plans = @ + 1]
        /\ UNCHANGED <<day, plKnown, real, use, flash, saving>>
      BY <1>1 DEF PL!SetsPlan, PL!plRest
  <2>3. n \in 1 .. (First(Months + 2) - 1)
      BY <1>0, YearLong, FirstSmall, CalendarAssumption DEF PlTypes, DayOK
  <2>4. Dated(PL!DateOf(n)) /\ PL!DateOf(n) \in Nat \X Nat
      BY <2>3, DateIs, NumberIs DEF Dated, Cal
  <2>5. PlanOK'
      BY <2>1, <2>4 DEF PlanOK, Dated, Cal
  <2>6. spUsed' \in [traffic : 0 .. MaxTraffic, cuts : Nat, plans : Nat]
        /\ spUsed'.traffic = spUsed.traffic
      BY <1>0, <2>2 DEF PlTypes
  <2> QED
      BY <1>0, <2>2, <2>5, <2>6 DEF PlInv, PlTypes, Counted, DayOK
<1>2. CASE PL!ClockSet
  <2>1. plKnown' = TRUE /\ UNCHANGED <<day, plan, spUsed, real, use, flash, saving>>
      BY <1>2 DEF PL!ClockSet, PL!plRest
  <2> QED
      BY <1>0, <2>1 DEF PlInv, PlTypes, Counted, DayOK, PlanOK, Dated
<1>3. CASE PL!NextDay
  <2>1. /\ day + 1 < First(Months) /\ day' = day + 1
        /\ UNCHANGED <<plKnown, plan, spUsed, real, use, flash, saving>>
      BY <1>3, FirstDayIs DEF PL!NextDay, PL!plRest
  <2>2. DayOK'
      BY <1>0, <2>1, YearLong, FirstSmall DEF PlTypes, DayOK
  <2> QED
      BY <1>0, <2>1, <2>2 DEF PlInv, PlTypes, Counted, PlanOK, Dated
<1>4. CASE PL!Traffic
  <2>1. /\ spUsed.traffic < MaxTraffic /\ spUsed' = [spUsed EXCEPT !.traffic = @ + 1]
        /\ use' = [use EXCEPT !.cell = @ + 1]
        /\ real' = [real EXCEPT !.spent = @ + 1, !.unsaved = @ + 1]
        /\ UNCHANGED <<day, plKnown, plan, flash, saving>>
      BY <1>4 DEF PL!Traffic
  <2>2. use' \in Counters /\ use'.cell = use.cell + 1 /\ use.cell \in Nat
      BY <1>0, <2>1 DEF PlTypes, Counters
  <2>3. spUsed' \in [traffic : 0 .. MaxTraffic, cuts : Nat, plans : Nat]
        /\ spUsed'.traffic = spUsed.traffic + 1 /\ spUsed.traffic \in Nat
      BY <1>0, <2>1, CalendarAssumption DEF PlTypes
  <2>4. /\ real' \in [spent : Int, unsaved : Int, lost : Int]
        /\ real'.spent = real.spent + 1 /\ real'.unsaved = real.unsaved + 1
        /\ real'.lost = real.lost
    <3>1. real.spent + 1 \in Int /\ real.unsaved + 1 \in Int /\ real.lost \in Int
        BY <1>0 DEF PlTypes
    <3>2. real' = [spent |-> real.spent + 1, unsaved |-> real.unsaved + 1, lost |-> real.lost]
        BY <1>0, <2>1 DEF PlTypes
    <3> QED
        BY <3>1, <3>2
  <2>5. flash.cell \in Nat /\ real.spent \in Int /\ real.unsaved \in Int /\ real.lost \in Int
      BY <1>0 DEF PlTypes, Counters
  <2>6. Counted'
    <3>1. \A i \in 1 .. Len(saving) :
             saving[i].key = "cell" => saving[i].val[1] \in Nat
        BY <1>0 DEF PlTypes, Notes
    <3>2. \A i \in 1 .. Len(saving') :
             saving'[i].key = "cell" => saving'[i].val[1] <= spUsed'.traffic
        BY <1>0, <2>1, <2>3, <3>1 DEF Counted
    <3>3. use'.cell <= spUsed'.traffic /\ flash'.cell <= spUsed'.traffic
        BY <1>0, <2>1, <2>2, <2>3, <2>5 DEF Counted
    <3>4. real'.spent - use'.cell <= real'.lost /\ use'.cell - flash'.cell <= real'.unsaved
        BY <1>0, <2>1, <2>2, <2>4, <2>5 DEF Counted
    <3> QED
        BY <3>2, <3>3, <3>4 DEF Counted
  <2>7. PlTypes'
      BY <1>0, <2>1, <2>2, <2>3, <2>4 DEF PlTypes, DayOK, PlanOK, Dated
  <2> QED
      BY <2>6, <2>7 DEF PlInv
<1>5. CASE PL!PowerCut
  <2>1. /\ spUsed' = [spUsed EXCEPT !.cuts = @ + 1]
        /\ plKnown' = FALSE /\ use' = flash /\ saving' = <<>>
        /\ real' = [real EXCEPT !.lost = @ + real.unsaved, !.unsaved = 0]
        /\ UNCHANGED <<day, plan, flash>>
      BY <1>5 DEF PL!PowerCut
  <2>2. spUsed' \in [traffic : 0 .. MaxTraffic, cuts : Nat, plans : Nat]
        /\ spUsed'.traffic = spUsed.traffic
      BY <1>0, <2>1 DEF PlTypes
  <2>3. /\ real' \in [spent : Int, unsaved : Int, lost : Int]
        /\ real'.spent = real.spent /\ real'.unsaved = 0
        /\ real'.lost = real.lost + real.unsaved
    <3>1. real.spent \in Int /\ real.lost + real.unsaved \in Int
        BY <1>0 DEF PlTypes
    <3>2. real' = [spent |-> real.spent, unsaved |-> 0, lost |-> real.lost + real.unsaved]
        BY <1>0, <2>1 DEF PlTypes
    <3> QED
        BY <3>1, <3>2
  <2>4. /\ flash.cell \in Nat /\ use.cell \in Nat /\ real.spent \in Int
        /\ real.unsaved \in Int /\ real.lost \in Int
      BY <1>0 DEF PlTypes, Counters
  <2>5. saving' \in Seq(Notes) /\ Len(saving') = 0
      BY <2>1
  <2>6. Counted'
    <3>1. use'.cell = flash.cell /\ flash'.cell = flash.cell /\ spUsed'.traffic = spUsed.traffic
        BY <2>1, <2>2
    <3>2. flash.cell <= spUsed.traffic /\ real.spent - use.cell <= real.lost
          /\ use.cell - flash.cell <= real.unsaved
        BY <1>0 DEF Counted
    <3>3. use'.cell <= spUsed'.traffic /\ flash'.cell <= spUsed'.traffic
        BY <3>1, <3>2
    <3>4. real'.spent - use'.cell <= real'.lost
        BY <2>3, <2>4, <3>1, <3>2
    <3>5. use'.cell - flash'.cell <= real'.unsaved
        BY <2>3, <2>4, <3>1
    <3>6. \A i \in 1 .. Len(saving') : saving'[i].key = "cell" => saving'[i].val[1] <= spUsed'.traffic
        BY <2>5
    <3> QED
        BY <3>3, <3>4, <3>5, <3>6 DEF Counted
  <2>7. PlTypes'
    <3>1. Len(saving') <= 3 /\ DayOK' /\ PlanOK'
        BY <1>0, <2>1, <2>5 DEF PlTypes, DayOK, PlanOK, Dated
    <3> QED
        BY <1>0, <2>1, <2>2, <2>3, <2>5, <3>1 DEF PlTypes
  <2> QED
      BY <2>6, <2>7 DEF PlInv
<1>6. CASE PL!Renews
  <2>1. /\ PL!Recurs /\ PL!Left < 0 /\ plan' = [plan EXCEPT !.date = PL!NextRenewal]
        /\ UNCHANGED <<day, plKnown, spUsed, real, use, flash, saving>>
      BY <1>6 DEF PL!Renews, PL!plRest
  <2>2. Dated(PL!NextRenewal) /\ PL!NextRenewal \in Nat \X Nat
      BY <1>0, <2>1, RenewalDated, NumberIs DEF PlTypes, Dated, Cal
  <2>3. PlanOK'
      BY <1>0, <2>1, <2>2 DEF PlTypes, PlanOK, Dated, Cal
  <2> QED
      BY <1>0, <2>1, <2>3 DEF PlInv, PlTypes, Counted, DayOK
<1>7. CASE PL!Notices
  <2>1. UNCHANGED <<day, plKnown, plan, use, flash, saving, spUsed, real>>
      BY <1>7 DEF PL!Notices
  <2> QED
      BY <1>0, <2>1 DEF PlInv, PlTypes, Counted, DayOK, PlanOK, Dated
<1>8. CASE PL!Rolls
  <2> DEFINE start == PL!PeriodStart(plan, PL!Today)
             new == start # use.month
  <2>1. /\ use' = [month |-> start, day |-> PL!Today, cell |-> IF new THEN 0 ELSE use.cell]
        /\ real' = IF new THEN PL!NothingSpent ELSE real
        /\ UNCHANGED <<day, plKnown, plan, flash, saving, spUsed>>
      BY <1>8 DEF PL!Rolls
  <2>2. start \in Dates /\ PL!Today \in Dates
    <3>1. Dated(start) /\ Dated(PL!Today)
        BY <1>0, PeriodHasToday, TodayIs DEF PlTypes
    <3> QED
        BY <3>1, NumberIs DEF Dates, Dated, Cal
  <2> HIDE DEF start, new
  <2>3. use.cell \in Nat /\ flash.cell \in Nat /\ spUsed.traffic \in Nat
      BY <1>0 DEF PlTypes, Counters
  <2>4. use' \in Counters /\ use'.cell = (IF new THEN 0 ELSE use.cell)
      BY <2>1, <2>2, <2>3 DEF Counters
  <2>5. /\ real' \in [spent : Int, unsaved : Int, lost : Int]
        /\ new => real'.spent = 0 /\ real'.unsaved = 0 /\ real'.lost = 0
      BY <1>0, <2>1 DEF PlTypes, PL!NothingSpent
  <2>6. Counted'
    <3>1. CASE new
        BY <1>0, <2>1, <2>3, <2>4, <2>5, <3>1 DEF Counted
    <3>2. CASE ~new
        BY <1>0, <2>1, <2>4, <3>2 DEF Counted
    <3> QED
        BY <3>1, <3>2
  <2>7. PlTypes'
      BY <1>0, <2>1, <2>4, <2>5 DEF PlTypes, DayOK, PlanOK, Dated
  <2> QED
      BY <2>6, <2>7 DEF PlInv
<1>9. CASE PL!Saves
  <2> DEFINE a == [key |-> "month", val |-> use.month]
             b == [key |-> "day", val |-> use.day]
             c == [key |-> "cell", val |-> <<use.cell, use.cell>>]
  <2>1. saving' = <<a, b, c>> /\ UNCHANGED <<day, plKnown, plan, use, flash, spUsed, real>>
      BY <1>9 DEF PL!Saves
  <2>2. a \in Notes /\ b \in Notes /\ c \in Notes
      BY <1>0 DEF PlTypes, Counters, Notes, Dates
  <2>3. a.key = "month" /\ b.key = "day" /\ c.val[1] = use.cell
      OBVIOUS
  <2> HIDE DEF a, b, c
  <2>4. saving' \in Seq(Notes) /\ Len(saving') = 3 /\ \A i \in 1 .. 3 : saving'[i] \in {a, b, c}
      BY <2>1, <2>2
  <2>5. Counted'
      BY <1>0, <2>1, <2>3, <2>4 DEF Counted
  <2>6. PlTypes'
      BY <1>0, <2>1, <2>4 DEF PlTypes, DayOK, PlanOK, Dated
  <2> QED
      BY <2>5, <2>6 DEF PlInv
<1>10. CASE PL!Writes
  <2> DEFINE w == Head(saving)
  <2>1. /\ saving # <<>> /\ saving' = Tail(saving)
        /\ flash' = CASE w.key = "month" -> [flash EXCEPT !.month = w.val]
                      [] w.key = "day"   -> [flash EXCEPT !.day = w.val]
                      [] w.key = "cell"  -> [flash EXCEPT !.cell = w.val[1]]
        /\ real' = IF w.key = "cell" THEN [real EXCEPT !.unsaved = use.cell - w.val[1]]
                                     ELSE real
        /\ UNCHANGED <<day, plKnown, plan, use, spUsed>>
      BY <1>10 DEF PL!Writes
  <2>2. w = saving[1] /\ 1 \in 1 .. Len(saving) /\ w \in Notes
      BY <1>0, <2>1 DEF PlTypes
  <2>3. /\ saving' \in Seq(Notes) /\ Len(saving') = Len(saving) - 1 /\ Len(saving) \in Nat
        /\ \A i \in 1 .. Len(saving') : i + 1 \in 1 .. Len(saving) /\ saving'[i] = saving[i + 1]
      BY <1>0, <2>1 DEF PlTypes
  <2>4. \A i \in 1 .. Len(saving') :
           saving'[i].key = "cell" => saving'[i].val[1] <= spUsed.traffic
      BY <1>0, <2>3 DEF Counted
  <2>5. Len(saving') <= 3
      BY <1>0, <2>3 DEF PlTypes
  <2> HIDE DEF w
  <2>6. CASE w.key = "cell"
    <3>1. w.val[1] \in Nat /\ w.val[1] <= spUsed.traffic
        BY <1>0, <2>2, <2>6 DEF Notes, Counted
    <3>2. flash' = [flash EXCEPT !.cell = w.val[1]]
          /\ real' = [real EXCEPT !.unsaved = use.cell - w.val[1]]
        BY <2>1, <2>6
    <3>3. flash' \in Counters /\ flash'.cell = w.val[1]
        BY <1>0, <3>1, <3>2 DEF PlTypes, Counters
    <3>4. use.cell \in Nat /\ use.cell - w.val[1] \in Int
        BY <1>0, <3>1 DEF PlTypes, Counters
    <3>5. /\ real' \in [spent : Int, unsaved : Int, lost : Int]
          /\ real'.unsaved = use.cell - w.val[1] /\ real'.spent = real.spent
          /\ real'.lost = real.lost
        BY <1>0, <3>2, <3>4 DEF PlTypes
    <3>6. Counted'
      <4>1. use'.cell <= spUsed'.traffic /\ flash'.cell <= spUsed'.traffic
          BY <1>0, <2>1, <3>1, <3>3 DEF Counted
      <4>2. real'.spent - use'.cell <= real'.lost
          BY <1>0, <2>1, <3>5 DEF Counted
      <4>3. use'.cell - flash'.cell <= real'.unsaved
        <5>1. use' = use
            BY <2>1
        <5>2. use.cell - w.val[1] = real'.unsaved /\ flash'.cell = w.val[1]
            BY <3>3, <3>5
        <5> QED
            BY <3>4, <5>1, <5>2
      <4> QED
          BY <2>1, <2>4, <4>1, <4>2, <4>3 DEF Counted
    <3>7. PlTypes'
        BY <1>0, <2>1, <2>3, <2>5, <3>3, <3>5 DEF PlTypes, DayOK, PlanOK, Dated
    <3> QED
        BY <3>6, <3>7 DEF PlInv
  <2>7. CASE w.key # "cell"
    <3>1. w.key \in {"month", "day"} /\ w.val \in Dates
        BY <2>2, <2>7 DEF Notes
    <3>2. /\ real' = real
          /\ flash' = [flash EXCEPT !.month = w.val] \/ flash' = [flash EXCEPT !.day = w.val]
        BY <2>1, <2>7, <3>1
    <3>3. flash' \in Counters /\ flash'.cell = flash.cell
        BY <1>0, <3>1, <3>2 DEF PlTypes, Counters
    <3>4. Counted'
        BY <1>0, <2>1, <2>4, <3>2, <3>3 DEF Counted
    <3>5. PlTypes'
        BY <1>0, <2>1, <2>3, <2>5, <3>2, <3>3 DEF PlTypes, DayOK, PlanOK, Dated
    <3> QED
        BY <3>4, <3>5 DEF PlInv
  <2> QED
      BY <2>6, <2>7
<1>11. CASE UNCHANGED pl
    BY <1>0, <1>11 DEF pl, PlInv, PlTypes, Counted, DayOK, PlanOK, Dated
<1> QED
    BY <1>1, <1>2, <1>3, <1>4, <1>5, <1>6, <1>7, <1>8, <1>9, <1>10, <1>11 DEF PL!PlNext

LEMMA PlHolds == PlInv => PL!PlTypeOK /\ PL!TrafficCounted /\ PL!PeriodHoldsToday
<1> SUFFICES ASSUME PlInv PROVE PL!PlTypeOK /\ PL!TrafficCounted /\ PL!PeriodHoldsToday
    OBVIOUS
<1>1. PL!PeriodHoldsToday
    BY PeriodHasToday DEF PlInv, PlTypes
<1>2. PL!TrafficCounted
    BY DEF PlInv, Counted, PL!TrafficCounted
<1>3. use.cell \in 0 .. MaxTraffic /\ flash.cell \in 0 .. MaxTraffic
    BY CalendarAssumption DEF PlInv, PlTypes, Counters, Counted
<1>4. PL!PlTypeOK
    BY <1>3, FirstDayIs DEF PlInv, PlTypes, PlanOK, DayOK, PL!PlTypeOK, PL!FirstDay
<1> QED
    BY <1>1, <1>2, <1>4

-----------------------------------------------------------------------------
(* The receiver: what a role has not sent yet is in todo, and nothing that *)
(* was sent and answered is undone.                                        *)

RamKeys == {"mode", "acc", "rate", "rtcm", "t1005", "raw", "hp", "plan"}
Values == {"off", "asked", "wide", "fixed", "survey", "base", "rover"} \union BOOLEAN
KeySets == {<<a, b>> : a \in RamKeys \union {"other"}, b \in RamKeys \union {"other"}}
Kvs == UNION {[{s[1], s[2]} -> Values] : s \in KeySets}

(* What a rover asks for, and the groups of a base that may have to wait.  *)
Right == [mode |-> "off", hp |-> want.measuring,
          rate |-> IF want.measuring THEN "base" ELSE "rover",
          raw |-> "off", rtcm |-> FALSE, plan |-> module.x20]
RightKeys == {"mode", "hp", "rate", "raw", "rtcm", "plan"}
BaseKvs == {[rate |-> "base"], [rtcm |-> TRUE], [t1005 |-> TRUE, other |-> TRUE], UB!Tmode}

ForPlan(kv) == "plan" \in DOMAIN kv => kv["plan"] = TRUE /\ module.x20
OfRole(g) ==
    /\ g.kept => g.kv \in BaseKvs /\ want.role = "base"
    /\ ForPlan(g.kv)
    /\ want.role = "rover" => \A k \in DOMAIN g.kv : k \in RightKeys /\ g.kv[k] = Right[k]
Groups == {g \in [kv : Kvs, kept : BOOLEAN] : OfRole(g)}
Dropped == {g \in Groups : ~g.kept}
Waiting == [kv : BaseKvs, tries : 0 .. Tries, age : 0 .. MaxAge]
Spent == [bad : Nat, boots : Nat, raw : Nat]

Receiver(r) ==
    /\ r = [ram |-> r.ram, survey |-> r.survey] /\ DOMAIN r.ram = RamKeys
    /\ r.ram["plan"] \in {FALSE, module.x20}

UbTypes ==
    /\ want \in UB!Roles /\ module \in [x20 : BOOLEAN, all : BOOLEAN, weak : BOOLEAN]
    /\ Receiver(rx) /\ todo \in Seq(Groups) /\ pending \in Seq(Waiting) /\ redo \in Seq(Waiting)
    /\ known \in [model : BOOLEAN, plan : BOOLEAN] /\ (known.plan => module.x20)
    /\ round \in 0 .. Period - 1 /\ late \in {"none", "ack", "nak"} /\ ubUsed \in Spent

(* Where the groups of each kind are.                                      *)
UbPlaces ==
    /\ Len(pending) + Len(redo) <= PendingMax
    /\ pc # "groups" => todo \in Seq(Dropped)
    /\ pc \in {"model", "groups", "done"} => redo = <<>>
    /\ pc = "done" => todo = <<>> /\ want.role = "rover"
    /\ want.role = "rover" =>
         pc \in {"model", "groups", "done"} /\ pending = <<>> /\ redo = <<>>
    /\ ubUsed.bad = 0 => late = "none"

(* What a rover needs is there or will be sent.                            *)
OnTheWay ==
    want.role = "rover" /\ pc # "model" /\ ubUsed.bad = 0 =>
      \A k \in RightKeys : rx.ram[k] = Right[k] \/ \E i \in 1 .. Len(todo) : k \in DOMAIN todo[i].kv

UbInv == UbTypes /\ UbPlaces /\ OnTheWay

(* All that is ever sent is a group of one or two keys.                    *)
LEMMA KvsAre ==
    /\ \A k \in RamKeys \union {"other"}, v \in Values : [x \in {k} |-> v] \in Kvs
    /\ BaseKvs \subseteq Kvs
    /\ [plan |-> TRUE] \in Kvs /\ [mode |-> "off"] \in Kvs /\ [rtcm |-> FALSE] \in Kvs
    /\ [raw |-> "off"] \in Kvs /\ [acc |-> "wide"] \in Kvs
    /\ \A b \in BOOLEAN : [hp |-> b] \in Kvs
    /\ [rate |-> "rover"] \in Kvs /\ [rate |-> "base"] \in Kvs
<1>1. ASSUME NEW k \in RamKeys \union {"other"}, NEW v \in Values PROVE [x \in {k} |-> v] \in Kvs
  <2>1. <<k, k>> \in KeySets /\ <<k, k>>[1] = k /\ <<k, k>>[2] = k
    BY DEF KeySets
  <2>2. [x \in {k} |-> v] \in [{k, k} -> Values]
    OBVIOUS
  <2>3. [{<<k, k>>[1], <<k, k>>[2]} -> Values] = [{k, k} -> Values]
    BY <2>1
  <2> QED
    BY <2>1, <2>2, <2>3, Zenon DEF Kvs
<1>2. ASSUME NEW a \in RamKeys \union {"other"}, NEW b \in RamKeys \union {"other"},
             NEW f \in [{a, b} -> Values]
      PROVE  f \in Kvs
  <2>1. <<a, b>> \in KeySets /\ <<a, b>>[1] = a /\ <<a, b>>[2] = b
    BY DEF KeySets
  <2>3. [{<<a, b>>[1], <<a, b>>[2]} -> Values] = [{a, b} -> Values]
    BY <2>1
  <2> QED
    BY <2>1, <2>3, Zenon DEF Kvs
<1>3. ASSUME NEW v \in Values
      PROVE  /\ [mode |-> v] \in Kvs /\ [acc |-> v] \in Kvs /\ [rate |-> v] \in Kvs
             /\ [rtcm |-> v] \in Kvs /\ [raw |-> v] \in Kvs /\ [hp |-> v] \in Kvs
             /\ [plan |-> v] \in Kvs
  <2>1. [mode |-> v] = [x \in {"mode"} |-> v]
    OBVIOUS
  <2>2. [acc |-> v] = [x \in {"acc"} |-> v]
    OBVIOUS
  <2>3. [rate |-> v] = [x \in {"rate"} |-> v]
    OBVIOUS
  <2>4. [rtcm |-> v] = [x \in {"rtcm"} |-> v]
    OBVIOUS
  <2>5. [raw |-> v] = [x \in {"raw"} |-> v]
    OBVIOUS
  <2>6. [hp |-> v] = [x \in {"hp"} |-> v]
    OBVIOUS
  <2>7. [plan |-> v] = [x \in {"plan"} |-> v]
    OBVIOUS
  <2>8. {"mode", "acc", "rate", "rtcm", "raw", "hp", "plan"} \subseteq RamKeys \union {"other"}
    BY DEF RamKeys
  <2>9. \A k \in {"mode", "acc", "rate", "rtcm", "raw", "hp", "plan"} : [x \in {k} |-> v] \in Kvs
    BY <1>1, <2>8
  <2> QED
    BY <2>1, <2>2, <2>3, <2>4, <2>5, <2>6, <2>7, <2>9, Zenon
<1>5. [mode |-> "survey", acc |-> "asked"] \in [{"mode", "acc"} -> Values]
  <2>1. [mode |-> "survey", acc |-> "asked"]
         = [k \in {"mode", "acc"} |-> IF k = "mode" THEN "survey" ELSE "asked"]
    OBVIOUS
  <2> QED
    BY <2>1 DEF Values
<1>6. [t1005 |-> TRUE, other |-> TRUE] \in [{"t1005", "other"} -> Values]
  <2>1. ASSUME NEW v \in Values
        PROVE  [t1005 |-> v, other |-> v] \in [{"t1005", "other"} -> Values]
    <3>1. [t1005 |-> v, other |-> v] = [k \in {"t1005", "other"} |-> v]
      OBVIOUS
    <3> QED
      BY <3>1
  <2>2. TRUE \in Values
    BY DEF Values
  <2> QED
    BY <2>1, <2>2
<1>7. [mode |-> "survey", acc |-> "asked"] \in Kvs /\ [t1005 |-> TRUE, other |-> TRUE] \in Kvs
  BY <1>2, <1>5, <1>6 DEF RamKeys
<1>8. "off" \in Values /\ "wide" \in Values /\ "rover" \in Values /\ "base" \in Values
      /\ "fixed" \in Values /\ TRUE \in Values /\ FALSE \in Values /\ BOOLEAN \subseteq Values
  BY DEF Values
<1>9. /\ [plan |-> TRUE] \in Kvs /\ [mode |-> "off"] \in Kvs /\ [rtcm |-> FALSE] \in Kvs
      /\ [raw |-> "off"] \in Kvs /\ [acc |-> "wide"] \in Kvs /\ [rtcm |-> TRUE] \in Kvs
      /\ [rate |-> "rover"] \in Kvs /\ [rate |-> "base"] \in Kvs /\ [mode |-> "fixed"] \in Kvs
      /\ \A b \in BOOLEAN : [hp |-> b] \in Kvs
  BY Zenon, <1>3, <1>8
<1>10. BaseKvs \subseteq Kvs
  <2>1. UB!Tmode = [mode |-> "fixed"] \/ UB!Tmode = [mode |-> "survey", acc |-> "asked"]
    BY DEF UB!Tmode
  <2> QED
    BY <2>1, <1>7, <1>9 DEF BaseKvs
<1> QED
  BY <1>1, <1>9, <1>10

(* Of two things at most, SetToSeq makes a sequence.                       *)
LEMMA PairToSeq ==
    ASSUME NEW T, NEW x \in T, NEW y \in T
    PROVE  UB!SetToSeq({x, y}) \in Seq(T)
<1> DEFINE S == {x, y}
<1>1. IsFiniteSet(S) /\ \A U : UB!Cardinality(U) = Cardinality(U)
  <2>1. IsFiniteSet({x} \union {y})
    BY FS_Singleton, FS_AddElement
  <2>2. \A U : UB!Cardinality(U) = Cardinality(U)
    BY Zenon DEF UB!Cardinality, Cardinality
  <2> QED
    BY <2>1, <2>2
<1>2. Cardinality(S) \in Nat /\ \E f \in [1 .. Cardinality(S) -> S] : UB!IsInjective(f)
  <2>1. Cardinality(S) \in Nat /\ ExistsBijection(1 .. Cardinality(S), S)
    BY <1>1, FS_CardinalityType
  <2>2. PICK f \in [1 .. Cardinality(S) -> S] :
          \A a, b \in 1 .. Cardinality(S) : f[a] = f[b] => a = b
    BY <2>1, Zenon DEF ExistsBijection, Bijection, Injection, IsInjective
  <2>3. UB!IsInjective(f)
    BY <2>2 DEF UB!IsInjective
  <2> QED
    BY <2>1, <2>3
<1>3. UB!SetToSeq(S) \in [1 .. Cardinality(S) -> S]
  BY <1>1, <1>2, Zenon DEF UB!SetToSeq
<1>4. UB!SetToSeq(S) \in [1 .. Cardinality(S) -> T]
  BY <1>3
<1>5. ASSUME NEW n \in Nat, NEW f \in [1 .. n -> T] PROVE f \in Seq(T)
  OBVIOUS
<1>6. UB!SetToSeq(S) \in Seq(T)
  <2> HIDE DEF S
  <2>1. Cardinality(S) \in Nat
    BY <1>2
  <2> QED
    BY <2>1, <1>4, <1>5
<1> QED
  BY <1>6

(* A group sent key by key has the keys of that group.                     *)
LEMMA SinglesAre ==
    ASSUME UbTypes, NEW g \in Groups
    PROVE  UB!Singles(g.kv) \in Seq(Dropped)
<1> DEFINE One(k) == [kv |-> [x \in {k} |-> g.kv[k]], kept |-> FALSE]
<1>1. PICK a, b \in RamKeys \union {"other"} : g.kv \in [{a, b} -> Values]
  <2>1. g.kv \in Kvs
    BY DEF Groups
  <2>2. PICK s \in KeySets : g.kv \in [{s[1], s[2]} -> Values]
    BY <2>1, Zenon DEF Kvs
  <2>3. PICK a \in RamKeys \union {"other"}, b \in RamKeys \union {"other"} : s = <<a, b>>
    BY <2>2 DEF KeySets
  <2>4. s[1] = a /\ s[2] = b
    BY <2>3
  <2> QED
    BY <2>2, <2>4
<1>2. DOMAIN g.kv = {a, b} /\ g.kv[a] \in Values /\ g.kv[b] \in Values
  BY <1>1
<1>3. ASSUME NEW k \in {a, b} PROVE One(k) \in Dropped
  <2> DEFINE w == [x \in {k} |-> g.kv[k]]
  <2>1. w \in Kvs /\ DOMAIN w = {k} /\ w[k] = g.kv[k] /\ k \in DOMAIN g.kv
    BY <1>2, KvsAre
  <2>2. OfRole(g)
    BY DEF Groups
  <2> HIDE DEF w
  <2>3. OfRole([kv |-> w, kept |-> FALSE])
    BY <2>1, <2>2 DEF OfRole, ForPlan
  <2>4. [kv |-> w, kept |-> FALSE] \in Dropped
    BY <2>1, <2>3 DEF Groups, Dropped
  <2> QED
    BY <2>4 DEF w
<1>4. {UB!Group([x \in {k} |-> g.kv[k]], FALSE) : k \in DOMAIN g.kv} = {One(a), One(b)}
  BY <1>2 DEF UB!Group
<1>5. UB!SetToSeq({One(a), One(b)}) \in Seq(Dropped)
  <2> HIDE DEF One
  <2> QED
    BY <1>3, PairToSeq
<1> QED
  BY <1>4, <1>5 DEF UB!Singles



(* A step of a role that has not changed has the groups of it.             *)
LEMMA SameRole ==
    ASSUME UNCHANGED <<module, want>>
    PROVE  /\ Right' = Right /\ BaseKvs' = BaseKvs /\ Groups' = Groups /\ Dropped' = Dropped
           /\ Waiting' = Waiting /\ \A kv : ForPlan(kv)' = ForPlan(kv)
<1>1. Right' = Right /\ BaseKvs' = BaseKvs
  BY DEF Right, BaseKvs, UB!Tmode
<1>2. \A g : OfRole(g)' = OfRole(g)
  BY <1>1 DEF OfRole, ForPlan
<1>3. Groups' = Groups
  BY <1>2 DEF Groups
<1> QED
  BY <1>1, <1>3 DEF Dropped, Waiting, ForPlan

(* What the roles send at the boot.                                        *)
LEMMA PlanIs ==
    ASSUME UbTypes
    PROVE  /\ UB!Signals(FALSE) = <<>> /\ UB!Signals(TRUE) \in Seq(Dropped)
           /\ module.x20 => /\ Len(UB!Signals(TRUE)) = 1
                            /\ DOMAIN UB!Signals(TRUE)[1].kv = {"plan"}
<1>1. UB!Signals(FALSE) = <<>> /\ (~module.x20 => UB!Signals(TRUE) = <<>>)
      /\ (module.x20 => UB!Signals(TRUE) = <<UB!PlanGroup>>)
  BY DEF UB!Signals
<1> DEFINE p == [kv |-> [plan |-> TRUE], kept |-> FALSE]
<1>2. UB!PlanGroup = p /\ DOMAIN p.kv = {"plan"} /\ p.kv["plan"] = TRUE /\ ~p.kept
  BY DEF UB!PlanGroup, UB!Group
<1>3. p \in [kv : Kvs, kept : BOOLEAN]
  BY KvsAre
<1> HIDE DEF p
<1>4. ASSUME module.x20 PROVE p \in Dropped
  <2>1. Right["plan"] = TRUE
    BY <1>4 DEF Right, UbTypes
  <2>2. OfRole(p)
    BY <1>2, <1>4, <2>1 DEF OfRole, ForPlan, RightKeys
  <2> QED
    BY <1>2, <1>3, <2>2 DEF Groups, Dropped
<1>5. ASSUME module.x20
      PROVE  /\ UB!Signals(TRUE) \in Seq(Dropped) /\ Len(UB!Signals(TRUE)) = 1
             /\ UB!Signals(TRUE)[1] = p
  <2>1. UB!Signals(TRUE) = <<p>>
    BY <1>1, <1>2, <1>5
  <2>2. <<p>> \in Seq(Dropped) /\ Len(<<p>>) = 1 /\ <<p>>[1] = p
    BY <1>4, <1>5
  <2> QED
    BY <2>1, <2>2
<1>6. ~module.x20 => UB!Signals(TRUE) \in Seq(Dropped)
  BY <1>1, EmptySeq
<1> QED
  BY <1>1, <1>2, <1>5, <1>6

(* A rover sends every key it needs, but for the signals.                  *)
LEMMA RoverGroupsAre ==
    ASSUME UbTypes, want.role = "rover"
    PROVE  /\ UB!RoverGroups \in Seq(Dropped) /\ Len(UB!RoverGroups) = 5
           /\ \A k \in RightKeys \ {"plan"} :
                \E i \in 1 .. 5 : k \in DOMAIN UB!RoverGroups[i].kv
<1> DEFINE rate == IF want.measuring THEN "base" ELSE "rover"
           G(w) == [kv |-> w, kept |-> FALSE]
<1>0. want.measuring \in BOOLEAN
  BY DEF UbTypes, UB!Roles
<1>1. UB!RoverGroups = <<G([mode |-> "off"]), G([hp |-> want.measuring]), G([rate |-> rate]),
                         G([raw |-> "off"]), G([rtcm |-> FALSE])>>
  BY DEF UB!RoverGroups, UB!Group
<1>2. ASSUME NEW w \in Kvs, NEW k \in RightKeys \ {"plan"}, DOMAIN w = {k}, w[k] = Right[k]
      PROVE  G(w) \in Dropped
  <2>1. OfRole(G(w))
    BY <1>2 DEF OfRole, ForPlan
  <2> QED
    BY <2>1 DEF Groups, Dropped
<1>3. /\ Right["mode"] = "off" /\ Right["hp"] = want.measuring /\ Right["rate"] = rate
      /\ Right["raw"] = "off" /\ Right["rtcm"] = FALSE
      /\ {"mode", "hp", "rate", "raw", "rtcm"} = RightKeys \ {"plan"}
  BY DEF Right, RightKeys
<1>4. G([mode |-> "off"]) \in Dropped
  <2>1. [mode |-> "off"] \in Kvs
    BY KvsAre
  <2> QED
    BY <1>2, <1>3, <2>1
<1>5. G([hp |-> want.measuring]) \in Dropped
  <2>1. [hp |-> want.measuring] \in Kvs
    BY <1>0, KvsAre
  <2> QED
    BY <1>2, <1>3, <2>1
<1>6. G([rate |-> rate]) \in Dropped
  <2>1. [rate |-> rate] \in Kvs
    BY KvsAre
  <2> QED
    BY <1>2, <1>3, <2>1
<1>7. G([raw |-> "off"]) \in Dropped
  <2>1. [raw |-> "off"] \in Kvs
    BY KvsAre
  <2> QED
    BY <1>2, <1>3, <2>1
<1>8. G([rtcm |-> FALSE]) \in Dropped
  <2>1. [rtcm |-> FALSE] \in Kvs
    BY KvsAre
  <2> QED
    BY <1>2, <1>3, <2>1
<1>9. ASSUME NEW k \in RightKeys \ {"plan"}
      PROVE  \E i \in 1 .. 5 : k \in DOMAIN UB!RoverGroups[i].kv
  <2>1. k \in {"mode", "hp", "rate", "raw", "rtcm"}
    BY <1>3
  <2>2. /\ "mode" \in DOMAIN UB!RoverGroups[1].kv /\ "hp" \in DOMAIN UB!RoverGroups[2].kv
        /\ "rate" \in DOMAIN UB!RoverGroups[3].kv /\ "raw" \in DOMAIN UB!RoverGroups[4].kv
        /\ "rtcm" \in DOMAIN UB!RoverGroups[5].kv
    BY <1>1
  <2>3. 1 \in 1 .. 5 /\ 2 \in 1 .. 5 /\ 3 \in 1 .. 5 /\ 4 \in 1 .. 5 /\ 5 \in 1 .. 5
    OBVIOUS
  <2> QED
    BY <2>1, <2>2, <2>3, Zenon
<1>10. UB!RoverGroups \in Seq(Dropped) /\ Len(UB!RoverGroups) = 5
  <2> HIDE DEF G, rate
  <2> QED
    BY <1>1, <1>4, <1>5, <1>6, <1>7, <1>8
<1> QED
  BY <1>9, <1>10

(* The groups of a base are those that may wait.                           *)
LEMMA BaseGroupsAre ==
    ASSUME UbTypes, want.role = "base"
    PROVE  UB!BaseGroups \in Seq(Groups)
<1> DEFINE G(w) == [kv |-> w, kept |-> TRUE]
<1>1. UB!BaseGroups = <<G([rate |-> "base"]), G([rtcm |-> TRUE]),
                        G([t1005 |-> TRUE, other |-> TRUE]), G(UB!Tmode)>>
  BY DEF UB!BaseGroups, UB!Group
<1>2. ASSUME NEW w \in BaseKvs PROVE G(w) \in Groups
  <2>1. UB!Tmode = [mode |-> "fixed"] \/ UB!Tmode = [mode |-> "survey", acc |-> "asked"]
    BY DEF UB!Tmode
  <2>2. "plan" \notin DOMAIN w
    BY <1>2, <2>1 DEF BaseKvs
  <2>3. OfRole(G(w))
    BY <1>2, <2>2 DEF OfRole, ForPlan
  <2>4. w \in Kvs
    BY KvsAre
  <2> QED
    BY <2>3, <2>4 DEF Groups
<1>3. /\ G([rate |-> "base"]) \in Groups /\ G([rtcm |-> TRUE]) \in Groups
      /\ G([t1005 |-> TRUE, other |-> TRUE]) \in Groups /\ G(UB!Tmode) \in Groups
  <2>1. /\ [rate |-> "base"] \in BaseKvs /\ [rtcm |-> TRUE] \in BaseKvs
        /\ [t1005 |-> TRUE, other |-> TRUE] \in BaseKvs /\ UB!Tmode \in BaseKvs
    BY DEF BaseKvs
  <2> HIDE DEF G
  <2> QED
    BY <1>2, <2>1, Zenon
<1> HIDE DEF G
<1> QED
  BY <1>1, <1>3

(* What the receiver has after a group that was taken.                     *)
LEMMA TakenIs ==
    ASSUME UbTypes, NEW kv, NEW age, ForPlan(kv)
    PROVE  /\ Receiver(UB!Taken(kv, age))
           /\ \A k \in RamKeys : UB!Taken(kv, age).ram[k]
                                = IF k \in DOMAIN kv THEN kv[k] ELSE rx.ram[k]
<1> DEFINE ram == [k \in DOMAIN rx.ram |-> IF k \in DOMAIN kv THEN kv[k] ELSE rx.ram[k]]
<1>1. PICK s : UB!Taken(kv, age) = [ram |-> ram, survey |-> s]
  BY Zenon DEF UB!Taken
<1>2. DOMAIN rx.ram = RamKeys /\ rx.ram["plan"] \in {FALSE, module.x20}
      /\ module.x20 \in BOOLEAN
  BY DEF UbTypes, Receiver
<1>3. \A k \in RamKeys : ram[k] = IF k \in DOMAIN kv THEN kv[k] ELSE rx.ram[k]
  BY <1>2
<1>4. DOMAIN ram = RamKeys
  BY <1>2
<1> HIDE DEF ram
<1>5. ram["plan"] \in {FALSE, module.x20}
  <2>1. "plan" \in RamKeys
    BY DEF RamKeys
  <2>2. "plan" \in DOMAIN kv => kv["plan"] = module.x20
    BY <1>2 DEF ForPlan
  <2> QED
    BY <1>2, <1>3, <2>1, <2>2
<1>6. UB!Taken(kv, age).ram = ram
      /\ UB!Taken(kv, age) = [ram |-> UB!Taken(kv, age).ram, survey |-> UB!Taken(kv, age).survey]
  BY <1>1
<1> HIDE DEF Receiver
<1>7. Receiver(UB!Taken(kv, age))
  BY <1>4, <1>5, <1>6 DEF Receiver
<1> QED
  BY <1>3, <1>6, <1>7

(* A command: with every answer read, the one that came says what was      *)
(* done.                                                                   *)
LEMMA ValsetDoes ==
    ASSUME UbTypes, ubUsed.bad = 0 => late = "none", NEW kv, NEW answer, ForPlan(kv),
           UNCHANGED <<module, want>>, UB!Valset(kv, answer)
    PROVE  /\ Receiver(rx)' /\ late' \in {"none", "ack", "nak"} /\ ubUsed' \in Spent
           /\ ubUsed'.bad = 0 => late' = "none" /\ ubUsed.bad = 0
           /\ \A k \in RamKeys : rx'.ram[k] = rx.ram[k] \/ (k \in DOMAIN kv /\ rx'.ram[k] = kv[k])
           /\ ubUsed'.bad = 0 /\ "other" \notin DOMAIN kv =>
                answer = "ack" /\ \A k \in RamKeys : k \in DOMAIN kv => rx'.ram[k] = kv[k]
<1> DEFINE Took == rx' = rx \/ \E age \in {0, 1} : rx' = UB!Taken(kv, age)
<1>1. Took => /\ Receiver(rx)'
              /\ \A k \in RamKeys : rx'.ram[k] = rx.ram[k]
                                     \/ (k \in DOMAIN kv /\ rx'.ram[k] = kv[k])
  <2>1. CASE rx' = rx
    BY <2>1 DEF UbTypes, Receiver
  <2>2. CASE \E age \in {0, 1} : rx' = UB!Taken(kv, age)
    <3>1. PICK age : rx' = UB!Taken(kv, age)
      BY <2>2
    <3>2. Receiver(rx)' = Receiver(UB!Taken(kv, age))
      BY <3>1 DEF Receiver
    <3> QED
      BY <3>1, <3>2, TakenIs
  <2> QED
    BY <2>1, <2>2
<1>2. UB!Spends => ubUsed' \in Spent /\ ubUsed'.bad # 0
  BY DEF UB!Spends, UbTypes, Spent
<1>3. CASE UB!Unanswered(kv)
  <2>1. UB!Spends /\ Took
    BY <1>3 DEF UB!Unanswered
  <2>2. late' \in {"none", "ack", "nak"}
    BY <1>3 DEF UB!Unanswered, UB!Verdict
  <2> QED
    BY <1>1, <1>2, <2>1, <2>2, Zenon
<1>4. CASE UB!Answered(kv, answer)
  <2>1. late' = "none"
    BY <1>4 DEF UB!Answered
  <2>2. CASE /\ answer \in {UB!Verdict(kv)} \union ({late} \ {"none"})
             /\ rx' = UB!Obeyed(kv) /\ UNCHANGED ubUsed
    <3>1. Took
      BY <2>2 DEF UB!Obeyed
    <3>2. ASSUME ubUsed'.bad = 0, "other" \notin DOMAIN kv
          PROVE  answer = "ack" /\ rx' = UB!Taken(kv, 0)
      BY <2>2, <3>2 DEF UB!Obeyed, UB!Verdict, UB!Accepts
    <3>3. ubUsed'.bad = 0 /\ "other" \notin DOMAIN kv =>
            answer = "ack" /\ \A k \in RamKeys : k \in DOMAIN kv => rx'.ram[k] = kv[k]
      BY <3>2, TakenIs
    <3>4. ubUsed' \in Spent /\ (ubUsed'.bad = 0 => ubUsed.bad = 0)
      BY <2>2 DEF UbTypes
    <3> QED
      BY <1>1, <2>1, <3>1, <3>3, <3>4, Zenon
  <2>3. CASE UB!Spends /\ UNCHANGED rx
    <3>1. Took
      BY <2>3
    <3> QED
      BY <1>1, <1>2, <2>1, <2>3, <3>1, Zenon
  <2> QED
    BY <1>4, <2>2, <2>3 DEF UB!Answered
<1> QED
  BY <1>3, <1>4 DEF UB!Valset

(* Nothing was sent yet.                                                   *)
LEMMA UbInitInv == UB!UbxInit => UbInv
<1> SUFFICES ASSUME UB!UbxInit PROVE UbInv
  OBVIOUS
<1>1. /\ want \in UB!Roles /\ module \in [x20 : BOOLEAN, all : BOOLEAN, weak : BOOLEAN]
      /\ known = [model |-> FALSE, plan |-> FALSE] /\ round = 0 /\ late = "none"
      /\ ubUsed = [bad |-> 0, boots |-> 0, raw |-> 0] /\ pc = "model"
      /\ todo = <<>> /\ pending = <<>> /\ redo = <<>>
      /\ rx = [ram |-> UB!Factory, survey |-> UB!NoSurvey]
  BY DEF UB!UbxInit
<1>2. Receiver(rx)
  BY <1>1 DEF Receiver, UB!Factory, RamKeys
<1>3. \A S : <<>> \in Seq(S)
  BY EmptySeq
<1>4. UbTypes
  BY <1>1, <1>2, <1>3, ReceiverAssumption DEF UbTypes, Spent
<1>5. Len(pending) + Len(redo) <= PendingMax
  BY <1>1, ReceiverAssumption
<1> QED
  BY <1>1, <1>3, <1>4, <1>5 DEF UbInv, UbPlaces, OnTheWay

(* A step of svin_poll_task.                                               *)
LEMMA PollStep ==
    ASSUME UbInv, want.role = "base", UNCHANGED <<module, want>>, Receiver(rx)',
           todo' \in Seq(Dropped), pending' \in Seq(Waiting), redo' \in Seq(Waiting),
           Len(pending') + Len(redo') <= PendingMax,
           known' \in [model : BOOLEAN, plan : BOOLEAN], known'.plan => module.x20,
           round' \in 0 .. Period - 1, late' \in {"none", "ack", "nak"}, ubUsed' \in Spent,
           ubUsed'.bad = 0 => late' = "none", pc' \notin {"model", "groups", "done"}
    PROVE  UbInv'
<1>1. Groups' = Groups /\ Dropped' = Dropped /\ Waiting' = Waiting
  BY SameRole
<1>2. todo' \in Seq(Groups)
  <2>1. Dropped \subseteq Groups
    BY DEF Dropped
  <2> QED
    BY <2>1, SeqMonotonic
<1>3. UbTypes'
  BY <1>1, <1>2 DEF UbInv, UbTypes
<1>4. UbPlaces'
  BY <1>1 DEF UbPlaces
<1> QED
  BY <1>3, <1>4 DEF UbInv, OnTheWay

(* A group that was answered is done with; one key of it that a rover      *)
(* needs is in the receiver, or was in the group.                          *)
LEMMA SendsGroupStep == UbInv /\ UB!SendsGroup => UbInv'
<1> SUFFICES ASSUME UbInv, UB!SendsGroup PROVE UbInv'
  OBVIOUS
<1> DEFINE g == Head(todo)
           more == DOMAIN g.kv \notin {{k} : k \in DOMAIN g.kv}
<1>1. UbTypes /\ UbPlaces /\ (ubUsed.bad = 0 => late = "none")
  BY DEF UbInv, UbPlaces
<1>2. /\ todo # <<>> /\ UNCHANGED <<module, want, pc, redo, known, round>>
  BY DEF UB!SendsGroup
<1>3. PICK answer \in {"ack", "nak", "none"} :
        /\ UB!Valset(g.kv, answer)
        /\ pending' = (IF answer = "none" /\ g.kept THEN UB!Kept(g.kv) ELSE pending)
        /\ todo' = (IF answer = "nak" /\ more THEN UB!Singles(g.kv) ELSE <<>>) \o Tail(todo)
  BY DEF UB!SendsGroup
<1>4. /\ g \in Groups /\ Tail(todo) \in Seq(Groups) /\ Len(Tail(todo)) = Len(todo) - 1
      /\ (\A i \in 1 .. Len(Tail(todo)) : Tail(todo)[i] = todo[i + 1]) /\ Len(todo) \in Nat \ {0}
      /\ g = todo[1]
      /\ pc # "groups" => g \in Dropped /\ Tail(todo) \in Seq(Dropped)
  <2>1. g \in Groups /\ Tail(todo) \in Seq(Groups) /\ Len(Tail(todo)) = Len(todo) - 1
        /\ (\A i \in 1 .. Len(Tail(todo)) : Tail(todo)[i] = todo[i + 1])
    BY <1>1, <1>2, HeadTailProperties DEF UbTypes
  <2>2. Len(todo) \in Nat \ {0} /\ g = todo[1]
    BY <1>1, <1>2 DEF UbTypes
  <2>3. pc # "groups" => g \in Dropped /\ Tail(todo) \in Seq(Dropped)
    BY <1>1, <1>2, HeadTailProperties DEF UbPlaces
  <2> QED
    BY <2>1, <2>2, <2>3
<1>5. OfRole(g) /\ ForPlan(g.kv) /\ g.kept \in BOOLEAN
  BY <1>4 DEF Groups, OfRole
<1>6. /\ Groups' = Groups /\ Dropped' = Dropped /\ Waiting' = Waiting /\ Right' = Right
  BY <1>2, SameRole
<1> HIDE DEF g
<1>7. /\ Receiver(rx)' /\ late' \in {"none", "ack", "nak"} /\ ubUsed' \in Spent
      /\ ubUsed'.bad = 0 => late' = "none" /\ ubUsed.bad = 0
      /\ \A k \in RamKeys : rx'.ram[k] = rx.ram[k] \/ (k \in DOMAIN g.kv /\ rx'.ram[k] = g.kv[k])
      /\ ubUsed'.bad = 0 /\ "other" \notin DOMAIN g.kv =>
           answer = "ack" /\ \A k \in RamKeys : k \in DOMAIN g.kv => rx'.ram[k] = g.kv[k]
  BY <1>1, <1>2, <1>3, <1>5, ValsetDoes
<1> DEFINE s == IF answer = "nak" /\ more THEN UB!Singles(g.kv) ELSE <<>>
<1>8. s \in Seq(Dropped) /\ s \in Seq(Groups) /\ todo' = s \o Tail(todo)
  <2>1. UB!Singles(g.kv) \in Seq(Dropped)
    BY <1>1, <1>4, SinglesAre
  <2>2. <<>> \in Seq(Dropped)
    BY EmptySeq
  <2>3. s \in Seq(Dropped)
    BY <2>1, <2>2
  <2>4. Dropped \subseteq Groups
    BY DEF Dropped
  <2> HIDE DEF s
  <2>5. s \in Seq(Groups)
    BY <2>3, <2>4, SeqMonotonic
  <2> QED
    BY <2>3, <2>5, <1>3 DEF s
<1>9. todo' \in Seq(Groups) /\ (pc # "groups" => todo' \in Seq(Dropped))
  <2> HIDE DEF s
  <2> QED
    BY <1>4, <1>8, ConcatProperties
<1>10. /\ pending' \in Seq(Waiting) /\ Len(pending') + Len(redo) <= PendingMax
       /\ want.role = "rover" => pending' = pending
  <2>1. pending \in Seq(Waiting) /\ Len(pending) + Len(redo) <= PendingMax
        /\ Len(pending) \in Nat /\ Len(redo) \in Nat
    BY <1>1 DEF UbTypes, UbPlaces
  <2>2. CASE ~(answer = "none" /\ g.kept)
    BY <1>3, <2>1, <2>2
  <2>3. CASE answer = "none" /\ g.kept
    <3>1. pc = "groups" /\ g.kv \in BaseKvs /\ want.role = "base"
      BY <1>4, <1>5, <2>3 DEF Dropped, OfRole
    <3>2. redo = <<>> /\ Len(redo) = 0
      BY <1>1, <3>1 DEF UbPlaces
    <3> DEFINE w == [kv |-> g.kv, tries |-> 0, age |-> 0]
    <3>3. w \in Waiting
      BY <3>1, ReceiverAssumption DEF Waiting
    <3>4. pending' = (IF Len(pending) < PendingMax THEN Append(pending, w) ELSE pending)
      BY <1>3, <2>3 DEF UB!Kept
    <3> HIDE DEF w
    <3>5. Append(pending, w) \in Seq(Waiting) /\ Len(Append(pending, w)) = Len(pending) + 1
      BY <2>1, <3>3
    <3> QED
      BY <2>1, <3>1, <3>2, <3>4, <3>5, ReceiverAssumption
  <2> QED
    BY <2>2, <2>3
<1>11. UbTypes'
  BY <1>1, <1>2, <1>6, <1>7, <1>9, <1>10 DEF UbTypes
<1>12. UbPlaces'
  <2>1. pc # "done"
    BY <1>1, <1>2 DEF UbPlaces
  <2> QED
    BY <1>1, <1>2, <1>6, <1>7, <1>9, <1>10, <2>1 DEF UbPlaces
<1>13. OnTheWay'
  <2> SUFFICES ASSUME want.role = "rover", pc # "model", ubUsed'.bad = 0, NEW k \in RightKeys
               PROVE  rx'.ram[k] = Right[k] \/ \E i \in 1 .. Len(todo') : k \in DOMAIN todo'[i].kv
    BY <1>2, <1>6 DEF OnTheWay
  <2>1. k \in RamKeys /\ "other" \notin RightKeys
    BY DEF RightKeys, RamKeys
  <2>2. \A x \in DOMAIN g.kv : x \in RightKeys /\ g.kv[x] = Right[x]
    BY <1>5 DEF OfRole
  <2>3. answer = "ack" /\ (k \in DOMAIN g.kv => rx'.ram[k] = Right[k])
    BY <1>7, <2>1, <2>2
  <2>4. rx.ram[k] = Right[k] \/ \E i \in 1 .. Len(todo) : k \in DOMAIN todo[i].kv
    BY <1>7 DEF UbInv, OnTheWay
  <2>5. todo' = Tail(todo)
    <3>1. s = <<>>
      BY <2>3
    <3> HIDE DEF s
    <3> QED
      BY <3>1, <1>4, <1>8, ConcatEmptySeq
  <2>6. CASE k \in DOMAIN g.kv
    BY <2>3, <2>6
  <2>7. CASE k \notin DOMAIN g.kv /\ rx.ram[k] = Right[k]
    BY <1>7, <2>1, <2>7
  <2>8. CASE k \notin DOMAIN g.kv /\ \E i \in 1 .. Len(todo) : k \in DOMAIN todo[i].kv
    <3>1. PICK i \in 1 .. Len(todo) : k \in DOMAIN todo[i].kv
      BY <2>8
    <3>2. i # 1
      BY <3>1, <2>8, <1>4
    <3>3. i - 1 \in 1 .. Len(Tail(todo)) /\ Tail(todo)[i - 1] = todo[(i - 1) + 1]
      BY <3>1, <3>2, <1>4
    <3>4. (i - 1) + 1 = i
      OBVIOUS
    <3> QED
      BY <2>5, <3>1, <3>3, <3>4
  <2> QED
    BY <2>4, <2>6, <2>7, <2>8
<1> QED
  BY <1>11, <1>12, <1>13 DEF UbInv

(* The boot: with every answer read, the signals are among what is sent.   *)
LEMMA WaitsModelStep == UbInv /\ UB!WaitsModel => UbInv'
<1> SUFFICES ASSUME UbInv, UB!WaitsModel PROVE UbInv'
  OBVIOUS
<1>1. UbTypes /\ UbPlaces
  BY DEF UbInv
<1>2. PICK got \in BOOLEAN :
        /\ UB!PollsModel(got)
        /\ known' = [model |-> got, plan |-> got /\ module.x20]
        /\ todo' = UB!Signals(got) \o
                   (IF want.role = "base" THEN UB!BaseGroups ELSE UB!RoverGroups)
  BY DEF UB!WaitsModel
<1>3. /\ pc = "model" /\ pc' = "groups"
      /\ UNCHANGED <<rx, module, want, pending, redo, round, late>>
  BY DEF UB!WaitsModel
<1>4. ubUsed' \in Spent /\ (ubUsed'.bad = 0 => ubUsed.bad = 0 /\ got)
  BY <1>1, <1>2 DEF UB!PollsModel, UB!Spends, UbTypes, Spent
<1>5. /\ Groups' = Groups /\ Dropped' = Dropped /\ Waiting' = Waiting /\ Right' = Right
  BY <1>3, SameRole
<1> DEFINE s == UB!Signals(got)
           t == IF want.role = "base" THEN UB!BaseGroups ELSE UB!RoverGroups
<1>6. Dropped \subseteq Groups
  BY DEF Dropped
<1>7. s \in Seq(Groups) /\ (module.x20 /\ got => Len(s) = 1 /\ DOMAIN s[1].kv = {"plan"})
  <2>1. s \in Seq(Dropped)
    BY <1>1, PlanIs, EmptySeq
  <2>2. got = TRUE \/ got = FALSE
    OBVIOUS
  <2> QED
    BY <1>1, <1>6, <2>1, <2>2, PlanIs, SeqMonotonic
<1>8. t \in Seq(Groups)
  <2>1. want.role \in {"base", "rover"}
    BY <1>1 DEF UbTypes, UB!Roles
  <2> QED
    BY <1>1, <1>6, <2>1, BaseGroupsAre, RoverGroupsAre, SeqMonotonic
<1>9. todo' = s \o t
  BY <1>2
<1> HIDE DEF s
<1>10. /\ todo' \in Seq(Groups) /\ Len(todo') = Len(s) + Len(t) /\ Len(s) \in Nat /\ Len(t) \in Nat
       /\ \A i \in 1 .. Len(s) + Len(t) : todo'[i] = IF i <= Len(s) THEN s[i] ELSE t[i - Len(s)]
  <2> HIDE DEF t
  <2>1. Len(s) \in Nat /\ Len(t) \in Nat
    BY <1>7, <1>8
  <2> QED
    BY <1>7, <1>8, <1>9, <2>1, ConcatProperties
<1>11. UbTypes'
  <2>1. known' \in [model : BOOLEAN, plan : BOOLEAN] /\ (known'.plan => module.x20)
    BY <1>1, <1>2 DEF UbTypes
  <2>2. Receiver(rx)'
    BY <1>1, <1>3 DEF UbTypes, Receiver
  <2> QED
    BY <1>1, <1>3, <1>4, <1>5, <1>10, <2>1, <2>2 DEF UbTypes
<1>12. UbPlaces'
  BY <1>1, <1>3, <1>4, <1>5 DEF UbPlaces
<1>13. OnTheWay'
  <2> SUFFICES ASSUME want.role = "rover", ubUsed'.bad = 0, NEW k \in RightKeys
               PROVE  rx'.ram[k] = Right[k] \/ \E i \in 1 .. Len(todo') : k \in DOMAIN todo'[i].kv
    BY <1>3, <1>5 DEF OnTheWay
  <2>1. t = UB!RoverGroups /\ Len(t) = 5
    BY <1>1, RoverGroupsAre
  <2>2. CASE k = "plan" /\ module.x20
    <3>1. Len(s) = 1 /\ DOMAIN s[1].kv = {"plan"}
      BY <1>4, <1>7, <2>2
    <3> HIDE DEF t
    <3>2. 1 \in 1 .. Len(todo') /\ todo'[1] = s[1]
      BY <1>10, <3>1
    <3> QED
      BY <2>2, <3>1, <3>2
  <2>3. CASE k = "plan" /\ ~module.x20
    BY <1>1, <1>3, <2>3 DEF UbTypes, Receiver, Right
  <2>4. CASE k # "plan"
    <3>1. PICK i \in 1 .. 5 : k \in DOMAIN t[i].kv
      BY <1>1, <2>1, <2>4, RoverGroupsAre
    <3> HIDE DEF t
    <3>2. Len(s) + i \in 1 .. Len(todo') /\ todo'[Len(s) + i] = t[i]
      <4>1. /\ Len(s) + i \in 1 .. Len(s) + Len(t) /\ ~(Len(s) + i <= Len(s))
            /\ (Len(s) + i) - Len(s) = i
        BY <1>10, <2>1
      <4> QED
        BY <1>10, <4>1
    <3> QED
      BY <3>1, <3>2
  <2> QED
    BY <2>2, <2>3, <2>4
<1> QED
  BY <1>11, <1>12, <1>13 DEF UbInv

(* What stays between two rounds.                                          *)
LEMMA Polling ==
    ASSUME UbInv, pc \notin {"model", "groups", "done"}
    PROVE  /\ want.role = "base" /\ todo \in Seq(Dropped) /\ (ubUsed.bad = 0 => late = "none")
           /\ Len(pending) + Len(redo) <= PendingMax /\ Len(pending) \in Nat /\ Len(redo) \in Nat
<1>1. UbTypes /\ UbPlaces
  BY DEF UbInv
<1>2. want.role = "base" /\ todo \in Seq(Dropped) /\ (ubUsed.bad = 0 => late = "none")
      /\ Len(pending) + Len(redo) <= PendingMax
  BY <1>1 DEF UbPlaces, UbTypes, UB!Roles
<1>3. Len(pending) \in Nat /\ Len(redo) \in Nat
  BY <1>1, LenProperties DEF UbTypes
<1> QED
  BY <1>2, <1>3

(* A group in wait goes back to the end of the list, or is dropped.        *)
LEMMA RetriesOneStep == UbInv /\ UB!RetriesOne => UbInv'
<1> SUFFICES ASSUME UbInv, UB!RetriesOne PROVE UbInv'
  OBVIOUS
<1> DEFINE p == Head(redo)
           w == [p EXCEPT !.tries = @ + 1]
<1>1. /\ redo # <<>> /\ todo = <<>> /\ redo' = Tail(redo)
      /\ UNCHANGED <<module, want, pc, known, round>>
  BY DEF UB!RetriesOne
<1>2. UbTypes /\ pc \notin {"model", "groups", "done"}
  BY <1>1 DEF UbInv, UbPlaces
<1>3. /\ p \in Waiting /\ redo' \in Seq(Waiting) /\ Len(redo') = Len(redo) - 1
  BY <1>1, <1>2, HeadTailProperties DEF UbTypes
<1>4. ForPlan(p.kv) /\ p.kv \in BaseKvs
  <2>1. p.kv \in BaseKvs
    BY <1>3 DEF Waiting
  <2>2. UB!Tmode = [mode |-> "fixed"] \/ UB!Tmode = [mode |-> "survey", acc |-> "asked"]
    BY DEF UB!Tmode
  <2> HIDE DEF p
  <2> QED
    BY <2>1, <2>2 DEF ForPlan, BaseKvs
<1>5. CASE UNCHANGED <<rx, late, ubUsed, pending, todo>>
  <2>1. Receiver(rx)'
    BY <1>1, <1>2, <1>5 DEF UbTypes, Receiver
  <2>2. Len(pending') + Len(redo') <= PendingMax
    BY <1>2, <1>3, <1>5, Polling, ReceiverAssumption
  <2>3. /\ pending' \in Seq(Waiting) /\ late' \in {"none", "ack", "nak"} /\ ubUsed' \in Spent
        /\ todo' \in Seq(Dropped) /\ (ubUsed'.bad = 0 => late' = "none") /\ want.role = "base"
    BY <1>2, <1>5, Polling DEF UbTypes
  <2> QED
    BY <1>1, <1>2, <1>3, <2>1, <2>2, <2>3, PollStep DEF UbTypes
<1>6. ASSUME NEW answer \in {"ack", "nak", "none"}, p.tries < Tries, UB!Valset(p.kv, answer),
             pending' = (IF answer = "none" THEN Append(pending, w) ELSE pending),
             todo' = (IF answer = "nak" THEN <<UB!Group(p.kv, FALSE)>> ELSE <<>>)
      PROVE  UbInv'
  <2>1. /\ Receiver(rx)' /\ late' \in {"none", "ack", "nak"} /\ ubUsed' \in Spent
        /\ ubUsed'.bad = 0 => late' = "none"
    BY <1>1, <1>2, <1>4, <1>6, Polling, ValsetDoes
  <2>2. w \in Waiting
    BY <1>3, <1>6, ReceiverAssumption DEF Waiting
  <2> HIDE DEF w
  <2>3. pending' \in Seq(Waiting) /\ Len(pending') <= Len(pending) + 1 /\ Len(pending') \in Nat
    BY <1>2, <1>6, <2>2 DEF UbTypes
  <2>4. todo' \in Seq(Dropped)
    <3> DEFINE h == [kv |-> p.kv, kept |-> FALSE]
    <3>1. OfRole(h)
      BY <1>2, <1>4, Polling DEF OfRole
    <3>2. h \in Dropped
      BY <1>4, <3>1, KvsAre DEF Groups, Dropped
    <3>3. todo' = <<h>> \/ todo' = <<>>
      BY <1>6 DEF UB!Group
    <3> HIDE DEF h
    <3>4. <<h>> \in Seq(Dropped) /\ <<>> \in Seq(Dropped)
      BY <3>2
    <3> QED
      BY <3>3, <3>4
  <2>5. Len(pending') + Len(redo') <= PendingMax
    BY <1>2, <1>3, <2>3, Polling, ReceiverAssumption
  <2> QED
    BY <1>1, <1>2, <1>3, <2>1, <2>3, <2>4, <2>5, Polling, PollStep DEF UbTypes
<1>7. CASE UB!Begun(p) \/ p.tries >= Tries
  <2>1. UNCHANGED <<UB!wire, pending, todo>>
    BY <1>7, Zenon DEF UB!RetriesOne
  <2> QED
    BY <1>5, <2>1 DEF UB!wire
<1>8. CASE ~(UB!Begun(p) \/ p.tries >= Tries)
  <2>1. \E answer \in {"ack", "nak", "none"} :
          /\ UB!Valset(p.kv, answer)
          /\ pending' = (IF answer = "none" THEN Append(pending, w) ELSE pending)
          /\ todo' = (IF answer = "nak" THEN <<UB!Group(p.kv, FALSE)>> ELSE <<>>)
    BY <1>8, Zenon DEF UB!RetriesOne
  <2>2. p.tries \in Int
    BY <1>3 DEF Waiting
  <2>3. p.tries < Tries
    <3> HIDE DEF p
    <3> QED
      BY <1>8, <2>2, ReceiverAssumption
  <2> QED
    BY <1>6, <2>1, <2>3, Zenon
<1> QED
  BY <1>7, <1>8

(* Every step of the receiver and of its task.                             *)
LEMMA UbStep == UbInv /\ [UB!UbxNext]_ub => UbInv'
<1> SUFFICES ASSUME UbInv, [UB!UbxNext]_ub PROVE UbInv'
  OBVIOUS
<1>0. UbTypes /\ UbPlaces /\ Receiver(rx) /\ Dropped \subseteq Groups
  BY DEF UbInv, UbTypes, Dropped
<1>1. CASE UNCHANGED ub
  <2>1. UNCHANGED <<rx, module, want, pc, todo, pending, redo, known, round, late, ubUsed>>
    BY <1>1 DEF ub
  <2>2. Groups' = Groups /\ Dropped' = Dropped /\ Waiting' = Waiting /\ Right' = Right
    BY <2>1, SameRole
  <2>3. Receiver(rx)'
    BY <1>0, <2>1 DEF Receiver
  <2> QED
    BY <1>0, <2>1, <2>2, <2>3 DEF UbInv, UbTypes, UbPlaces, OnTheWay
<1>2. CASE UB!WaitsModel \/ UB!SendsGroup \/ UB!RetriesOne
  BY <1>2, WaitsModelStep, SendsGroupStep, RetriesOneStep
<1>3. CASE UB!Configured \/ UB!RawWanted \/ UB!SurveyEnds
  <2>1. /\ UNCHANGED <<module, want, todo, pending, redo, known, round, late>>
        /\ \/ pc' = pc
           \/ /\ pc = "groups" /\ todo = <<>>
              /\ pc' = (IF want.role = "base" THEN "poll" ELSE "done")
    BY <1>3 DEF UB!Configured, UB!RawWanted, UB!SurveyEnds, UB!wire
  <2>2. Groups' = Groups /\ Dropped' = Dropped /\ Waiting' = Waiting /\ Right' = Right
    BY <2>1, SameRole
  <2>3. ubUsed' \in Spent /\ ubUsed'.bad = ubUsed.bad
    BY <1>0, <1>3 DEF UB!Configured, UB!RawWanted, UB!SurveyEnds, UB!wire, UbTypes, Spent
  <2>4. Receiver(rx)' /\ rx'.ram = rx.ram
    BY <1>0, <1>3, <2>1 DEF UB!Configured, UB!RawWanted, UB!SurveyEnds, UB!wire, Receiver
  <2>5. want.role \in {"base", "rover"} /\ <<>> \in Seq(Dropped)
    BY <1>0, EmptySeq DEF UbTypes, UB!Roles
  <2>6. UbTypes'
    BY <1>0, <2>1, <2>2, <2>3, <2>4 DEF UbTypes
  <2>7. UbPlaces'
    BY <1>0, <2>1, <2>2, <2>3, <2>5 DEF UbPlaces
  <2>8. OnTheWay'
    BY <2>1, <2>2, <2>3, <2>4 DEF UbInv, OnTheWay
  <2> QED
    BY <2>6, <2>7, <2>8 DEF UbInv
<1>4. CASE UB!PollsSurvey \/ UB!AsksModel
  <2>1. /\ pc \in {"poll", "retried"} /\ pc' \in {"relax", "plan"}
        /\ UNCHANGED <<rx, module, want, todo, pending, redo, round, late>>
    BY <1>4 DEF UB!PollsSurvey, UB!AsksModel, UB!At
  <2>2. ubUsed' \in Spent /\ (ubUsed'.bad = 0 => ubUsed.bad = 0)
    BY <1>0, <1>4 DEF UB!PollsSurvey, UB!AsksModel, UB!PollsModel, UB!Spends, UbTypes, Spent
  <2>3. known' \in [model : BOOLEAN, plan : BOOLEAN] /\ (known'.plan => module.x20)
    BY <1>0, <1>4 DEF UB!PollsSurvey, UB!AsksModel, UbTypes
  <2>4. Receiver(rx)'
    BY <1>0, <2>1 DEF Receiver
  <2> QED
    BY <1>0, <2>1, <2>2, <2>3, <2>4, Polling, PollStep DEF UbTypes
<1>5. CASE UB!Relaxes \/ UB!LatePlan
  <2>1. /\ pc \in {"relax", "plan"} /\ pc' \in {"retry", "raw"}
        /\ UNCHANGED <<rx, module, want, pending, redo, round, late, ubUsed>>
    BY <1>5 DEF UB!Relaxes, UB!LatePlan, UB!At, UB!wire
  <2>2. known' \in [model : BOOLEAN, plan : BOOLEAN] /\ (known'.plan => module.x20)
    BY <1>0, <1>5 DEF UB!Relaxes, UB!LatePlan, UbTypes
  <2> DEFINE h == [kv |-> [acc |-> "wide"], kept |-> FALSE]
  <2>3. h \in Dropped
    <3>1. DOMAIN h.kv = {"acc"} /\ h.kept = FALSE /\ want.role = "base"
      BY <2>1, Polling
    <3>2. h \in [kv : Kvs, kept : BOOLEAN]
      BY KvsAre
    <3> HIDE DEF h
    <3> QED
      BY <3>1, <3>2 DEF Groups, Dropped, OfRole, ForPlan
  <2>4. todo' \in Seq(Dropped)
    <3>1. todo' \in {<<h>>, <<>>, UB!Signals(known.model)}
      BY <1>5 DEF UB!Relaxes, UB!LatePlan, UB!Group
    <3>2. known.model \in BOOLEAN
      BY <1>0 DEF UbTypes
    <3>3. UB!Signals(known.model) \in Seq(Dropped)
      BY <1>0, <3>2, PlanIs, EmptySeq
    <3> HIDE DEF h
    <3>4. <<h>> \in Seq(Dropped) /\ <<>> \in Seq(Dropped)
      BY <2>3
    <3> QED
      BY <3>1, <3>3, <3>4
  <2>5. Receiver(rx)'
    BY <1>0, <2>1 DEF Receiver
  <2> QED
    BY <1>0, <2>1, <2>2, <2>4, <2>5, Polling, PollStep DEF UbTypes
<1>6. CASE UB!Retries
  <2>1. /\ pc = "retry" /\ pc' = "retried" /\ redo = <<>>
        /\ UNCHANGED <<rx, module, want, todo, known, round, late, ubUsed>>
        /\ (redo' = pending /\ pending' = <<>>) \/ UNCHANGED <<redo, pending>>
    BY <1>6 DEF UB!Retries, UB!At, UB!wire
  <2>2. Receiver(rx)'
    BY <1>0, <2>1 DEF Receiver
  <2>3. /\ pending' \in Seq(Waiting) /\ redo' \in Seq(Waiting)
        /\ Len(pending') + Len(redo') = Len(pending) + Len(redo)
    <3>1. /\ pending \in Seq(Waiting) /\ redo \in Seq(Waiting) /\ <<>> \in Seq(Waiting)
          /\ Len(<<>>) = 0 /\ Len(pending) \in Nat
      BY <1>0, <2>1, Polling, EmptySeq DEF UbTypes
    <3>2. CASE redo' = pending /\ pending' = <<>>
      BY <2>1, <3>1, <3>2
    <3>3. CASE UNCHANGED <<redo, pending>>
      BY <3>1, <3>3
    <3> QED
      BY <2>1, <3>2, <3>3
  <2> QED
    BY <1>0, <2>1, <2>2, <2>3, Polling, PollStep DEF UbTypes
<1>7. CASE UB!SendsRaw
  <2>1. /\ pc = "raw" /\ pc' = "rest"
        /\ UNCHANGED <<module, want, todo, pending, redo, known, round>>
    BY <1>7 DEF UB!SendsRaw, UB!At
  <2>2. ForPlan([raw |-> raw.want])
    BY DEF ForPlan
  <2>3. UNCHANGED <<rx, late, ubUsed>> \/ \E answer : UB!Valset([raw |-> raw.want], answer)
    BY <1>7, Zenon DEF UB!SendsRaw, UB!wire
  <2>4. /\ Receiver(rx)' /\ late' \in {"none", "ack", "nak"} /\ ubUsed' \in Spent
        /\ ubUsed'.bad = 0 => late' = "none"
    <3>1. CASE UNCHANGED <<rx, late, ubUsed>>
      BY <1>0, <2>1, <3>1, Polling DEF Receiver, UbTypes
    <3>2. CASE \E answer : UB!Valset([raw |-> raw.want], answer)
      BY <1>0, <2>1, <2>2, <3>2, Polling, ValsetDoes
    <3> QED
      BY <2>3, <3>1, <3>2
  <2> QED
    BY <1>0, <2>1, <2>4, Polling, PollStep DEF UbTypes
<1>8. CASE UB!Rests
  <2>1. /\ pc = "rest" /\ pc' = "poll"
        /\ UNCHANGED <<module, want, todo, redo, known, late, ubUsed>>
        /\ round' = (round + 1) % Period
        /\ rx' = (IF rx.survey.st = "run" THEN [rx EXCEPT !.survey.age = UB!Older(@)] ELSE rx)
        /\ pending' = [i \in DOMAIN pending |-> [pending[i] EXCEPT !.age = UB!Older(@)]]
    BY <1>8 DEF UB!Rests, UB!At
  <2>2. Receiver(rx)'
    BY <1>0, <2>1 DEF Receiver
  <2>3. round' \in 0 .. Period - 1
    BY <1>0, <2>1, ReceiverAssumption DEF UbTypes
  <2>4. pending' \in Seq(Waiting) /\ Len(pending') = Len(pending)
    <3>1. pending \in Seq(Waiting) /\ Len(pending) \in Nat /\ DOMAIN pending = 1 .. Len(pending)
      BY <1>0 DEF UbTypes
    <3>2. ASSUME NEW i \in 1 .. Len(pending)
          PROVE  [pending[i] EXCEPT !.age = UB!Older(@)] \in Waiting
      <4>1. pending[i] \in Waiting
        BY <3>1
      <4>2. UB!Older(pending[i].age) \in 0 .. MaxAge
        BY <4>1, ReceiverAssumption DEF UB!Older, Waiting
      <4> QED
        BY <4>1, <4>2 DEF Waiting
    <3>3. pending' \in [1 .. Len(pending) -> Waiting]
      BY <2>1, <3>1, <3>2
    <3>4. ASSUME NEW n \in Nat, NEW f \in [1 .. n -> Waiting] PROVE f \in Seq(Waiting) /\ Len(f) = n
      OBVIOUS
    <3> QED
      BY <3>1, <3>3, <3>4
  <2> QED
    BY <1>0, <2>1, <2>2, <2>3, <2>4, Polling, PollStep DEF UbTypes
<1>9. CASE UB!Restarts
  <2>1. /\ ubUsed' = [ubUsed EXCEPT !.boots = @ + 1, !.raw = 0] /\ want' \in UB!Roles
        /\ pc' = "model" /\ todo' = <<>> /\ pending' = <<>> /\ redo' = <<>>
        /\ known' = [model |-> FALSE, plan |-> FALSE] /\ round' = 0 /\ late' = "none"
        /\ UNCHANGED module
    BY <1>9 DEF UB!Restarts
  <2>2. ubUsed' \in Spent
    <3>1. ubUsed \in Spent
      BY <1>0 DEF UbTypes
    <3>2. ubUsed.bad \in Nat /\ ubUsed.boots + 1 \in Nat
      BY <3>1 DEF Spent
    <3>3. ubUsed' = [bad |-> ubUsed.bad, boots |-> ubUsed.boots + 1, raw |-> 0]
      BY <2>1, <3>1 DEF Spent
    <3> QED
      BY <3>2, <3>3 DEF Spent
  <2>3. Receiver(rx)'
    <3>1. CASE rx' = [ram |-> UB!Factory, survey |-> UB!NoSurvey]
      BY <2>1, <3>1 DEF Receiver, UB!Factory, RamKeys
    <3>2. CASE rx' = [rx EXCEPT !.survey.own = FALSE,
                          !.survey.age = IF rx.survey.st = "run" THEN UB!Older(@) ELSE @]
      <4>1. rx'.ram = rx.ram /\ rx' = [ram |-> rx'.ram, survey |-> rx'.survey]
        BY <1>0, <3>2 DEF Receiver
      <4> QED
        BY <1>0, <2>1, <4>1 DEF Receiver
    <3> QED
      BY <1>9, <3>1, <3>2 DEF UB!Restarts
  <2>4. \A S : <<>> \in Seq(S)
    BY EmptySeq
  <2>5. UbTypes'
    BY <1>0, <2>1, <2>2, <2>3, <2>4, ReceiverAssumption DEF UbTypes
  <2> QED
    BY <2>1, <2>4, <2>5, ReceiverAssumption DEF UbInv, UbPlaces, OnTheWay
<1> QED
  BY <1>1, <1>2, <1>3, <1>4, <1>5, <1>6, <1>7, <1>8, <1>9 DEF UB!UbxNext, UB!UbxTask

-----------------------------------------------------------------------------
(* A step of the base is a step of each part, or leaves it alone.          *)
LEMMA StationSteps ==
    ASSUME [StationNext]_stationVars
    PROVE  /\ [BM!BmNext]_bm /\ [SP!SpNext]_sp /\ [UB!UbxNext]_ub /\ [CC!CcNext]_cc
           /\ [CS!CsNext]_cs /\ [PL!PlNext]_pl /\ [ST!StNext]_to
<1>1. CASE UNCHANGED stationVars
  <2>1. UNCHANGED bm /\ UNCHANGED sp /\ UNCHANGED ub /\ UNCHANGED cc /\ UNCHANGED cs
        /\ UNCHANGED pl /\ UNCHANGED to
    BY <1>1 DEF stationVars
  <2> QED
    BY <2>1
<1>2. CASE StationNext
  <2>1. CASE BM!BmNext /\ UNCHANGED <<sp, ub, cc, cs, pl, to>>
    BY <2>1
  <2>2. CASE SP!SpNext /\ UNCHANGED <<bm, ub, cc, cs, pl, to>>
    BY <2>2
  <2>3. CASE UB!UbxNext /\ UNCHANGED <<bm, sp, cc, cs, pl, to>>
    BY <2>3
  <2>4. CASE CC!CcNext /\ UNCHANGED <<bm, sp, ub, cs, pl, to>>
    BY <2>4
  <2>5. CASE CS!CsNext /\ UNCHANGED <<bm, sp, ub, cc, pl, to>>
    BY <2>5
  <2>6. CASE PL!PlNext /\ UNCHANGED <<bm, sp, ub, cc, cs, to>>
    BY <2>6
  <2>7. CASE ST!StNext /\ UNCHANGED <<bm, sp, ub, cc, cs, pl>>
    BY <2>7
  <2> QED
    BY <1>2, <2>1, <2>2, <2>3, <2>4, <2>5, <2>6, <2>7 DEF StationNext
<1> QED
    BY <1>1, <1>2

(* No caster and no rover ever gets half a frame, whatever is lost, cut    *)
(* short, saved or moved, and a rover that is told 200 has a place.        *)
THEOREM WholeFramesHolds == StationSpec => []WholeFrames
<1>1. StationInit => BmInv /\ CcInv /\ CsInv
    BY BmInitInv, CcInitInv, CsInitInv DEF StationInit
<1>2. (BmInv /\ CcInv /\ CsInv) /\ [StationNext]_stationVars => (BmInv /\ CcInv /\ CsInv)'
    BY StationSteps, BmStep, CcStep, CsStep
<1>3. BmInv => BM!BmTypeOK
  <2> SUFFICES ASSUME BmInv PROVE BM!BmTypeOK
    OBVIOUS
  <2>1. acc.elapsed \in 0 .. (Timeout + Warmup + Hours)
    BY MeasureAssumption DEF BmInv, BmTypes, Accs
  <2> QED
    BY <2>1 DEF BmInv, BmTypes, MeasureTasks, BM!BmTypeOK
<1>4. CcInv => CC!CcTypeOK /\ CC!NoHalfFrames
    BY DEF CcInv, CcTypes, Chained, CC!CcTypeOK, CC!NoHalfFrames
<1>5. CsInv => CS!CsTypeOK /\ CS!WholeFramesOnly /\ CS!OkMeansAPlace
    BY DEF CsInv, CsTypes, FeedChained, PlaceKept, CS!CsTypeOK, CS!WholeFramesOnly,
           CS!OkMeansAPlace
<1> QED
    BY <1>1, <1>2, <1>3, <1>4, <1>5, PTL DEF StationSpec, WholeFrames

(* A power cut costs a measure that runs, and that nobody is ending, less  *)
(* than SaveEvery: the safety half of MeasureKept.                         *)
THEOREM CutCostsLittleHolds == StationSpec => BM!CutCostsLittle
<1>1. StationInit => BmInv
    BY BmInitInv DEF StationInit
<1>2. BmInv /\ [StationNext]_stationVars => BmInv'
    BY StationSteps, BmStep
<1>3. BmInv => [BM!PowerCut /\ BM!Running("has") /\ httpd = BM!Idle =>
                  saved.done + SaveEvery > acc.has.done]_(BM!bmVars)
  <2>1. SUFFICES ASSUME BmInv, BM!Running("has"), httpd = BM!Idle
                 PROVE  saved.done + SaveEvery > acc.has.done
    OBVIOUS
  <2>2. Kept(acc, saved) /\ saved.done \in Nat /\ acc.has.done \in Nat
    BY <2>1 DEF BmInv, BmTypes, Accs, Progress
  <2> QED
    BY <2>2, MeasureAssumption DEF Kept
<1> QED
    BY <1>1, <1>2, <1>3, PTL DEF StationSpec, BM!CutCostsLittle

(* An alarm says that the antenna has been away from the position that is  *)
(* the reference, and no ephemeris is of two issues, whatever subframes,   *)
(* epochs and frames are lost and whenever antenna and reference move.     *)
THEOREM AlarmEarnedHolds == StationSpec => []AlarmEarned
<1>1. StationInit => SpInv
    BY SpInitInv DEF StationInit
<1>2. SpInv /\ [StationNext]_stationVars => SpInv'
    BY StationSteps, SpStep
<1>3. SpInv => SP!SpTypeOK /\ SP!EphWhole /\ SP!AlarmEarned
  <2> SUFFICES ASSUME SpInv PROVE SP!SpTypeOK /\ SP!EphWhole /\ SP!AlarmEarned
    OBVIOUS
  <2>1. SpTypes
    BY DEF SpInv
  <2>2. queue \in UNION {[1 .. n -> Frames] : n \in 0 .. QueueMax}
    <3>1. queue \in [1 .. Len(queue) -> Frames] /\ Len(queue) \in 0 .. QueueMax
      BY <2>1 DEF SpTypes
    <3> QED
      BY <3>1
  <2>3. win.far \in 0 .. win.n /\ win.elapsed \in 0 .. Window
    BY <2>1 DEF SpTypes, Windows
  <2>4. SP!AlarmEarned
    BY <2>1, DriftAssumption DEF SpInv, SpTypes, Earned, Verdicts, SP!AlarmEarned
  <2>5. SP!SpTypeOK
    <3>1. verdict.alarm <=> verdict.exceed >= AlarmWindows
      BY <2>1 DEF SpTypes
    <3> QED
      BY <2>2, <2>3, <3>1, Zenon DEF Frames, SP!SpTypeOK
  <2> QED
    BY <2>1, <2>4, <2>5 DEF SpTypes, SP!EphWhole
<1> QED
    BY <1>1, <1>2, <1>3, PTL DEF StationSpec, AlarmEarned

(* What is counted and asked of the SIM is not lost: at worst the traffic  *)
(* since the last save; every accepted request is waiting or done; a card  *)
(* is known only when its arrival was told, wherever the power goes; and   *)
(* today is in the period it is counted in, whatever the plan              *)
(* (sim_plan.c:133-170, data_usage.h:8-10, sim_tools.c:411-437, 507-534).  *)
THEOREM SimAccountedHolds == StationSpec => []SimAccounted
<1>1. StationInit => PlInv /\ StInv
  BY PlInitInv, StInitInv DEF StationInit
<1>2. (PlInv /\ StInv) /\ [StationNext]_stationVars => (PlInv /\ StInv)'
  BY StationSteps, PlStep, StStep
<1>3. StInv => ST!StTypeOK /\ ST!SwapTold /\ ST!NoRequestLost
  <2> SUFFICES ASSUME StInv PROVE ST!StTypeOK /\ ST!SwapTold /\ ST!NoRequestLost
    OBVIOUS
  <2>1. ST!StTypeOK
    BY DEF StInv, StTypes, Holders, ST!StTypeOK, ST!None
  <2>2. ST!SwapTold /\ ST!NoRequestLost
    BY DEF StInv, Announced, Asked, ST!SwapTold, ST!NoRequestLost, ST!None
  <2> QED
    BY <2>1, <2>2
<1> QED
  BY <1>1, <1>2, <1>3, PlHolds, PTL DEF StationSpec, SimAccounted

(* A rover keeps nothing of the base that the receiver was, the commands   *)
(* in wait are a base's and no more than there is room for, whatever the   *)
(* bus loses and whenever the board restarts: the safety half of           *)
(* BaseServes (gnss_ubx.c:750-752, 793-797).                               *)
THEOREM RoverCleanHolds == StationSpec => [](UB!UbxTypeOK /\ UB!RoverClean)
<1>1. StationInit => UbInv
  BY UbInitInv DEF StationInit
<1>2. UbInv => UB!UbxTypeOK
  <2> SUFFICES ASSUME UbInv PROVE UB!UbxTypeOK
    OBVIOUS
  <2>1. UbTypes /\ UbPlaces
    BY DEF UbInv
  <2>2. BaseKvs \subseteq {g.kv : g \in UB!Range(UB!BaseGroups)}
    <3> DEFINE G(w) == [kv |-> w, kept |-> TRUE]
    <3>1. UB!BaseGroups = <<G([rate |-> "base"]), G([rtcm |-> TRUE]),
                            G([t1005 |-> TRUE, other |-> TRUE]), G(UB!Tmode)>>
      BY DEF UB!BaseGroups, UB!Group
    <3>2. ASSUME NEW i \in 1 .. 4 PROVE UB!BaseGroups[i] \in UB!Range(UB!BaseGroups)
      BY <3>1 DEF UB!Range
    <3>3. \A w : G(w).kv = w
      OBVIOUS
    <3>4. \A w \in BaseKvs : G(w) \in UB!Range(UB!BaseGroups)
      <4>1. /\ UB!BaseGroups[1] = G([rate |-> "base"]) /\ UB!BaseGroups[2] = G([rtcm |-> TRUE])
            /\ UB!BaseGroups[3] = G([t1005 |-> TRUE, other |-> TRUE])
            /\ UB!BaseGroups[4] = G(UB!Tmode)
        BY <3>1
      <4>2. 1 \in 1 .. 4 /\ 2 \in 1 .. 4 /\ 3 \in 1 .. 4 /\ 4 \in 1 .. 4
        OBVIOUS
      <4> HIDE DEF G
      <4> QED
        BY <3>2, <4>1, <4>2, Zenon DEF BaseKvs
    <3> QED
      BY <3>3, <3>4
  <2>3. Waiting \subseteq [kv : {g.kv : g \in UB!Range(UB!BaseGroups)}, tries : 0 .. Tries,
                           age : 0 .. MaxAge]
    BY <2>2 DEF Waiting
  <2>4. pending \in Seq([kv : {g.kv : g \in UB!Range(UB!BaseGroups)}, tries : 0 .. Tries,
                         age : 0 .. MaxAge])
    BY <2>1, <2>3, SeqMonotonic DEF UbTypes
  <2>5. Len(pending) <= PendingMax
    BY <2>1, ReceiverAssumption DEF UbTypes, UbPlaces
  <2> QED
    BY <2>1, <2>4, <2>5 DEF UbTypes, UB!UbxTypeOK
<1>3. UbInv => UB!RoverClean
  <2> SUFFICES ASSUME UbInv, pc = "done", ubUsed.bad = 0
               PROVE  /\ rx.ram.mode = "off" /\ rx.ram.hp = want.measuring
                      /\ rx.ram.rate = (IF want.measuring THEN "base" ELSE "rover")
                      /\ rx.ram.raw = "off" /\ ~rx.ram.rtcm /\ rx.ram.plan = module.x20
    BY DEF UB!RoverClean
  <2>1. todo = <<>> /\ want.role = "rover"
    BY DEF UbInv, UbPlaces
  <2>2. \A k \in RightKeys : rx.ram[k] = Right[k]
    BY <2>1 DEF UbInv, OnTheWay
  <2> QED
    BY <2>2 DEF RightKeys, Right
<1>4. UbInv /\ [StationNext]_stationVars => UbInv'
  BY StationSteps, UbStep
<1> QED
  BY <1>1, <1>2, <1>3, <1>4, PTL DEF StationSpec
==============================================================================
