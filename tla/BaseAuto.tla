------------------------------- MODULE BaseAuto -------------------------------
(***************************************************************************)
(* The choice of the base and the exclusions of base_auto.c, as operators  *)
(* without state.  Time is in ticks of the caller: an exclusion holds how  *)
(* many it still lasts, and after its end how long ago it ended.           *)
(***************************************************************************)
EXTENDS Integers, FiniteSets, FiniteSetsExt

CONSTANTS
    Bases,        \* mountpoints of the caster
    Places,       \* where the rover may be
    Dist,         \* Dist[p][b]: kilometres from p to b
    Hysteresis,   \* BASE_AUTO_HYSTERESIS_KM
    Sessions,     \* BASE_AUTO_SILENT_SESSIONS
    BanTime,      \* BASE_AUTO_BAN_S
    BanMax,       \* BASE_AUTO_BAN_MAX_S
    Slots         \* BASE_AUTO_BANS

ASSUME TableAssumption ==
    /\ IsFiniteSet(Bases)
    /\ Dist \in [Places -> [Bases -> Nat]]
    /\ Hysteresis \in Nat
ASSUME BanAssumption ==
    /\ Sessions \in Nat \ {0} /\ Slots \in Nat \ {0}
    /\ BanTime \in Nat \ {0} /\ BanMax \in Nat
    /\ 2 * BanTime <= BanMax /\ BanMax <= 4 * BanTime

NoBase == "no base"

-----------------------------------------------------------------------------
(* Exclusions.  A free slot and an exclusion that ended BanMax ago have the *)
(* same effect, hence one value.  From the third on in a row they last     *)
(* BanMax, so that three strikes stand for any greater count.              *)

Free    == [left |-> -BanMax, strikes |-> 0]
BanType == [left : (1 - BanMax) .. BanMax, strikes : 1 .. 3] \union {Free}

Banned(bans, b) == bans[b].left > 0

Duration(strikes) == IF strikes = 0 THEN BanTime
                     ELSE IF strikes = 1 THEN 2 * BanTime ELSE BanMax

(* An exclusion that still runs is renewed as it was; only one that has     *)
(* ended counts as a strike for the next.                                  *)
Strikes(ban) == IF ban.left > 0 THEN ban.strikes - 1 ELSE ban.strikes

(* Mutant: a base without a slot is added all the same. *)
EvictionsNone(bans, b) == {{}}

(* The slot for b: its own, a free one, or that of the exclusion that ends *)
(* first; bases whose exclusions end together may each be the one.         *)
Evictions(bans, b) ==
    LET held == {o \in Bases : bans[o] # Free}
    IN  IF b \in held \/ Cardinality(held) < Slots THEN {{}}
        ELSE {{o} : o \in {x \in held : \A y \in held : bans[x].left <= bans[y].left}}

(* base_auto_ban_add: the tables it may leave. *)
BanAdd(bans, b) ==
    LET n   == Strikes(bans[b])
        new == [left |-> Duration(n), strikes |-> IF n < 3 THEN n + 1 ELSE n]
    IN  {[o \in Bases |-> IF o = b THEN new ELSE IF o \in out THEN Free ELSE bans[o]] :
            out \in Evictions(bans, b)}

(* base_auto_ban_forgive *)
Forgive(bans, b) == [bans EXCEPT ![b] = Free]

(* One tick. *)
Aged(bans) ==
    [b \in Bases |-> IF bans[b].left <= 1 - BanMax THEN Free
                     ELSE [bans[b] EXCEPT !.left = @ - 1]]

-----------------------------------------------------------------------------
(* base_auto_silent_session: the count of sessions in a row without a     *)
(* byte, and what becomes of the base in use once it is excluded.          *)

SilentCount(silent, base) == 1 + (IF silent.name = base THEN silent.count ELSE 0)

FallbackFree(bans, base, fallback) == base # fallback /\ ~Banned(bans, fallback)

SilentVerdict(before, after, base, fallback) ==
    IF Banned(before, base) THEN "renewed"
    ELSE IF FallbackFree(after, base, fallback) THEN "fallback" ELSE "rechoose"

-----------------------------------------------------------------------------
(* base_auto_choose_ex.  table: the bases listed with coordinates; place:  *)
(* the rover's; rtk: its fix is RTK; calm: has not been for a while.       *)

Nearest(table, place) ==
    CHOOSE b \in table : \A o \in table : Dist[place][b] <= Dist[place][o]

(* Mutant: exclusions are noted and not looked at. *)
UsableAll(table, bans) == table

Usable(table, bans) == {b \in table : ~Banned(bans, b)}

(* The reason for what is done; "wait" also stands for the gain that is    *)
(* below the hysteresis.                                                   *)
Choose(table, place, current, rtk, calm, first, bans) ==
    LET usable  == Usable(table, bans)
        gain    == Dist[place][current] - Dist[place][Nearest(usable, place)]
        hurried == first \/ (current \in Bases /\ Banned(bans, current))
        worth   == calm /\ (current \in usable => gain >= Hysteresis)
    IN  CASE usable = {}                           -> "no candidates"
          [] current \in usable /\ gain <= 0       -> "nearest"
          [] OTHER -> IF rtk THEN "rtk" ELSE IF hurried \/ worth THEN "change" ELSE "wait"
=============================================================================
