----------------------------- MODULE RoverProofs -----------------------------
(***************************************************************************)
(* Proofs about RoverClient and the choice it is built from, for every set *)
(* of bases, table of distances and number of slots: the bases that are    *)
(* chosen exist, and the list of exclusions never outgrows its slots.      *)
(***************************************************************************)
EXTENDS RoverClient, FiniteSetTheorems, WellFoundedInduction, TLAPS

USE TableAssumption, BanAssumption, ClientAssumption

(* There is a nearest base: among finitely many there is one whose nearer  *)
(* bases are the fewest, so Nearest, which base_auto_choose_ex finds with  *)
(* a loop over the table, is defined.                                      *)
LEMMA NearestListed ==
    ASSUME NEW t \in SUBSET Bases, t # {}, NEW p \in Places
    PROVE  Nearest(t, p) \in t /\ \A o \in t : Dist[p][Nearest(t, p)] <= Dist[p][o]
<1> DEFINE Nearer(b) == {o \in Bases : Dist[p][o] < Dist[p][b]}
           T == {Nearer(b) : b \in t}
<1>1. \A b \in Bases : Dist[p][b] \in Nat
    OBVIOUS
<1>2. T \subseteq FiniteSubsetsOf(Bases) /\ T # {}
  <2>1. \A b \in t : Nearer(b) \in SUBSET Bases
    OBVIOUS
  <2>2. \A b \in t : IsFiniteSet(Nearer(b))
    BY <2>1, FS_Subset
  <2>3. \A b \in t : Nearer(b) \in FiniteSubsetsOf(Bases)
    BY <2>1, <2>2 DEF FiniteSubsetsOf
  <2> HIDE DEF Nearer
  <2> QED
    BY <2>3
<1>3. PICK x \in T : \A y \in T : ~ (<<y, x>> \in StrictSubsetOrdering(Bases))
    BY <1>2, FS_StrictSubsetOrderingWellFounded, WFMin
<1>4. PICK b \in t : x = Nearer(b)
    BY <1>3
<1>5. ASSUME NEW o \in t, Dist[p][o] < Dist[p][b] PROVE FALSE
  <2>1. Nearer(o) \subseteq Nearer(b)
    BY <1>1, <1>5
  <2>2. o \in Nearer(b) /\ o \notin Nearer(o)
    BY <1>1, <1>5
  <2>3. <<Nearer(o), Nearer(b)>> \in StrictSubsetOrdering(Bases)
    BY <2>1, <2>2 DEF StrictSubsetOrdering
  <2> QED
    BY <1>3, <1>4, <2>3
<1>6. \A o \in t : Dist[p][b] <= Dist[p][o]
    BY <1>1, <1>5
<1> QED
    BY <1>6 DEF Nearest

(* The base in use is left for another only without an RTK fix from it,    *)
(* for one that is listed and not excluded and, unless the base in use is  *)
(* itself gone or excluded, strictly nearer; but for the first choice the  *)
(* gain is the hysteresis at least (base_auto_choose_ex).                  *)
THEOREM ChangeWorth ==
    ASSUME NEW t \in SUBSET Bases, NEW p \in Places, NEW c \in Bases, NEW bans0,
           NEW rtk \in BOOLEAN, NEW calm \in BOOLEAN, NEW first \in BOOLEAN,
           Choose(t, p, c, rtk, calm, first, bans0) = "change"
    PROVE  LET n == Nearest(Usable(t, bans0), p)
           IN  /\ ~rtk /\ n \in Usable(t, bans0)
               /\ \A o \in Usable(t, bans0) : Dist[p][n] <= Dist[p][o]
               /\ c \in Usable(t, bans0) =>
                    /\ Dist[p][n] < Dist[p][c]
                    /\ ~first => Dist[p][c] - Dist[p][n] >= Hysteresis
<1> DEFINE u == Usable(t, bans0)
           n == Nearest(u, p)
<1>0. Dist[p][c] \in Int /\ (c \in u => Dist[p][n] \in Int)
  <2>1. u \in SUBSET Bases
    BY DEF Usable
  <2>2. c \in u => n \in u
    BY <2>1, NearestListed
  <2> QED
    BY <2>1, <2>2
<1>1. u # {} /\ ~rtk /\ (c \in u => Dist[p][c] - Dist[p][n] > 0)
  <2>1. u # {} /\ ~ (c \in u /\ Dist[p][c] - Dist[p][n] <= 0)
    BY DEF Choose
  <2>2. ~rtk
    BY <2>1 DEF Choose
  <2> QED
    BY <1>0, <2>1, <2>2
<1>2. (c \in u /\ ~first) => Dist[p][c] - Dist[p][n] >= Hysteresis
    BY <1>1 DEF Choose, Usable
<1>3. u \in SUBSET Bases
    BY DEF Usable
<1>4. n \in u /\ \A o \in u : Dist[p][n] <= Dist[p][o]
    BY <1>1, <1>3, NearestListed
<1>5. Dist[p][n] \in Nat /\ Dist[p][c] \in Nat
    BY <1>3, <1>4
<1> HIDE DEF u, n
<1>6. c \in u => Dist[p][n] < Dist[p][c]
    BY <1>1, <1>5
<1> QED
    BY <1>1, <1>2, <1>4, <1>6 DEF u, n

(* Excluding a base keeps the types and evicts one when the list is full.  *)
Held(b) == {o \in Bases : b[o] # Free}
BansOK(b) == b \in [Bases -> BanType] /\ Cardinality(Held(b)) <= Slots

(* How long an exclusion lasts never exceeds the longest one.              *)
LEMMA DurationType ==
    ASSUME NEW n \in 0 .. 3
    PROVE  Duration(n) \in 1 .. BanMax
BY DEF Duration

(* An exclusion that has just been written is never a free slot.           *)
LEMMA NewBan ==
    ASSUME NEW l \in 1 .. BanMax, NEW s \in 1 .. 3
    PROVE  [left |-> l, strikes |-> s] \in BanType /\ [left |-> l, strikes |-> s] # Free
BY DEF BanType, Free

(* A part of a list that fits its slots fits them.                         *)
LEMMA FewerThanSlots ==
    ASSUME NEW S, IsFiniteSet(S), NEW T, T \subseteq S, Cardinality(S) <= Slots
    PROVE  Cardinality(T) <= Slots
<1>1. /\ IsFiniteSet(T) /\ Cardinality(T) <= Cardinality(S)
    BY FS_Subset
<1>2. Cardinality(T) \in Nat /\ Cardinality(S) \in Nat
    BY <1>1, FS_CardinalityType
<1> QED
    BY <1>1, <1>2

(* One more base in a list with a slot left.                               *)
LEMMA OneMore ==
    ASSUME NEW S, IsFiniteSet(S), Cardinality(S) < Slots, NEW x
    PROVE  IsFiniteSet(S \union {x}) /\ Cardinality(S \union {x}) <= Slots
<1>1. /\ IsFiniteSet(S \union {x})
      /\ Cardinality(S \union {x}) = IF x \in S THEN Cardinality(S) ELSE Cardinality(S) + 1
    BY FS_AddElement
<1>2. Cardinality(S) \in Nat
    BY FS_CardinalityType
<1> QED
    BY <1>1, <1>2

(* base_auto_ban_add: an own slot, a free one, or that of the exclusion    *)
(* that ends first.                                                        *)
LEMMA BanAddOK ==
    ASSUME NEW old, BansOK(old), NEW b \in Bases, NEW new \in BanAdd(old, b)
    PROVE  BansOK(new)
<1>1. old \in [Bases -> BanType] /\ IsFiniteSet(Held(old)) /\ Held(old) \subseteq Bases
    BY FS_Subset DEF BansOK, Held
<1>2. Strikes(old[b]) \in 0 .. 3
    BY <1>1 DEF Strikes, BanType, Free
<1> DEFINE n == Strikes(old[b])
           ban == [left |-> Duration(n), strikes |-> IF n < 3 THEN n + 1 ELSE n]
<1>3. ban \in BanType /\ ban # Free
  <2>1. (IF n < 3 THEN n + 1 ELSE n) \in 1 .. 3
    BY <1>2
  <2> QED
    BY <1>2, <2>1, DurationType, NewBan
<1>4. PICK out \in Evictions(old, b) :
          new = [o \in Bases |-> IF o = b THEN ban ELSE IF o \in out THEN Free ELSE old[o]]
    BY DEF BanAdd
<1> HIDE DEF n, ban
<1>5. Free \in BanType
    BY DEF BanType
<1>6. new \in [Bases -> BanType]
    BY <1>1, <1>3, <1>4, <1>5
<1>7. Held(new) \subseteq (Held(old) \ out) \union {b}
    BY <1>3, <1>4, <1>5 DEF Held
<1>8. Cardinality(Held(old)) \in Nat /\ Cardinality(Held(old)) <= Slots
    BY <1>1, FS_CardinalityType DEF BansOK
<1>9. CASE b \in Held(old)
  <2>1. Held(new) \subseteq Held(old)
    BY <1>7, <1>9
  <2> QED
    BY <1>1, <1>6, <1>8, <2>1, FewerThanSlots DEF BansOK
<1>10. CASE b \notin Held(old) /\ Cardinality(Held(old)) < Slots
  <2>1. Held(new) \subseteq Held(old) \union {b}
    BY <1>7
  <2>2. IsFiniteSet(Held(old) \union {b}) /\ Cardinality(Held(old) \union {b}) <= Slots
    BY <1>1, <1>10, OneMore
  <2> QED
    BY <1>6, <2>1, <2>2, FewerThanSlots DEF BansOK
<1>11. CASE b \notin Held(old) /\ ~ (Cardinality(Held(old)) < Slots)
  <2>1. PICK x \in Held(old) : out = {x}
    BY <1>4, <1>11 DEF Evictions, Held
  <2>2. IsFiniteSet(Held(old) \ {x}) /\ Cardinality(Held(old) \ {x}) < Slots
    <3>1. /\ IsFiniteSet(Held(old) \ {x})
          /\ Cardinality(Held(old) \ {x}) = Cardinality(Held(old)) - 1
      BY <1>1, <2>1, FS_RemoveElement
    <3> QED
      BY <1>8, <3>1
  <2>3. /\ IsFiniteSet((Held(old) \ {x}) \union {b})
        /\ Cardinality((Held(old) \ {x}) \union {b}) <= Slots
    BY <2>2, OneMore
  <2>4. Held(new) \subseteq (Held(old) \ {x}) \union {b}
    BY <1>7, <2>1
  <2> QED
    BY <1>6, <2>3, <2>4, FewerThanSlots DEF BansOK
<1> QED
    BY <1>9, <1>10, <1>11

(* Forgiving a base, and the passing of time, only free slots.             *)
LEMMA FewerBans ==
    ASSUME NEW old, BansOK(old), NEW new \in [Bases -> BanType],
           \A b \in Bases : old[b] = Free => new[b] = Free
    PROVE  BansOK(new)
<1>1. Held(new) \subseteq Held(old) /\ IsFiniteSet(Held(old))
    BY FS_Subset DEF Held
<1> QED
    BY <1>1, FewerThanSlots DEF BansOK

(* A base that is forgiven may be chosen at once.                          *)
LEMMA ForgiveOK ==
    ASSUME NEW old, BansOK(old), NEW b \in Bases
    PROVE  BansOK(Forgive(old, b))
<1>1. Free \in BanType /\ old \in [Bases -> BanType]
    BY DEF BanType, BansOK
<1>2. Forgive(old, b) \in [Bases -> BanType]
    BY <1>1 DEF Forgive
<1> QED
    BY <1>1, <1>2, FewerBans DEF Forgive

(* The bans of the bases, a minute later.                                  *)
LEMMA AgedOK ==
    ASSUME NEW old, BansOK(old)
    PROVE  BansOK(Aged(old))
<1>1. Free \in BanType /\ old \in [Bases -> BanType] /\ Free.left <= 1 - BanMax
    BY DEF BanType, BansOK, Free
<1>2. ASSUME NEW b \in Bases PROVE Aged(old)[b] \in BanType
  <2>1. old[b] \in BanType
    BY <1>1
  <2> QED
    BY <1>1, <2>1 DEF Aged, BanType, Free
<1>3. Aged(old) \in [Bases -> BanType]
    BY <1>2 DEF Aged
<1> QED
    BY <1>1, <1>3, FewerBans DEF Aged

-----------------------------------------------------------------------------
(* What the task knows at each step: with which base it is, what the       *)
(* reserve is, and where it stands when it asks the table.                 *)
MaybeBases == Bases \union {NoBase}
Records == [on : BOOLEAN, first : BOOLEAN, check : 0 .. Check, calm : BOOLEAN,
            current : MaybeBases, fallback : MaybeBases,
            rtk : BOOLEAN, pos : Places \union {NoPlace}, got : MaybeBases]

Knows ==
    /\ pc # "top" => cfg.mount \in Bases
    /\ pc \notin {"top", "read"} => a.current \in Bases /\ a.fallback \in Bases
    /\ pc = "table" => a.pos \in Places

(* The operators on the task's record keep its type.                       *)
LEMMA MovedUpdate ==
    ASSUME NEW x \in Records, NEW b \in BOOLEAN, NEW k \in 0 .. Check,
           NEW y, y = [x EXCEPT !.first = b, !.check = k]
    PROVE  y \in Records /\ y.current = x.current /\ y.fallback = x.fallback
BY DEF Records

(* The record of the task after it has read the settings.                  *)
LEMMA SettingsReadType ==
    ASSUME TypeOK, NEW x \in Records
    PROVE  /\ SettingsRead(x) \in Records
           /\ SettingsRead(x).fallback \in Bases /\ SettingsRead(x).current \in Bases
           /\ SettingsRead(x).pos = x.pos
<1>1. saved.mount \in Bases /\ saved.auto \in BOOLEAN
    BY DEF TypeOK
<1> DEFINE anew == (saved.auto /\ ~x.on) \/ saved.mount # x.fallback
<1>2. anew \in BOOLEAN /\ (x.first \/ anew) \in BOOLEAN
    OBVIOUS
<1>3. SettingsRead(x) = [x EXCEPT !.on = saved.auto, !.fallback = saved.mount,
                  !.current = IF @ = NoBase THEN saved.mount ELSE @,
                  !.first = @ \/ anew, !.check = IF anew THEN 0 ELSE @]
    BY DEF SettingsRead
<1>4. /\ (IF anew THEN 0 ELSE x.check) \in 0 .. Check
      /\ (IF x.current = NoBase THEN saved.mount ELSE x.current) \in Bases
    BY <1>1 DEF Records, MaybeBases
<1> DEFINE k == IF anew THEN 0 ELSE x.check
           c == IF x.current = NoBase THEN saved.mount ELSE x.current
           f == x.first \/ anew
<1> DEFINE y == SettingsRead(x)
<1>5. y = [x EXCEPT !.on = saved.auto, !.fallback = saved.mount, !.current = c,
                    !.first = f, !.check = k]
    BY <1>3
<1>6. k \in 0 .. Check /\ c \in Bases /\ f \in BOOLEAN
    BY <1>2, <1>4
<1> HIDE DEF k, c, f, y
<1>7. y \in Records /\ y.fallback = saved.mount /\ y.current = c /\ y.pos = x.pos
    BY <1>1, <1>5, <1>6 DEF Records, MaybeBases
<1> QED
    BY <1>1, <1>6, <1>7 DEF y

(* The same after it has looked at the fix.                                *)
LEMMA SampledType ==
    ASSUME TypeOK, NEW x \in Records
    PROVE  /\ Sampled(x) \in Records /\ Sampled(x).current = x.current
           /\ Sampled(x).fallback = x.fallback
<1>1. (Fix = "rtk") \in BOOLEAN /\ (x.calm /\ Fix # "rtk") \in BOOLEAN
    OBVIOUS
<1>2. (IF Fix = "none" THEN x.pos ELSE place) \in Places \union {NoPlace}
    BY DEF TypeOK, Records
<1> HIDE DEF Fix
<1> QED
    BY <1>1, <1>2 DEF Sampled, Records

(* The same a turn later.                                                  *)
LEMMA LaterType ==
    ASSUME NEW x \in Records
    PROVE  /\ Later(x) \in Records /\ Later(x).current = x.current
           /\ Later(x).fallback = x.fallback /\ Later(x).pos = x.pos
<1>1. (IF x.check > 0 THEN x.check - 1 ELSE 0) \in 0 .. Check
    BY DEF Records
<1> DEFINE k == IF x.check > 0 THEN x.check - 1 ELSE 0
<1>2. Later(x) = [x EXCEPT !.check = k, !.calm = TRUE]
    BY DEF Later
<1> DEFINE y == Later(x)
<1>3. k \in 0 .. Check /\ y = [x EXCEPT !.check = k, !.calm = TRUE]
    BY <1>1, <1>2
<1> HIDE DEF k, y
<1>4. y \in Records /\ y.current = x.current /\ y.fallback = x.fallback /\ y.pos = x.pos
    BY <1>3 DEF Records
<1> QED
    BY <1>4 DEF y

(* The same after the choice: the base is one of the table.                *)
LEMMA CheckedType ==
    ASSUME TypeOK, NEW x \in Records, x.current \in Bases, x.pos \in Places
    PROVE  /\ Checked(x) \in Records /\ Checked(x).current \in Bases
           /\ Checked(x).fallback = x.fallback
<1>1. ASSUME Verdict(x) = "change"
      PROVE  Nearest(Usable(table, bans), x.pos) \in Bases
  <2>1. Usable(table, bans) \in SUBSET Bases
    BY DEF Usable, TypeOK
  <2>2. Usable(table, bans) # {}
    BY <1>1 DEF Verdict, Choose
  <2> QED
    BY <2>1, <2>2, NearestListed
<1>2. NextCheck(x, Verdict(x)) \in 0 .. Check
    BY DEF NextCheck
<1> QED
    BY <1>1, <1>2 DEF Checked, Records, MaybeBases

(* The same after the base in use was excluded.                            *)
LEMMA MovedType ==
    ASSUME NEW x \in Records, x.current \in Bases, x.fallback \in Bases,
           NEW v \in {"fallback", "rechoose", "renewed"}
    PROVE  /\ Moved(x, v) \in Records /\ Moved(x, v).current \in Bases
           /\ Moved(x, v).fallback \in Bases
<1>1. CASE v = "fallback"
    BY <1>1 DEF Moved, Records, MaybeBases
<1>2. CASE v = "rechoose"
  <2>1. Moved(x, v) = [x EXCEPT !.first = TRUE, !.check = 0]
    BY <1>2 DEF Moved
  <2>2. 0 \in 0 .. Check /\ TRUE \in BOOLEAN
    OBVIOUS
  <2>3. /\ Moved(x, v) \in Records /\ Moved(x, v).current = x.current
        /\ Moved(x, v).fallback = x.fallback
    BY <2>1, <2>2, MovedUpdate, Zenon
  <2> QED
    BY <2>3
<1>3. CASE v = "renewed"
    BY <1>3 DEF Moved
<1> QED
    BY <1>1, <1>2, <1>3

(* The types, in the words of these lemmas.                                *)
WorldTypes ==
    /\ kind \in [Bases -> Kinds] /\ table \in Tables /\ readable \in BOOLEAN
    /\ place \in Places /\ sky \in Skies /\ net \in BOOLEAN
    /\ saved \in Settings /\ changes \in 0 .. MaxChanges /\ missed \in BOOLEAN

TaskTypes ==
    /\ age \in 0 .. Hold
    /\ pc \in {"top", "read", "gen", "table", "connect", "session", "compare", "end", "wait"}
    /\ cfg \in [mount : MaybeBases, account : {1, 2}]
    /\ a \in Records /\ BansOK(bans)
    /\ silent \in [name : MaybeBases, count : 0 .. Sessions]
    /\ rej \in [name : MaybeBases, count : 0 .. Rejections]
    /\ unread \in BOOLEAN /\ rerouted \in BOOLEAN
    /\ session \in [open : BOOLEAN, got : BOOLEAN,
                    why : {"lost", "settings", "route", "switch"}]

RoverInv == WorldTypes /\ TaskTypes /\ Knows

(* The types, of the world and of the task.                                *)
LEMMA Types == TypeOK <=> WorldTypes /\ TaskTypes
BY DEF TypeOK, WorldTypes, TaskTypes, Records, MaybeBases, BansOK, Held

LEMMA RoverInit == Init => RoverInv
<1> SUFFICES ASSUME Init PROVE RoverInv
    OBVIOUS
<1>1. WorldTypes
  <2>1. missed \in BOOLEAN
    BY Zenon DEF Init
  <2>2. changes \in 0 .. MaxChanges
    BY DEF Init
  <2> QED
    BY <2>1, <2>2 DEF Init, WorldTypes
<1>2. BansOK(bans)
  <2>1. Free \in BanType /\ bans \in [Bases -> BanType] /\ Held(bans) = {}
    BY DEF Init, BanType, Held
  <2>2. Cardinality(Held(bans)) = 0
    BY <2>1, FS_EmptySet
  <2> QED
    BY <2>1, <2>2 DEF BansOK
<1>3. a \in Records
    BY DEF Init, Records, MaybeBases
<1>4. TaskTypes
  <2>1. age \in 0 .. Hold
    BY DEF Init
  <2>2. session \in [open : BOOLEAN, got : BOOLEAN, why : {"lost", "settings", "route", "switch"}]
    BY DEF Init, Closed
  <2>3. /\ silent \in [name : MaybeBases, count : 0 .. Sessions]
        /\ rej \in [name : MaybeBases, count : 0 .. Rejections]
    BY DEF Init, MaybeBases, Nobody
  <2>4. cfg \in [mount : MaybeBases, account : {1, 2}] /\ unread \in BOOLEAN
        /\ rerouted \in BOOLEAN /\ pc = "top"
    BY DEF Init, MaybeBases
  <2> QED
    BY <1>2, <1>3, <2>1, <2>2, <2>3, <2>4 DEF TaskTypes
<1> QED
    BY <1>1, <1>4 DEF Init, RoverInv, Knows

LEMMA TopStep == RoverInv /\ Top => RoverInv'
<1> SUFFICES ASSUME RoverInv, Top PROVE RoverInv'
    OBVIOUS
<1>1. saved.mount \in Bases /\ saved.account \in {1, 2}
    BY DEF RoverInv, WorldTypes
<1>2. /\ pc' = "read" /\ cfg' = [mount |-> saved.mount, account |-> saved.account]
      /\ UNCHANGED <<kind, table, readable, place, sky, net, saved, changes>>
      /\ UNCHANGED <<age, a, bans, silent, rej, unread, rerouted, session>>
    BY DEF Top, auto
<1>3. missed' \in BOOLEAN
  <2>1. missed' = FALSE
    BY DEF Top
  <2> QED
    BY <2>1, Zenon
<1> QED
    BY <1>1, <1>2, <1>3 DEF RoverInv, WorldTypes, TaskTypes, Knows, MaybeBases, BansOK, Held

LEMMA ReadStep == RoverInv /\ Read => RoverInv'
<1> SUFFICES ASSUME RoverInv, Read PROVE RoverInv'
    OBVIOUS
<1>1. TypeOK /\ a \in Records /\ cfg.mount \in Bases
    BY Types DEF RoverInv, TaskTypes, Knows, Read
<1>2. /\ SettingsRead(a) \in Records /\ SettingsRead(a).fallback \in Bases
      /\ SettingsRead(a).current \in Bases
    BY <1>1, SettingsReadType
<1>3. /\ a' = SettingsRead(a) /\ pc' = "gen"
      /\ UNCHANGED <<world, age, cfg, silent, rej, bans, unread, rerouted, session>>
    BY DEF Read
<1> QED
    BY <1>1, <1>2, <1>3 DEF RoverInv, WorldTypes, TaskTypes, Knows, world, BansOK, Held

LEMMA BeginStep == RoverInv /\ Begin => RoverInv'
<1> SUFFICES ASSUME RoverInv, Begin PROVE RoverInv'
    OBVIOUS
<1> DEFINE y == Sampled(a)
           z == IF y.first /\ y.pos = NoPlace THEN [y EXCEPT !.current = y.fallback] ELSE y
<1>1. /\ TypeOK /\ a \in Records /\ cfg.mount \in Bases
      /\ a.fallback \in Bases /\ a.current \in Bases
    BY Types DEF RoverInv, TaskTypes, Knows, Begin
<1>3. y \in Records /\ y.fallback \in Bases /\ y.current \in Bases
    BY <1>1, SampledType
<1>4. z \in Records /\ z.fallback \in Bases /\ z.current \in Bases
  <2> HIDE DEF y
  <2> QED
    BY <1>3 DEF Records, MaybeBases
<1>5. IF a.on THEN a' = z /\ pc' = (IF Due(z) THEN "table" ELSE "connect")
              ELSE a' = [a EXCEPT !.current = cfg.mount] /\ pc' = "connect"
    BY DEF Begin
<1> HIDE DEF y, z
<1>6. a' \in Records /\ a'.fallback \in Bases /\ a'.current \in Bases
    BY <1>1, <1>4, <1>5 DEF Records, MaybeBases
<1>7. pc' \in {"table", "connect"} /\ (pc' = "table" => a'.pos \in Places)
    BY <1>4, <1>5 DEF Due, Records
<1>8. cfg' = [cfg EXCEPT !.mount = a'.current] /\ unread' = FALSE
      /\ UNCHANGED <<world, age, silent, rej, bans, rerouted, session>>
    BY DEF Begin
<1>9. WorldTypes'
    BY <1>8 DEF RoverInv, WorldTypes, world
<1>10. cfg' \in [mount : MaybeBases, account : {1, 2}] /\ cfg'.mount = a'.current
  <2>1. cfg \in [mount : MaybeBases, account : {1, 2}] /\ a'.current \in MaybeBases
    BY <1>6 DEF RoverInv, TaskTypes, MaybeBases
  <2> QED
    BY <1>8, <2>1
<1>11. TaskTypes'
    BY <1>6, <1>7, <1>8, <1>10 DEF RoverInv, TaskTypes, BansOK, Held
<1>12. Knows'
    BY <1>6, <1>7, <1>8, <1>10 DEF RoverInv, Knows
<1> QED
    BY <1>9, <1>11, <1>12 DEF RoverInv

LEMMA TableStep == RoverInv /\ Table => RoverInv'
<1> SUFFICES ASSUME RoverInv, Table PROVE RoverInv'
    OBVIOUS
<1>1. TypeOK /\ a \in Records /\ a.current \in Bases /\ a.fallback \in Bases /\ a.pos \in Places
    BY Types DEF RoverInv, TaskTypes, Knows, Table
<1>2. a' \in Records /\ a'.current \in Bases /\ a'.fallback \in Bases
    BY <1>1, CheckedType DEF Table
<1>3. cfg.mount \in Bases
    BY DEF RoverInv, Knows, Table
<1>4. /\ pc' \in {"end", "session", "connect"}
      /\ cfg' \in {cfg, [cfg EXCEPT !.mount = a'.current]}
      /\ session' \in {session, [session EXCEPT !.why = "switch"]}
      /\ UNCHANGED <<world, age, silent, rej, bans, unread, rerouted>>
    BY DEF Table
<1> QED
    BY <1>2, <1>3, <1>4 DEF RoverInv, WorldTypes, TaskTypes, Knows, world, MaybeBases

(* A connection that is made, and one that is not.                         *)
LEMMA AcceptedStep ==
    ASSUME RoverInv, pc = "connect", Accepted, rerouted' = FALSE,
           UNCHANGED <<world, cfg, silent, unread>>
    PROVE  RoverInv'
<1>1. PICK extra \in {FALSE, kind[cfg.mount] = "sends"} :
        /\ session' = [open |-> TRUE, got |-> extra, why |-> "lost"]
        /\ a' = [a EXCEPT !.calm = FALSE, !.got = IF extra THEN cfg.mount ELSE @]
        /\ bans' = IF extra THEN Forgive(bans, cfg.mount) ELSE bans
        /\ age' = IF extra THEN 0 ELSE age
        /\ rej' = [rej EXCEPT !.count = 0]
        /\ pc' = "session"
    BY DEF Accepted
<1>2. extra \in BOOLEAN
    OBVIOUS
<1>3. cfg.mount \in Bases /\ a \in Records /\ BansOK(bans) /\ age \in 0 .. Hold
      /\ a.current \in Bases /\ a.fallback \in Bases
      /\ rej \in [name : MaybeBases, count : 0 .. Rejections]
    BY DEF RoverInv, TaskTypes, Knows
<1>4. BansOK(bans')
    BY <1>1, <1>3, ForgiveOK
<1>5. a' \in Records /\ a'.current = a.current /\ a'.fallback = a.fallback
  <2> DEFINE g == IF extra THEN cfg.mount ELSE a.got
  <2>1. a' = [a EXCEPT !.calm = FALSE, !.got = g]
    BY <1>1
  <2>2. g \in MaybeBases
    BY <1>3 DEF Records, MaybeBases
  <2> HIDE DEF g
  <2> QED
    BY <1>3, <2>1, <2>2 DEF Records
<1>6. /\ session' \in [open : BOOLEAN, got : BOOLEAN,
                       why : {"lost", "settings", "route", "switch"}]
      /\ age' \in 0 .. Hold
      /\ rej' \in [name : MaybeBases, count : 0 .. Rejections]
    BY <1>1, <1>2, <1>3
<1>7. pc' = "session"
    BY <1>1
<1> QED
    BY <1>3, <1>4, <1>5, <1>6, <1>7 DEF RoverInv, WorldTypes, TaskTypes, Knows, world

(* A caster that refuses the base: counted, banned or left.                *)
LEMMA RejectedStep ==
    ASSUME RoverInv, pc = "connect", Rejected, rerouted' = FALSE,
           UNCHANGED <<world, cfg, silent, unread>>
    PROVE  RoverInv'
<1> DEFINE base   == a.current
           count  == (IF rej.name = base THEN rej.count ELSE 0)
                     + (IF Reply = "rejected" THEN 1 ELSE 0)
           giveUp == Reply = "refused" \/ count >= Rejections
<1>1. cfg.mount \in Bases /\ a \in Records /\ BansOK(bans)
      /\ a.current \in Bases /\ a.fallback \in Bases
      /\ rej \in [name : MaybeBases, count : 0 .. Rejections]
    BY DEF RoverInv, TaskTypes, Knows
<1>2. rej' \in [name : MaybeBases, count : 0 .. Rejections]
  <2>1. rej' = [name |-> base, count |-> IF giveUp THEN 0 ELSE count]
    BY DEF Rejected
  <2>2. count \in Nat
    BY <1>1
  <2>3. (IF giveUp THEN 0 ELSE count) \in 0 .. Rejections
    <3> HIDE DEF count
    <3> QED
      BY <2>2
  <2>4. base \in MaybeBases
    BY <1>1 DEF MaybeBases
  <2> HIDE DEF base, count, giveUp
  <2> QED
    BY <2>1, <2>3, <2>4
<1>3. BansOK(bans') /\ a' \in Records /\ a'.current \in Bases /\ a'.fallback \in Bases
  <2>1. CASE a.on /\ giveUp
    <3>1. /\ bans' \in BanAdd(bans, base)
          /\ a' = Moved(a, IF FallbackFree(bans', base, a.fallback)
                           THEN "fallback" ELSE "rechoose")
      BY <2>1 DEF Rejected
    <3>2. (IF FallbackFree(bans', base, a.fallback) THEN "fallback" ELSE "rechoose")
            \in {"fallback", "rechoose", "renewed"}
      OBVIOUS
    <3> QED
      BY <1>1, <3>1, <3>2, BanAddOK, MovedType
  <2>2. CASE ~ (a.on /\ giveUp)
    BY <1>1, <2>2 DEF Rejected
  <2> QED
    BY <2>1, <2>2
<1>4. pc' = "wait" /\ UNCHANGED <<age, session>>
    BY DEF Rejected
<1> QED
    BY <1>1, <1>2, <1>3, <1>4 DEF RoverInv, WorldTypes, TaskTypes, Knows, world

LEMMA ConnectStep == RoverInv /\ Connect => RoverInv'
BY AcceptedStep, RejectedStep DEF Connect

(* The settings, the link and the base looked at.                          *)
LEMMA LookedAtType ==
    ASSUME RoverInv, NEW x \in Records, x.current \in Bases, x.fallback \in Bases,
           NEW d \in BOOLEAN, LookedAt(x, d)
    PROVE  /\ a' \in Records /\ a'.current \in Bases /\ a'.fallback \in Bases
           /\ pc' \in {"end", "table", "session"} /\ (pc' = "table" => a'.pos \in Places)
           /\ session' \in [open : BOOLEAN, got : BOOLEAN,
                             why : {"lost", "settings", "route", "switch"}]
<1> DEFINE y     == IF x.on THEN Sampled(x) ELSE x
           why   == IF d THEN "settings" ELSE IF rerouted THEN "route" ELSE "lost"
<1>1. /\ TypeOK
      /\ session \in [open : BOOLEAN, got : BOOLEAN,
                       why : {"lost", "settings", "route", "switch"}]
    BY Types DEF RoverInv, TaskTypes
<1>2. y \in Records /\ y.current \in Bases /\ y.fallback \in Bases
    BY <1>1, SampledType
<1>3. why \in {"settings", "route", "lost"}
    OBVIOUS
<1>4. /\ session' = [session EXCEPT !.got = TRUE, !.why = why]
      /\ a' = (IF why = "lost" THEN y ELSE x)
      /\ pc' = (IF why # "lost" THEN "end" ELSE IF Due(y) THEN "table" ELSE "session")
    BY DEF LookedAt
<1> HIDE DEF y, why
<1>5. a' \in Records /\ a'.current \in Bases /\ a'.fallback \in Bases
    BY <1>2, <1>4
<1>6. pc' \in {"end", "table", "session"} /\ (pc' = "table" => a'.pos \in Places)
    BY <1>2, <1>4 DEF Due, Records
<1>7. session' \in [open : BOOLEAN, got : BOOLEAN,
                    why : {"lost", "settings", "route", "switch"}]
  <2>1. why \in {"lost", "settings", "route", "switch"}
    BY <1>3
  <2> QED
    BY <1>1, <1>4, <2>1
<1> QED
    BY <1>5, <1>6, <1>7

LEMMA ReceiveStep == RoverInv /\ Receive => RoverInv'
<1> SUFFICES ASSUME RoverInv, Receive PROVE RoverInv'
    OBVIOUS
<1> DEFINE heard == [Later(a) EXCEPT !.got = cfg.mount]
<1>1. /\ TypeOK /\ cfg.mount \in Bases /\ a \in Records /\ BansOK(bans)
      /\ a.current \in Bases /\ a.fallback \in Bases
      /\ session \in [open : BOOLEAN, got : BOOLEAN,
                       why : {"lost", "settings", "route", "switch"}]
    BY Types DEF RoverInv, TaskTypes, Knows, Receive
<1>2. heard \in Records /\ heard.current \in Bases /\ heard.fallback \in Bases
  <2>1. Later(a) \in Records /\ Later(a).current = a.current /\ Later(a).fallback = a.fallback
    BY <1>1, LaterType
  <2> QED
    BY <1>1, <2>1 DEF Records, MaybeBases
<1>3. /\ IF unread
         THEN /\ a' = SettingsRead(heard) /\ pc' = "compare"
              /\ session' = [session EXCEPT !.got = TRUE]
         ELSE LookedAt(heard, FALSE)
      /\ bans' = Aged(IF session.got THEN bans ELSE Forgive(bans, cfg.mount))
      /\ age' = 0 /\ UNCHANGED <<world, cfg, silent, rej, unread, rerouted>>
    BY DEF Receive
<1> HIDE DEF heard
<1>4. /\ a' \in Records /\ a'.current \in Bases /\ a'.fallback \in Bases
      /\ pc' \in {"end", "table", "session", "compare"}
      /\ (pc' = "table" => a'.pos \in Places)
      /\ session' \in [open : BOOLEAN, got : BOOLEAN,
                        why : {"lost", "settings", "route", "switch"}]
  <2>1. CASE unread
    <3>1. /\ SettingsRead(heard) \in Records /\ SettingsRead(heard).fallback \in Bases
          /\ SettingsRead(heard).current \in Bases
      BY <1>1, <1>2, SettingsReadType
    <3>2. /\ a' = SettingsRead(heard) /\ pc' = "compare"
          /\ session' = [session EXCEPT !.got = TRUE]
      BY <1>3, <2>1
    <3> QED
      BY <1>1, <3>1, <3>2
  <2>2. CASE ~unread
    <3>1. LookedAt(heard, FALSE)
      BY <1>3, <2>2
    <3>2. FALSE \in BOOLEAN
      OBVIOUS
    <3> QED
      BY <1>2, <3>1, <3>2, LookedAtType
  <2> QED
    BY <2>1, <2>2
<1>5. BansOK(bans') /\ age' \in 0 .. Hold
    BY <1>1, <1>3, ForgiveOK, AgedOK
<1>6. UNCHANGED <<world, cfg, silent, rej, unread, rerouted>>
    BY <1>3
<1> QED
    BY <1>1, <1>4, <1>5, <1>6 DEF RoverInv, WorldTypes, TaskTypes, Knows, world

LEMMA CompareStep == RoverInv /\ Compare => RoverInv'
<1> SUFFICES ASSUME RoverInv, Compare PROVE RoverInv'
    OBVIOUS
<1>1. /\ cfg.mount \in Bases /\ a \in Records /\ BansOK(bans)
      /\ a.current \in Bases /\ a.fallback \in Bases
    BY DEF RoverInv, TaskTypes, Knows, Compare
<1>2. Differs(a) \in BOOLEAN /\ LookedAt(a, Differs(a))
    BY DEF Compare, Differs
<1>3. /\ a' \in Records /\ a'.current \in Bases /\ a'.fallback \in Bases
      /\ pc' \in {"end", "table", "session"} /\ (pc' = "table" => a'.pos \in Places)
      /\ session' \in [open : BOOLEAN, got : BOOLEAN,
                        why : {"lost", "settings", "route", "switch"}]
    BY <1>1, <1>2, LookedAtType
<1>4. /\ unread' \in BOOLEAN
      /\ UNCHANGED <<world, age, cfg, silent, rej, bans, rerouted>>
    BY DEF Compare
<1>5. WorldTypes'
    BY <1>4 DEF RoverInv, WorldTypes, world
<1>6. TaskTypes'
    BY <1>3, <1>4 DEF RoverInv, TaskTypes, BansOK, Held
<1>7. Knows'
    BY <1>1, <1>3, <1>4 DEF Knows
<1> QED
    BY <1>5, <1>6, <1>7 DEF RoverInv

LEMMA LostStep == RoverInv /\ Lost => RoverInv'
<1> SUFFICES ASSUME RoverInv, Lost PROVE RoverInv'
    OBVIOUS
<1>1. /\ pc = "session" /\ pc' = "end"
      /\ UNCHANGED <<kind, table, readable, place, sky, net, saved, missed, age, cfg, auto,
                     unread, rerouted, session>>
    BY DEF Lost
<1>2. changes' \in 0 .. MaxChanges
    BY DEF Lost, Change, RoverInv, WorldTypes
<1> QED
    BY <1>1, <1>2 DEF RoverInv, WorldTypes, TaskTypes, Knows, auto

LEMMA EndStep == RoverInv /\ End => RoverInv'
<1> SUFFICES ASSUME RoverInv, End PROVE RoverInv'
    OBVIOUS
<1> DEFINE base  == cfg.mount
           g     == IF ~session.got /\ a.got = base THEN NoBase ELSE a.got
           x     == [a EXCEPT !.got = g]
           count == SilentCount(silent, base)
<1>1. base \in Bases /\ a \in Records /\ BansOK(bans)
      /\ a.current \in Bases /\ a.fallback \in Bases
      /\ silent \in [name : MaybeBases, count : 0 .. Sessions]
      /\ session \in [open : BOOLEAN, got : BOOLEAN,
                      why : {"lost", "settings", "route", "switch"}]
    BY DEF RoverInv, TaskTypes, Knows, End
<1>2. x \in Records /\ x.current \in Bases /\ x.fallback \in Bases
  <2>1. g \in MaybeBases
    BY <1>1 DEF Records, MaybeBases
  <2> HIDE DEF g
  <2> QED
    BY <1>1, <2>1 DEF Records
<1>3. count \in Nat /\ base \in MaybeBases
    BY <1>1 DEF SilentCount, MaybeBases
<1>4. /\ session' = Closed /\ pc' \in {"top", "wait"}
      /\ UNCHANGED <<world, age, cfg, rej, unread, rerouted>>
    BY DEF End
<1>5. CASE ~a.on \/ session.why # "lost"
  <2>1. silent' = [silent EXCEPT !.count = 0] /\ a' = x /\ UNCHANGED bans
    BY <1>5 DEF End
  <2>2. silent' \in [name : MaybeBases, count : 0 .. Sessions]
    BY <1>1, <2>1
  <2> HIDE DEF x
  <2> QED
    BY <1>1, <1>2, <1>4, <2>1, <2>2
       DEF RoverInv, WorldTypes, TaskTypes, Knows, world, Closed
<1>6. CASE ~ (~a.on \/ session.why # "lost") /\ session.got
  <2>1. silent' = [name |-> base, count |-> 0] /\ a' = x /\ bans' = Forgive(bans, base)
    BY <1>6 DEF End
  <2>2. silent' \in [name : MaybeBases, count : 0 .. Sessions] /\ BansOK(bans')
    BY <1>1, <1>3, <2>1, ForgiveOK
  <2> HIDE DEF x
  <2> QED
    BY <1>1, <1>2, <1>4, <2>1, <2>2
       DEF RoverInv, WorldTypes, TaskTypes, Knows, world, Closed
<1>7. CASE ~ (~a.on \/ session.why # "lost") /\ ~session.got /\ count < Sessions
  <2>1. silent' = [name |-> base, count |-> count] /\ a' = x /\ UNCHANGED bans
    BY <1>7 DEF End
  <2>2. silent' \in [name : MaybeBases, count : 0 .. Sessions]
    <3> HIDE DEF count
    <3> QED
      BY <1>3, <1>7, <2>1
  <2> HIDE DEF x
  <2> QED
    BY <1>1, <1>2, <1>4, <2>1, <2>2
       DEF RoverInv, WorldTypes, TaskTypes, Knows, world, Closed
<1>8. CASE ~ (~a.on \/ session.why # "lost") /\ ~session.got /\ ~ (count < Sessions)
  <2>1. /\ silent' = [name |-> base, count |-> 0]
        /\ bans' \in BanAdd(bans, base)
        /\ a' = Moved(x, SilentVerdict(bans, bans', base, x.fallback))
    BY <1>8 DEF End
  <2>2. silent' \in [name : MaybeBases, count : 0 .. Sessions] /\ BansOK(bans')
    BY <1>1, <1>3, <2>1, BanAddOK
  <2>3. SilentVerdict(bans, bans', base, x.fallback) \in {"fallback", "rechoose", "renewed"}
    BY DEF SilentVerdict
  <2> HIDE DEF x
  <2>4. a' \in Records /\ a'.current \in Bases /\ a'.fallback \in Bases
    BY <1>2, <2>1, <2>3, MovedType
  <2> QED
    BY <1>1, <1>4, <2>2, <2>4
       DEF RoverInv, WorldTypes, TaskTypes, Knows, world, Closed
<1> QED
    BY <1>5, <1>6, <1>7, <1>8

LEMMA WaitStep == RoverInv /\ Wait => RoverInv'
<1> SUFFICES ASSUME RoverInv, Wait PROVE RoverInv'
    OBVIOUS
<1>1. a \in Records /\ BansOK(bans) /\ age \in 0 .. Hold /\ cfg.mount \in Bases
    BY DEF RoverInv, TaskTypes, Knows, Wait
<1>2. /\ pc' = "top"
      /\ UNCHANGED <<world, cfg, silent, rej, unread, rerouted, session>>
      /\ \/ Pass /\ a' = Later(a)
         \/ UNCHANGED <<a, bans, age>>
    BY DEF Wait
<1>3. a' \in Records /\ BansOK(bans') /\ age' \in 0 .. Hold
  <2>1. CASE Pass /\ a' = Later(a)
    BY <1>1, <2>1, LaterType, AgedOK DEF Pass
  <2>2. CASE UNCHANGED <<a, bans, age>>
    BY <1>1, <2>2
  <2> QED
    BY <1>2, <2>1, <2>2
<1> QED
    BY <1>1, <1>2, <1>3 DEF RoverInv, WorldTypes, TaskTypes, Knows, world

LEMMA BesideStep == RoverInv /\ Beside => RoverInv'
<1> SUFFICES ASSUME RoverInv, Beside PROVE RoverInv'
    OBVIOUS
<1>1. UNCHANGED <<age, pc, cfg, auto, session>>
      /\ (NewKind \/ Move \/ NewSky \/ NewTable \/ Link \/ Reroute \/ Save)
    BY DEF Beside
<1>2. \A w : Change(w) => changes' \in 0 .. MaxChanges
    BY DEF Change, RoverInv, WorldTypes
<1>3. unread' \in BOOLEAN /\ rerouted' \in BOOLEAN
    BY <1>1 DEF RoverInv, TaskTypes, NewKind, Move, NewSky, NewTable, Link, Reroute, Save
<1>4. changes' \in 0 .. MaxChanges
    BY <1>1, <1>2 DEF NewKind, Move, NewSky, NewTable, Link, Reroute, Save
<1>5. kind' \in [Bases -> Kinds] /\ table' \in Tables /\ readable' \in BOOLEAN
    BY <1>1 DEF RoverInv, WorldTypes, NewKind, Move, NewSky, NewTable, Link, Reroute, Save
<1>6. place' \in Places /\ sky' \in Skies /\ net' \in BOOLEAN /\ saved' \in Settings
  <2>1. CASE Save
    <3>1. saved' \in Settings /\ UNCHANGED <<place, sky, net>>
      BY <2>1 DEF Save
    <3> QED
      BY <3>1 DEF RoverInv, WorldTypes
  <2>2. CASE NewKind \/ Move \/ NewSky \/ NewTable \/ Link \/ Reroute
    BY <2>2 DEF RoverInv, WorldTypes, NewKind, Move, NewSky, NewTable, Link, Reroute
  <2> QED
    BY <1>1, <2>1, <2>2
<1>7. missed' \in BOOLEAN
  <2>1. CASE Save
    BY <2>1 DEF Save
  <2>2. CASE NewKind \/ Move \/ NewSky \/ NewTable \/ Link \/ Reroute
    BY <2>2 DEF RoverInv, WorldTypes, NewKind, Move, NewSky, NewTable, Link, Reroute
  <2> QED
    BY <1>1, <2>1, <2>2
<1>8. WorldTypes'
    BY <1>4, <1>5, <1>6, <1>7 DEF WorldTypes
<1> QED
    BY <1>1, <1>3, <1>8 DEF RoverInv, TaskTypes, Knows, auto

(* The rover always knows a base to connect to, and whatever fails, is     *)
(* excluded or forgiven, its list never holds more bases than it has       *)
(* slots.                                                                  *)
THEOREM RoverInvHolds == Spec => []RoverInv
<1>1. RoverInv /\ [Next]_vars => RoverInv'
  <2> SUFFICES ASSUME RoverInv, [Next]_vars PROVE RoverInv'
    OBVIOUS
  <2>1. CASE Task
    BY <2>1, TopStep, ReadStep, BeginStep, TableStep, ConnectStep, ReceiveStep, CompareStep,
       LostStep, EndStep, WaitStep DEF Task
  <2>2. CASE Beside
    BY <2>2, BesideStep
  <2>3. CASE UNCHANGED vars
    BY <2>3 DEF vars, world, auto, RoverInv, WorldTypes, TaskTypes, Knows
  <2> QED
    BY <2>1, <2>2, <2>3 DEF Next
<1> QED
    BY RoverInit, <1>1, PTL DEF Spec

(* The types of the client, the bound on the exclusions among them.        *)
THEOREM RoverTypes == Spec => []TypeOK
<1>1. RoverInv => TypeOK
    BY Types DEF RoverInv
<1> QED
    BY RoverInvHolds, <1>1, PTL
==============================================================================
