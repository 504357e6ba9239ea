------------------------------ MODULE PlacementProofs ------------------------------
(***************************************************************************)
(* Proofs about LinearScan and Placement.  Of the allocation: whatever     *)
(* intervals it is given, whatever the registers and whatever is forbidden *)
(* to whom, no two values whose intervals overlap get the same register,   *)
(* and no two the same slot.  Of the intervals: they reach over everything *)
(* their value is live at, so that no two values that are live at once     *)
(* have one place, and what a call destroys is saved.                      *)
(***************************************************************************)
EXTENDS Placement, DataLemmas

\* allocate is only called with what Sound describes.
AllSound == \A r \in Requests : Sound(r)

Params == DOMAIN request.params
Given == {request.params[v] : v \in Params}
\* The intervals whose value has a register that is not its own from the start.
Placed == {a \in request.intervals \ todo : a.v \in DOMAIN reg \ Params}

\* What the allocation goes by.
Sets ==
  /\ Sound(request)
  /\ todo \subseteq request.intervals /\ active \subseteq Placed
\* Parameters keep their registers, which nobody else gets; a value whose turn has
\* not come has none otherwise.
Own ==
  /\ \A v \in Params : v \in DOMAIN reg /\ reg[v] = request.params[v]
  /\ free \cap Given = {}
  /\ \A a \in Placed : reg[a.v] \notin Given
  /\ \A a \in todo : a.v \in DOMAIN reg => a.v \in Params
\* The registers of the active intervals are not free, and differ.
Held ==
  /\ \A a \in active : reg[a.v] \notin free
  /\ \A a, b \in active : a # b => reg[a.v] # reg[b.v]
\* What has a register and is not active has ended before all that is to come.
Ended == \A a \in Placed \ active : \A t \in todo : a.end <= t.start
ScanInv == Sets /\ Own /\ Held /\ Ended /\ Unshared

---------------------------------------------------------------------------
\* What the invariant says of the pieces.
LEMMA Pieces ==
  ASSUME ScanInv
  PROVE  /\ IsFiniteSet(todo) /\ IsFiniteSet(active)
         /\ todo \subseteq request.intervals /\ active \subseteq request.intervals
         /\ \A a \in request.intervals : a.start \in Nat /\ a.end \in Nat
         /\ \A a, b \in request.intervals : a.v = b.v => a = b
         /\ \A a \in active : a \notin todo /\ a.v \in DOMAIN reg /\ a.v \notin Params
  <1>1. /\ todo \subseteq request.intervals /\ active \subseteq request.intervals
        /\ \A a \in active : a \notin todo /\ a.v \in DOMAIN reg /\ a.v \notin Params
    BY DEF ScanInv, Sets, Placed
  <1>2. /\ IsFiniteSet(request.intervals)
        /\ \A a \in request.intervals : a.start \in Nat /\ a.end \in Nat
        /\ \A a, b \in request.intervals : a.v = b.v => a = b
    BY DEF ScanInv, Sets, Sound
  <1>3. IsFiniteSet(todo) /\ IsFiniteSet(active)
    BY <1>1, <1>2, FS_Subset
  <1> QED
    BY <1>1, <1>2, <1>3

\* The loop takes an interval that none of the others starts before.
LEMMA TurnFirst ==
  ASSUME ScanInv, todo # {}
  PROVE  Current \in todo /\ \A o \in todo : Current.start <= o.start
  <1> DEFINE m == [a \in todo |-> a.start]
  <1>1. \A a \in todo : m[a] = a.start /\ m[a] \in Int
    BY Pieces
  <1> HIDE DEF m
  <1>2. \E x \in todo : \A y \in todo : m[x] <= m[y]
    BY <1>1, Pieces, LeastMeasure
  <1>3. \E x \in todo : \A y \in todo : x.start <= y.start
    BY <1>1, <1>2
  <1> QED
    BY <1>3 DEF Current

\* The interval that would make room is one that holds a register.
LEMMA LongestRuns ==
  ASSUME ScanInv, NEW iv, Running(iv) # {}
  PROVE  Longest(iv) \in Running(iv)
  <1> DEFINE R == Running(iv)
             m == [a \in R |-> a.end]
  <1>1. R \subseteq active
    BY DEF Running
  <1>2. IsFiniteSet(R)
    BY <1>1, Pieces, FS_Subset
  <1> HIDE DEF R
  <1>3. \A a \in R : m[a] = a.end /\ m[a] \in Int
    BY <1>1, Pieces
  <1> HIDE DEF m
  <1>4. R # {}
    BY DEF R
  <1>5. \E x \in R : \A y \in R : m[y] <= m[x]
    BY <1>2, <1>3, <1>4, GreatestMeasure
  <1>6. \E x \in R : \A y \in R : y.end <= x.end
    BY <1>3, <1>5
  <1> QED
    BY <1>6 DEF R, Longest

\* What _expire_old_intervals frees was held by intervals that have ended before
\* all that is to come; what it leaves is still not free.
LEMMA Expiry ==
  ASSUME ScanInv, NEW iv \in todo, \A o \in todo : iv.start <= o.start
  PROVE  /\ Running(iv) \subseteq active
         /\ \A a \in active \ Running(iv) : \A t \in todo : a.end <= t.start
         /\ FreeAt(iv) \cap Given = {}
         /\ \A a \in Running(iv) : reg[a.v] \notin FreeAt(iv)
  <1>1. Running(iv) \subseteq active
    BY DEF Running
  <1>2. ASSUME NEW a \in active \ Running(iv), NEW t \in todo PROVE a.end <= t.start
    <2>1. a.end <= iv.start /\ iv.start <= t.start
      BY <1>2 DEF Running, Expired
    <2>2. a.end \in Nat /\ iv.start \in Nat /\ t.start \in Nat
      BY Pieces
    <2> QED
      BY <2>1, <2>2
  <1>3. FreeAt(iv) \cap Given = {}
    <2>1. active \subseteq Placed
      BY DEF ScanInv, Sets
    <2> QED
      BY <2>1 DEF ScanInv, Own, FreeAt
  <1>4. ASSUME NEW a \in Running(iv) PROVE reg[a.v] \notin FreeAt(iv)
    BY <1>1, <1>4 DEF ScanInv, Held, FreeAt
  <1> QED
    BY <1>1, <1>2, <1>3, <1>4

---------------------------------------------------------------------------
LEMMA ScanInit == AllocInit => ScanInv
  <1> SUFFICES ASSUME AllocInit PROVE ScanInv
    OBVIOUS
  <1>1. Sound(request)
    BY FS_EmptySet DEF AllocInit, Nothing, Sound
  <1>2. Params = {} /\ Given = {} /\ Placed = {}
    BY DEF AllocInit, Nothing, Params, Given, Placed
  <1> QED
    BY <1>1, <1>2 DEF AllocInit, Nothing, ScanInv, Sets, Own, Held, Ended, Unshared

LEMMA BeginKeeps ==
  ASSUME NEW r, Sound(r), Begin(r)
  PROVE  ScanInv'
  <1>1. /\ request' = r /\ todo' = r.intervals /\ active' = {} /\ reg' = r.params
        /\ free' = r.file \ {r.params[v] : v \in DOMAIN r.params}
    BY DEF Begin
  <1>2. Params' = DOMAIN r.params /\ Given' = {r.params[v] : v \in DOMAIN r.params} /\ Placed' = {}
    BY <1>1 DEF Params, Given, Placed
  <1>3. Sets'
    BY <1>1, <1>2 DEF Sets, Sound
  <1>4. Own' /\ Held' /\ Ended'
    BY <1>1, <1>2 DEF Own, Held, Ended
  <1>5. Unshared'
    BY <1>1 DEF Unshared, Sound
  <1> QED
    BY <1>3, <1>4, <1>5 DEF ScanInv

\* Nothing changes but that the turn of iv is over and some registers are free.
LEMMA PassKeeps ==
  ASSUME ScanInv, NEW iv \in todo, iv.v \in DOMAIN reg => iv.v \in Params,
         todo' = todo \ {iv}, UNCHANGED <<request, reg>>,
         active' \subseteq active,
         \A a \in active \ active' : \A t \in todo : a.end <= t.start,
         free' \cap Given = {}, \A a \in active' : reg[a.v] \notin free'
  PROVE  ScanInv'
  <1>1. Params' = Params /\ Given' = Given /\ Placed' = Placed
    <2>1. Params' = Params
      BY DEF Params
    <2>2. Given' = Given
      BY <2>1 DEF Given
    <2>3. Placed' = Placed
      BY <2>1 DEF Placed
    <2> QED
      BY <2>1, <2>2, <2>3
  <1>2. Sets'
    BY <1>1 DEF ScanInv, Sets, Sound
  <1>3. Own' /\ Held' /\ Ended'
    BY <1>1 DEF ScanInv, Sets, Own, Held, Ended
  <1>4. Unshared'
    BY DEF ScanInv, Unshared, Overlap
  <1> QED
    BY <1>2, <1>3, <1>4 DEF ScanInv

\* Interval iv gets register r: those that hold one from now on, and all that still
\* has one and has not ended, have others.
LEMMA GiveKeeps ==
  ASSUME ScanInv, NEW iv \in todo, iv.v \notin DOMAIN reg,
         NEW r, NEW holders, NEW map, Give(iv, r, holders, map),
         holders \subseteq active, \A a \in holders : a.v \in DOMAIN map,
         Params \subseteq DOMAIN map, DOMAIN map \subseteq DOMAIN reg,
         \A v \in DOMAIN map : map[v] = reg[v],
         \A a \in Placed \ holders : a.v \in DOMAIN map => \A t \in todo : a.end <= t.start,
         r \notin Given, r \notin free', free' \cap Given = {},
         \A a \in holders : reg[a.v] # r /\ reg[a.v] \notin free'
  PROVE  ScanInv'
  <1>1. /\ request' = request /\ todo' = todo \ {iv} /\ active' = holders \cup {iv}
        /\ DOMAIN reg' = DOMAIN map \cup {iv.v}
        /\ reg'[iv.v] = r /\ \A v \in DOMAIN map : reg'[v] = reg[v]
    BY DEF Give
  <1>2. Params' = Params /\ Given' = Given
    <2>1. Params' = Params
      BY <1>1 DEF Params
    <2> QED
      BY <1>1, <2>1 DEF Given
  <1>3. iv \in request.intervals /\ iv.v \notin Params /\ iv \notin holders
    <2>1. \A v \in Params : v \in DOMAIN reg
      BY DEF ScanInv, Own
    <2> QED
      BY <2>1, Pieces
  <1>4. \A a \in request.intervals : a # iv => a.v # iv.v
    BY <1>3, Pieces
  <1>5. Placed' = {a \in Placed : a.v \in DOMAIN map} \cup {iv}
    <2>1. ASSUME NEW a \in Placed' PROVE a = iv \/ (a \in Placed /\ a.v \in DOMAIN map)
      BY <1>1, <1>2, <1>4, <2>1 DEF Placed
    <2>2. iv \in Placed'
      BY <1>1, <1>2, <1>3 DEF Placed
    <2>3. ASSUME NEW a \in Placed, a.v \in DOMAIN map PROVE a \in Placed'
      BY <1>1, <1>2, <2>3 DEF Placed
    <2> QED
      BY <2>1, <2>2, <2>3
  <1>6. Sets'
    <2>1. Sound(request)' /\ todo' \subseteq request'.intervals
      BY <1>1 DEF ScanInv, Sets, Sound
    <2>2. active' \subseteq Placed'
      BY <1>1, <1>5 DEF ScanInv, Sets
    <2> QED
      BY <2>1, <2>2 DEF Sets
  <1>7. Own'
    <2>1. \A v \in Params : v \in DOMAIN reg' /\ reg'[v] = request'.params[v]
      BY <1>1 DEF ScanInv, Own
    <2>2. \A a \in Placed' : reg'[a.v] \notin Given
      BY <1>1, <1>5 DEF ScanInv, Own
    <2>3. \A a \in todo' : a.v \in DOMAIN reg' => a.v \in Params
      BY <1>1, <1>4, Pieces DEF ScanInv, Own
    <2> QED
      BY <1>2, <2>1, <2>2, <2>3 DEF Own
  <1>8. Held'
    <2>1. \A a \in holders : reg'[a.v] = reg[a.v]
      BY <1>1
    <2>2. \A a \in active' : reg'[a.v] \notin free'
      BY <1>1, <2>1
    <2>3. \A a, b \in active' : a # b => reg'[a.v] # reg'[b.v]
      <3>1. \A a, b \in holders : a # b => reg[a.v] # reg[b.v]
        BY DEF ScanInv, Held
      <3> QED
        BY <1>1, <2>1, <3>1
    <2> QED
      BY <2>2, <2>3 DEF Held
  <1>9. Ended'
    BY <1>1, <1>5 DEF Ended
  <1>10. Unshared'
    <2>1. ASSUME NEW b \in request.intervals, b.v # iv.v, b.v \in DOMAIN map, iv.start < b.end
          PROVE  reg[b.v] # r
      <3>1. CASE b.v \in Params
        <4>1. reg[b.v] \in Given
          BY <3>1 DEF ScanInv, Own, Given
        <4> QED
          BY <4>1
      <3>2. CASE b.v \notin Params
        <4>1. b \in Placed
          BY <2>1, <3>2 DEF ScanInv, Own, Placed
        <4>2. ~(b.end <= iv.start)
          BY <1>3, <2>1, Pieces
        <4> QED
          BY <2>1, <4>1, <4>2
      <3> QED
        BY <3>1, <3>2
    <2>2. ASSUME NEW a \in request.intervals, NEW b \in request.intervals, a.v # b.v,
                 a.v \in DOMAIN reg', b.v \in DOMAIN reg', Overlap(a, b)
          PROVE  reg'[a.v] # reg'[b.v]
      <3>1. CASE a.v = iv.v
        <4>1. b.v # iv.v /\ b.v \in DOMAIN map /\ a = iv /\ iv.start < b.end
          BY <1>1, <1>4, <2>2, <3>1 DEF Overlap
        <4> QED
          BY <1>1, <2>1, <3>1, <4>1
      <3>2. CASE b.v = iv.v
        <4>1. a.v # iv.v /\ a.v \in DOMAIN map /\ b = iv /\ iv.start < a.end
          BY <1>1, <1>4, <2>2, <3>2 DEF Overlap
        <4> QED
          BY <1>1, <2>1, <3>2, <4>1
      <3>3. CASE a.v # iv.v /\ b.v # iv.v
        <4>1. a.v \in DOMAIN map /\ b.v \in DOMAIN map
          BY <1>1, <2>2, <3>3
        <4>2. reg[a.v] # reg[b.v]
          BY <2>2, <4>1 DEF ScanInv, Unshared
        <4> QED
          BY <1>1, <4>1, <4>2
      <3> QED
        BY <3>1, <3>2, <3>3
    <2> QED
      BY <1>1, <2>2 DEF Unshared, Overlap
  <1> QED
    BY <1>6, <1>7, <1>8, <1>9, <1>10 DEF ScanInv
---------------------------------------------------------------------------
\* What has a register and does not go on holding it has ended.
LEMMA Rest ==
  ASSUME ScanInv, todo # {}
  PROVE  \A a \in Placed \ Running(Current) : \A t \in todo : a.end <= t.start
  <1>1. \A a \in active \ Running(Current) : \A t \in todo : a.end <= t.start
    BY TurnFirst, Expiry
  <1>2. \A a \in Placed \ active : \A t \in todo : a.end <= t.start
    BY DEF ScanInv, Ended
  <1> QED
    BY <1>1, <1>2

LEMMA SkipKeeps ==
  ASSUME ScanInv, Skip
  PROVE  ScanInv'
  <1>1. /\ todo # {} /\ Current.v \in DOMAIN reg /\ todo' = todo \ {Current}
        /\ UNCHANGED <<request, reg, free, active>>
    BY DEF Skip
  <1>2. Current \in todo
    BY <1>1, TurnFirst
  <1>3. Current.v \in Params
    BY <1>1, <1>2 DEF ScanInv, Own
  <1>4. free' \cap Given = {} /\ \A a \in active' : reg[a.v] \notin free'
    BY <1>1 DEF ScanInv, Own, Held
  <1> QED
    BY <1>1, <1>2, <1>3, <1>4, PassKeeps

LEMMA AssignKeeps ==
  ASSUME ScanInv, Assign
  PROVE  ScanInv'
  <1> DEFINE r == Pick(Current)
  <1>1. /\ todo # {} /\ Current.v \notin DOMAIN reg /\ Allowed(Current) # {}
        /\ Give(Current, r, Running(Current), reg) /\ free' = FreeAt(Current) \ {r}
    BY DEF Assign
  <1>2. Current \in todo /\ \A o \in todo : Current.start <= o.start
    BY <1>1, TurnFirst
  <1>3. /\ Running(Current) \subseteq active /\ FreeAt(Current) \cap Given = {}
        /\ \A a \in Running(Current) : reg[a.v] \notin FreeAt(Current)
    BY <1>2, Expiry
  <1>4. r \in FreeAt(Current)
    BY <1>1 DEF Pick, Allowed
  <1>5. \A a \in Running(Current) : a.v \in DOMAIN reg
    BY <1>3, Pieces
  <1>6. Params \subseteq DOMAIN reg
    BY DEF ScanInv, Own
  <1> HIDE DEF r
  <1>7. r \notin Given /\ r \notin free' /\ free' \cap Given = {}
    BY <1>1, <1>3, <1>4
  <1>8. \A a \in Running(Current) : reg[a.v] # r /\ reg[a.v] \notin free'
    BY <1>1, <1>3, <1>4
  <1> QED
    BY <1>1, <1>2, <1>3, <1>5, <1>6, <1>7, <1>8, Rest, GiveKeeps

LEMMA SpillOtherKeeps ==
  ASSUME ScanInv, SpillOther
  PROVE  ScanInv'
  <1> DEFINE l == Longest(Current)
             map == [v \in DOMAIN reg \ {l.v} |-> reg[v]]
             holders == Running(Current) \ {l}
  <1>1. /\ todo # {} /\ Current.v \notin DOMAIN reg /\ Running(Current) # {}
        /\ Give(Current, reg[l.v], holders, map) /\ free' = FreeAt(Current)
    BY DEF SpillOther
  <1>2. Current \in todo /\ \A o \in todo : Current.start <= o.start
    BY <1>1, TurnFirst
  <1>3. /\ Running(Current) \subseteq active /\ FreeAt(Current) \cap Given = {}
        /\ \A a \in Running(Current) : reg[a.v] \notin FreeAt(Current)
    BY <1>2, Expiry
  <1>4. l \in Running(Current)
    BY <1>1, LongestRuns
  <1> HIDE DEF l
  <1>5. l \in active /\ l.v \notin Params /\ l.v \in DOMAIN reg
    BY <1>3, <1>4, Pieces
  <1>6. DOMAIN map = DOMAIN reg \ {l.v} /\ \A v \in DOMAIN map : map[v] = reg[v]
    OBVIOUS
  <1> HIDE DEF map
  <1>7. /\ holders \subseteq active /\ \A a \in holders : a.v \in DOMAIN map
        /\ \A a \in holders : reg[a.v] # reg[l.v]
    <2>1. \A a \in holders : a \in active /\ a.v # l.v /\ a.v \in DOMAIN reg
      BY <1>3, <1>5, Pieces
    <2>2. \A a \in holders : reg[a.v] # reg[l.v]
      BY <1>5, <2>1 DEF ScanInv, Held
    <2> QED
      BY <1>6, <2>1, <2>2
  <1>8. Params \subseteq DOMAIN map
    BY <1>5, <1>6 DEF ScanInv, Own
  <1>9. \A a \in Placed \ holders : a.v \in DOMAIN map => \A t \in todo : a.end <= t.start
    BY <1>1, <1>6, Rest
  <1>10. reg[l.v] \notin Given /\ reg[l.v] \notin free' /\ free' \cap Given = {}
    <2>1. reg[l.v] \notin Given
      BY <1>5 DEF ScanInv, Sets, Own
    <2> QED
      BY <1>1, <1>3, <1>4, <2>1
  <1>11. \A a \in holders : reg[a.v] # reg[l.v] /\ reg[a.v] \notin free'
    BY <1>1, <1>3, <1>7
  <1>12. DOMAIN map \subseteq DOMAIN reg /\ \A v \in DOMAIN map : map[v] = reg[v]
    BY <1>6
  <1> HIDE DEF holders
  <1> QED
    BY <1>1, <1>2, <1>7, <1>8, <1>9, <1>10, <1>11, <1>12, GiveKeeps

LEMMA SpillSelfKeeps ==
  ASSUME ScanInv, SpillSelf
  PROVE  ScanInv'
  <1>1. /\ todo # {} /\ Current.v \notin DOMAIN reg /\ todo' = todo \ {Current}
        /\ free' = FreeAt(Current) /\ active' = Running(Current) /\ UNCHANGED <<request, reg>>
    BY DEF SpillSelf
  <1>2. Current \in todo /\ \A o \in todo : Current.start <= o.start
    BY <1>1, TurnFirst
  <1>3. /\ Running(Current) \subseteq active /\ FreeAt(Current) \cap Given = {}
        /\ \A a \in Running(Current) : reg[a.v] \notin FreeAt(Current)
        /\ \A a \in active \ Running(Current) : \A t \in todo : a.end <= t.start
    BY <1>2, Expiry
  <1> QED
    BY <1>1, <1>2, <1>3, PassKeeps

LEMMA PlaceKeeps ==
  ASSUME ScanInv, Place \/ UNCHANGED allocVars
  PROVE  ScanInv'
  <1>1. CASE UNCHANGED allocVars
    BY <1>1 DEF allocVars, ScanInv, Sets, Sound, Own, Held, Ended, Unshared, Overlap, Placed, Given, Params
  <1> QED
    BY <1>1, SkipKeeps, AssignKeeps, SpillOtherKeeps, SpillSelfKeeps DEF Place

LEMMA ScanNext == AllSound /\ ScanInv /\ [AllocNext]_allocVars => ScanInv'
  <1> SUFFICES ASSUME AllSound, ScanInv, [AllocNext]_allocVars PROVE ScanInv'
    OBVIOUS
  <1>1. CASE \E r \in Requests : Begin(r)
    BY <1>1, BeginKeeps DEF AllSound
  <1> QED
    BY <1>1, PlaceKeeps DEF AllocNext

---------------------------------------------------------------------------
\* The inductive invariant.  That no register is shared is not inductive: it takes
\* that the free list holds nothing that is held (Held), nothing of the parameters
\* (Own), and that whatever lost its register without being spilled has ended
\* before everything that is still to come (Ended).
THEOREM ScanSafety == AllSound /\ AllocSpec => []ScanInv
  <1> SUFFICES ASSUME AllSound PROVE AllocSpec => []ScanInv
    OBVIOUS
  <1>1. ScanInv /\ [AllocNext]_allocVars => ScanInv'
    BY ScanNext
  <1> QED
    BY <1>1, ScanInit, PTL DEF AllocSpec

---------------------------------------------------------------------------
\* Slots are taken in order and never given back.
SlotInv ==
  /\ slots \in Nat /\ \A v \in DOMAIN slot : slot[v] \in Nat /\ slot[v] < slots
  /\ Stored

LEMMA ToSlotKeeps ==
  ASSUME SlotInv, NEW v, ToSlot(v)
  PROVE  /\ slots' \in Nat /\ \A w \in DOMAIN slot' : slot'[w] \in Nat /\ slot'[w] < slots'
         /\ DOMAIN slot' = DOMAIN slot \cup {v}
         /\ \A w, u \in DOMAIN slot' : slot'[w] = slot'[u] => w = u
  <1>1. /\ DOMAIN slot' = DOMAIN slot \cup {v} /\ slot'[v] = slots /\ slots' = slots + 1
        /\ \A w \in DOMAIN slot : w # v => slot'[w] = slot[w]
    BY DEF ToSlot
  <1>2. slots \in Nat /\ \A w \in DOMAIN slot : slot[w] \in Nat /\ slot[w] < slots
    BY DEF SlotInv
  <1>3. \A w \in DOMAIN slot' : w # v => slot'[w] \in Nat /\ slot'[w] < slots
    BY <1>1, <1>2
  <1>4. slots' \in Nat /\ \A w \in DOMAIN slot' : slot'[w] \in Nat /\ slot'[w] < slots'
    BY <1>1, <1>2, <1>3
  <1>5. ASSUME NEW w \in DOMAIN slot', NEW u \in DOMAIN slot', slot'[w] = slot'[u] PROVE w = u
    <2>1. CASE w # v /\ u # v
      BY <1>1, <1>5, <2>1 DEF SlotInv, Stored
    <2>2. CASE w = v \/ u = v
      BY <1>1, <1>2, <1>3, <1>5, <2>2
    <2> QED
      BY <2>1, <2>2
  <1> QED
    BY <1>1, <1>4, <1>5

LEMMA BeginStores ==
  ASSUME NEW r, Sound(r), Begin(r)
  PROVE  SlotInv'
  <1>1. slot' = r.stacked /\ slots' = Cardinality(DOMAIN r.stacked) /\ request'.intervals \ todo' = {}
    BY DEF Begin
  <1>2. Cardinality(DOMAIN r.stacked) \in Nat
    BY FS_CardinalityType DEF Sound
  <1> QED
    BY <1>1, <1>2 DEF SlotInv, Stored, Sound

LEMMA PlaceStores ==
  ASSUME SlotInv, Place \/ UNCHANGED allocVars
  PROVE  SlotInv'
  <1>1. CASE Skip
    BY <1>1 DEF Skip, SlotInv, Stored
  <1>2. CASE Assign
    BY <1>2 DEF Assign, Give, SlotInv, Stored
  <1>3. CASE SpillOther
    <2> DEFINE l == Longest(Current)
    <2>1. /\ ToSlot(l.v) /\ request' = request /\ todo' = todo \ {Current}
          /\ DOMAIN reg' = (DOMAIN reg \ {l.v}) \cup {Current.v}
      BY <1>3 DEF SpillOther, Give
    <2> HIDE DEF l
    <2>2. /\ slots' \in Nat /\ \A w \in DOMAIN slot' : slot'[w] \in Nat /\ slot'[w] < slots'
          /\ DOMAIN slot' = DOMAIN slot \cup {l.v}
          /\ \A w, u \in DOMAIN slot' : slot'[w] = slot'[u] => w = u
      BY <2>1, ToSlotKeeps
    <2>3. \A a \in request'.intervals \ todo' : a.v \in DOMAIN reg' \cup DOMAIN slot'
      BY <2>1, <2>2 DEF SlotInv, Stored
    <2> QED
      BY <2>2, <2>3 DEF SlotInv, Stored
  <1>4. CASE SpillSelf
    <2>1. ToSlot(Current.v) /\ todo' = todo \ {Current} /\ UNCHANGED <<request, reg>>
      BY <1>4 DEF SpillSelf
    <2>2. /\ slots' \in Nat /\ \A w \in DOMAIN slot' : slot'[w] \in Nat /\ slot'[w] < slots'
          /\ DOMAIN slot' = DOMAIN slot \cup {Current.v}
          /\ \A w, u \in DOMAIN slot' : slot'[w] = slot'[u] => w = u
      BY <2>1, ToSlotKeeps
    <2>3. \A a \in request'.intervals \ todo' : a.v \in DOMAIN reg' \cup DOMAIN slot'
      BY <2>1, <2>2 DEF SlotInv, Stored
    <2> QED
      BY <2>2, <2>3 DEF SlotInv, Stored
  <1>5. CASE UNCHANGED allocVars
    BY <1>5 DEF allocVars, SlotInv, Stored
  <1> QED
    BY <1>1, <1>2, <1>3, <1>4, <1>5 DEF Place

LEMMA SlotNext == AllSound /\ SlotInv /\ [AllocNext]_allocVars => SlotInv'
  BY BeginStores, PlaceStores DEF AllSound, AllocNext

\* Every value that had its turn has a register or a slot, also one that lost its
\* register to another, and spilled values never meet in a slot.
THEOREM AlwaysStored == AllSound /\ AllocSpec => []Stored
  <1> SUFFICES ASSUME AllSound PROVE AllocSpec => []Stored
    OBVIOUS
  <1>1. AllocInit => SlotInv
    BY DEF AllocInit, Nothing, SlotInv, Stored
  <1>2. SlotInv /\ [AllocNext]_allocVars => SlotInv'
    BY SlotNext
  <1>3. SlotInv => Stored
    BY DEF SlotInv
  <1> QED
    BY <1>1, <1>2, <1>3, PTL DEF AllocSpec

\* In no state of the allocation do two values whose intervals overlap have the
\* same register, nor two values the same slot: _expire_old_intervals, the free
\* list, the pre-assigned parameters and the theft of a register by
\* _spill_at_interval agree.
THEOREM NeverShared == AllSound /\ AllocSpec => []NoSharing
  <1>1. ScanInv /\ Stored => NoSharing
    BY DEF ScanInv, NoSharing
  <1> QED
    BY <1>1, ScanSafety, AlwaysStored, PTL

---------------------------------------------------------------------------
\* The intervals.

\* The blocks follow each other in their order, without a gap, from 0 on.
LEMMA Before ==
  ASSUME NEW ir, Numbered(ir)
  PROVE  \E b \in [0 .. Len(ir.order) -> Nat] :
           /\ b[0] = 0 /\ \A k \in 1 .. Len(ir.order) : b[k] = b[k - 1] + Len(ir.code[ir.order[k]])
           /\ StartOf(ir) = [l \in Labels(ir) |-> b[(CHOOSE k \in DOMAIN ir.order : ir.order[k] = l) - 1]]
<1> DEFINE n == Len(ir.order)
           size == [k \in 1 .. n |-> Len(ir.code[ir.order[k]])]
           Eq(g) == g = [k \in 0 .. n |-> IF k = 0 THEN 0 ELSE g[k - 1] + Len(ir.code[ir.order[k]])]
           F == [k \in 1 .. n |-> [x \in Nat |-> x + size[k]]]
           c == CHOOSE g : Eq(g)
<1>1. n \in Nat /\ DOMAIN ir.order = 1 .. n
  BY DEF Numbered
<1>2. \A k \in 1 .. n : size[k] = Len(ir.code[ir.order[k]]) /\ size[k] \in Nat
  <2>1. ASSUME NEW k \in 1 .. n PROVE Len(ir.code[ir.order[k]]) \in Nat
    <3>1. ir.order[k] \in Labels(ir)
      BY <1>1 DEF Labels
    <3>2. ir.code[ir.order[k]] \in Seq({ir.code[ir.order[k]][i] : i \in DOMAIN ir.code[ir.order[k]]})
      BY <3>1 DEF Numbered
    <3> QED BY <3>2
  <2> QED BY <2>1
<1>3. PICK f : Unfolds(f, n, Nat, 0, F)
  <2>1. F \in [1 .. n -> [Nat -> Nat]]
    <3> HIDE DEF size
    <3> QED BY <1>2
  <2> HIDE DEF F, n
  <2> QED BY <1>1, <2>1, Recursion
<1>4. f \in [0 .. n -> Nat] /\ f[0] = 0 /\ \A k \in 1 .. n : f[k] = F[k][f[k - 1]]
  <2> HIDE DEF F, n
  <2> QED BY <1>3 DEF Unfolds
<1>5. Eq(f)
  <2>1. ASSUME NEW k \in 0 .. n PROVE f[k] = IF k = 0 THEN 0 ELSE f[k - 1] + Len(ir.code[ir.order[k]])
    <3>1. CASE k = 0
      BY <1>4, <3>1
    <3>2. CASE k # 0
      <4>1. k \in 1 .. n /\ k - 1 \in 0 .. n /\ f[k - 1] \in Nat
        BY <1>1, <1>4, <3>2
      <4>2. F[k][f[k - 1]] = f[k - 1] + size[k]
        BY <4>1
      <4>3. f[k] = F[k][f[k - 1]]
        BY <1>4, <4>1
      <4> QED BY <1>2, <3>2, <4>1, <4>2, <4>3
    <3> QED BY <3>1, <3>2
  <2> DEFINE e(k) == IF k = 0 THEN 0 ELSE f[k - 1] + Len(ir.code[ir.order[k]])
  <2>2. \A k \in 0 .. n : e(k) = f[k]
    BY <2>1
  <2>3. [k \in 0 .. n |-> e(k)] = [k \in 0 .. n |-> f[k]]
    <3> HIDE DEF e
    <3> QED BY <2>2
  <2>4. f = [k \in 0 .. n |-> f[k]]
    BY <1>4
  <2> QED BY <2>3, <2>4 DEF e
<1>6. Eq(c)
  <2> HIDE DEF Eq
  <2> QED BY <1>5
<1>7. StartOf(ir) = [l \in Labels(ir) |-> c[(CHOOSE k \in DOMAIN ir.order : ir.order[k] = l) - 1]]
  BY DEF StartOf
<1>8. c[0] = 0 /\ \A k \in 1 .. n : c[k] = c[k - 1] + Len(ir.code[ir.order[k]])
  <2> HIDE DEF c
  <2>1. \A k \in 0 .. n : c[k] = IF k = 0 THEN 0 ELSE c[k - 1] + Len(ir.code[ir.order[k]])
    BY <1>6
  <2> QED BY <1>1, <2>1
<1>9. c \in [0 .. n -> Nat]
  <2> DEFINE S == {k \in 0 .. n : c[k] \in Nat}
  <2>1. 0 \in S
    BY <1>1, <1>8
  <2>2. ASSUME NEW k \in 1 .. n, k - 1 \in S PROVE k \in S
    <3> HIDE DEF c, size
    <3> QED BY <1>2, <1>8, <2>2
  <2>3. \A k \in 0 .. n : k \in S
    <3> HIDE DEF S, n, c
    <3> QED BY <1>1, <2>1, <2>2, UpTo
  <2> HIDE DEF c
  <2>4. c = [k \in 0 .. n |-> c[k]]
    BY <1>6
  <2> QED BY <2>3, <2>4
<1> QED
  <2> HIDE DEF c
  <2> QED BY <1>7, <1>8, <1>9

\* The length of a block.
Size(ir, l) == Len(ir.code[l])
\* Blocks are not empty, and their labels are those of the order.
LEMMA Sizes ==
  ASSUME NEW ir, Numbered(ir)
  PROVE  /\ Len(ir.order) \in Nat /\ DOMAIN ir.order = 1 .. Len(ir.order)
         /\ \A l \in Labels(ir) :
              Size(ir, l) \in Nat \ {0} /\ DOMAIN ir.code[l] = 1 .. Size(ir, l) /\ Succs(ir, l) \subseteq Labels(ir)
         /\ \A l \in Labels(ir) : \E k \in 1 .. Len(ir.order) : ir.order[k] = l
         /\ \A k \in 1 .. Len(ir.order) : ir.order[k] \in Labels(ir)
         /\ \A i, j \in 1 .. Len(ir.order) : ir.order[i] = ir.order[j] => i = j
<1>1. Len(ir.order) \in Nat /\ DOMAIN ir.order = 1 .. Len(ir.order)
  BY DEF Numbered
<1>2. ASSUME NEW l \in Labels(ir)
      PROVE  Size(ir, l) \in Nat \ {0} /\ DOMAIN ir.code[l] = 1 .. Size(ir, l) /\ Succs(ir, l) \subseteq Labels(ir)
  <2> DEFINE c == ir.code[l]  D == {c[i] : i \in DOMAIN c}
  <2>1. c \in Seq(D) /\ c # <<>> /\ Succs(ir, l) \subseteq Labels(ir)
    BY DEF Numbered
  <2>2. Len(c) \in Nat \ {0} /\ DOMAIN c = 1 .. Len(c)
    <3> HIDE DEF c, D
    <3> QED BY <2>1
  <2> QED BY <2>1, <2>2 DEF Size
<1>3. \A l \in Labels(ir) : \E k \in DOMAIN ir.order : ir.order[k] = l
  BY DEF Labels
<1>4. \A k \in DOMAIN ir.order : ir.order[k] \in Labels(ir)
  BY DEF Labels
<1>5. \A i, j \in DOMAIN ir.order : ir.order[i] = ir.order[j] => i = j
  BY DEF Numbered
<1> QED
  BY <1>1, <1>2, <1>3, <1>4, <1>5

\* Where a block starts, the ones before it have ended.
LEMMA Blocks ==
  ASSUME NEW ir, Numbered(ir)
  PROVE  /\ StartOf(ir) \in [Labels(ir) -> Nat]
         /\ \A i \in 1 .. Len(ir.order) : \A j \in 1 .. Len(ir.order) :
              i < j => StartOf(ir)[ir.order[i]] + Size(ir, ir.order[i]) <= StartOf(ir)[ir.order[j]]
         /\ \E n \in Nat : \A l \in Labels(ir) : StartOf(ir)[l] + Size(ir, l) <= n
<1> DEFINE n == Len(ir.order)
<1>1. PICK b \in [0 .. n -> Nat] :
        /\ b[0] = 0 /\ \A k \in 1 .. n : b[k] = b[k - 1] + Size(ir, ir.order[k])
        /\ StartOf(ir) = [l \in Labels(ir) |-> b[(CHOOSE k \in DOMAIN ir.order : ir.order[k] = l) - 1]]
  BY Before DEF Size
<1>2. n \in Nat /\ DOMAIN ir.order = 1 .. n
  BY Sizes
<1>3. ASSUME NEW k \in 1 .. n PROVE StartOf(ir)[ir.order[k]] = b[k - 1]
  <2>1. ir.order[k] \in Labels(ir)
    BY Sizes
  <2>2. (CHOOSE j \in DOMAIN ir.order : ir.order[j] = ir.order[k]) = k
    BY <1>2, Sizes
  <2> QED BY <1>1, <2>1, <2>2
<1>4. ASSUME NEW k \in 1 .. n
      PROVE  /\ k - 1 \in 0 .. n /\ b[k - 1] \in Nat /\ b[k] \in Nat
             /\ b[k] = b[k - 1] + Size(ir, ir.order[k]) /\ Size(ir, ir.order[k]) \in Nat
  <2>1. k - 1 \in 0 .. n /\ k \in 0 .. n
    BY <1>2
  <2> QED BY <1>1, <2>1, Sizes
<1>5. \A k \in 0 .. n : \A j \in 0 .. k : b[j] <= b[k]
  <2> DEFINE S == {k \in 0 .. n : \A j \in 0 .. k : b[j] <= b[k]}
  <2>1. 0 \in S
    BY <1>1, <1>2
  <2>2. ASSUME NEW k \in 1 .. n, k - 1 \in S PROVE k \in S
    <3>1. ASSUME NEW j \in 0 .. k PROVE b[j] <= b[k]
      <4>1. CASE j = k
        BY <1>4, <4>1
      <4>2. CASE j # k
        <5>1. j \in 0 .. k - 1 /\ j \in 0 .. n /\ b[j] \in Nat
          BY <1>1, <1>2, <4>2
        <5>2. b[j] <= b[k - 1]
          BY <2>2, <5>1
        <5> QED BY <1>4, <5>1, <5>2
      <4> QED BY <4>1, <4>2
    <3> QED BY <1>2, <3>1
  <2>3. \A k \in 0 .. n : k \in S
    <3> HIDE DEF S, n
    <3> QED BY <1>2, <2>1, <2>2, UpTo
  <2> QED BY <2>3
<1>6. StartOf(ir) \in [Labels(ir) -> Nat]
  <2>1. ASSUME NEW l \in Labels(ir) PROVE StartOf(ir)[l] \in Nat
    <3>1. PICK k \in 1 .. n : ir.order[k] = l
      BY Sizes
    <3> QED BY <1>3, <1>4, <3>1
  <2> QED BY <1>1, <2>1
<1>7. ASSUME NEW i \in 1 .. n, NEW j \in 1 .. n, i < j
      PROVE  StartOf(ir)[ir.order[i]] + Size(ir, ir.order[i]) <= StartOf(ir)[ir.order[j]]
  <2>1. i \in 0 .. j - 1 /\ j - 1 \in 0 .. n
    BY <1>2, <1>7
  <2>2. b[i] <= b[j - 1]
    BY <1>5, <2>1
  <2>3. StartOf(ir)[ir.order[i]] + Size(ir, ir.order[i]) = b[i]
    BY <1>3, <1>4
  <2> QED BY <1>3, <2>2, <2>3
<1>8. \A l \in Labels(ir) : StartOf(ir)[l] + Size(ir, l) <= b[n] /\ b[n] \in Nat
  <2> SUFFICES ASSUME NEW l \in Labels(ir) PROVE StartOf(ir)[l] + Size(ir, l) <= b[n] /\ b[n] \in Nat
    OBVIOUS
  <2>1. PICK k \in 1 .. n : ir.order[k] = l
    BY Sizes
  <2>2. k \in 0 .. n /\ n \in 0 .. n
    BY <1>2
  <2>3. b[k] <= b[n]
    BY <1>5, <2>2
  <2>4. StartOf(ir)[l] + Size(ir, l) = b[k]
    BY <1>3, <1>4, <2>1
  <2>5. b[n] \in Nat
    BY <1>1, <2>2
  <2> QED BY <2>3, <2>4, <2>5
<1>9. \E m \in Nat : \A l \in Labels(ir) : StartOf(ir)[l] + Size(ir, l) <= m
  <2>1. b[n] \in Nat
    BY <1>1, <1>2
  <2> QED BY <1>8, <2>1
<1>10. \A i \in 1 .. Len(ir.order) : \A j \in 1 .. Len(ir.order) :
         i < j => StartOf(ir)[ir.order[i]] + Size(ir, ir.order[i]) <= StartOf(ir)[ir.order[j]]
  BY <1>7
<1> QED
  BY <1>6, <1>9, <1>10

\* No two blocks are numbered alike, nor run into each other.
LEMMA BlocksApart ==
  ASSUME NEW ir, Numbered(ir), NEW l \in Labels(ir), NEW s \in Labels(ir)
  PROVE  /\ StartOf(ir)[l] < StartOf(ir)[s] => StartOf(ir)[l] + Size(ir, l) <= StartOf(ir)[s]
         /\ StartOf(ir)[l] = StartOf(ir)[s] => l = s
<1>1. PICK i \in 1 .. Len(ir.order) : ir.order[i] = l
  BY Sizes
<1>2. PICK j \in 1 .. Len(ir.order) : ir.order[j] = s
  BY Sizes
<1>3. /\ Len(ir.order) \in Nat /\ StartOf(ir)[l] \in Nat /\ StartOf(ir)[s] \in Nat
      /\ Size(ir, l) \in Nat \ {0} /\ Size(ir, s) \in Nat \ {0}
  BY Sizes, Blocks
<1>4. CASE i = j
  BY <1>1, <1>2, <1>3, <1>4
<1>5. CASE i < j
  <2>1. StartOf(ir)[l] + Size(ir, l) <= StartOf(ir)[s]
    BY <1>1, <1>2, <1>5, Blocks
  <2> QED BY <1>3, <2>1
<1>6. CASE j < i
  <2>1. StartOf(ir)[s] + Size(ir, s) <= StartOf(ir)[l]
    BY <1>1, <1>2, <1>6, Blocks
  <2> QED BY <1>3, <2>1
<1> QED
  BY <1>3, <1>4, <1>5, <1>6

\* The numbers of the instructions of a block.
LEMMA Positions ==
  ASSUME NEW ir, Numbered(ir), NEW p \in Points(ir)
  PROVE  /\ p[1] \in Labels(ir) /\ p[2] \in 1 .. Size(ir, p[1])
         /\ PosOf(StartOf(ir), p) \in Nat
         /\ PosOf(StartOf(ir), p) = StartOf(ir)[p[1]] + p[2] - 1
         /\ StartOf(ir)[p[1]] <= PosOf(StartOf(ir), p)
         /\ PosOf(StartOf(ir), p) < StartOf(ir)[p[1]] + Size(ir, p[1])
<1>1. PICK l \in Labels(ir) : \E i \in DOMAIN ir.code[l] : p = <<l, i>>
  BY DEF Points
<1>2. PICK i \in DOMAIN ir.code[l] : p = <<l, i>>
  BY <1>1
<1>3. i \in 1 .. Size(ir, l) /\ Size(ir, l) \in Nat /\ StartOf(ir)[l] \in Nat
  BY <1>2, Sizes, Blocks
<1>4. p[1] = l /\ p[2] = i
  BY <1>2
<1>5. PosOf(StartOf(ir), p) = StartOf(ir)[l] + i - 1
  BY <1>4 DEF PosOf
<1> QED
  BY <1>3, <1>4, <1>5

\* An interval of v: from where v comes from to behind what reads it.
IsRange(ir, at, v, iv) ==
  /\ v \in Parameters(ir) => iv.start = 0
  /\ \A p \in Points(ir) : InstAt(ir, p).r = v => iv.start = PosOf(at, p) /\ PosOf(at, p) < iv.end
  /\ \A p \in Points(ir) :
       /\ v \in Parameters(ir) \/ iv.start < PosOf(at, p)
       /\ \E j \in DOMAIN InstAt(ir, p).a : InstAt(ir, p).a[j] = v
       => PosOf(at, p) < iv.end\* Intervals, as numbers.
Pairs == [start : Nat, end : Nat]

\* No parameter is 0.
LEMMA ZeroNoValue == ASSUME NEW ir, Numbered(ir) PROVE 0 \notin ValuesOf(ir)
  BY DEF ValuesOf, Parameters, Numbered

\* What is not a parameter is computed, once.
LEMMA ComputedOnce ==
  ASSUME NEW ir, Numbered(ir), OnceComputed(ir), NEW v \in ValuesOf(ir)
  PROVE  /\ v \notin Parameters(ir) => \E p \in Points(ir) : InstAt(ir, p).r = v
         /\ v \in Parameters(ir) => \A p \in Points(ir) : InstAt(ir, p).r # v
         /\ \A p \in Points(ir) : \A q \in Points(ir) : InstAt(ir, p).r = v /\ InstAt(ir, q).r = v => p = q
<1>1. v # 0
  BY ZeroNoValue
<1>2. v \notin Parameters(ir) => \E p \in Points(ir) : InstAt(ir, p).r = v
  BY DEF ValuesOf
<1>3. ASSUME NEW p \in Points(ir), InstAt(ir, p).r = v
      PROVE  v \notin Parameters(ir) /\ \A q \in Points(ir) : InstAt(ir, q).r = v => p = q
  BY <1>1, <1>3 DEF OnceComputed
<1> QED
  BY <1>2, <1>3

\* From its definition to its last use.
LEMMA RangeOfValue ==
  ASSUME NEW ir, Numbered(ir), OnceComputed(ir), NEW v \in ValuesOf(ir)
  PROVE  Ranges(ir, StartOf(ir))[v] \in Pairs /\ IsRange(ir, StartOf(ir), v, Ranges(ir, StartOf(ir))[v])
<1> DEFINE at == StartOf(ir)
           start == Origin(ir, at, v)
           least == IF v \in Parameters(ir) THEN 0 ELSE start + 1
           uses == UsesFrom(ir, at, v, least)
           iv == Ranges(ir, at)[v]
<1>1. iv = [start |-> start, end |-> Max({least} \cup uses)]
  BY DEF Ranges
<1>2. /\ start \in Nat /\ (v \in Parameters(ir) => start = 0)
      /\ \A p \in Points(ir) : InstAt(ir, p).r = v => start = PosOf(at, p)
  <2>1. CASE v \in Parameters(ir)
    <3>1. start = 0
      BY <2>1 DEF Origin
    <3> QED BY <2>1, <3>1, ComputedOnce
  <2>2. CASE v \notin Parameters(ir)
    <3>1. PICK p \in Points(ir) : InstAt(ir, p).r = v
      BY <2>2, ComputedOnce
    <3>2. (CHOOSE q \in Points(ir) : InstAt(ir, q).r = v) = p
      BY <3>1, ComputedOnce
    <3>3. start = PosOf(at, p)
      BY <2>2, <3>2 DEF Origin
    <3>4. \A q \in Points(ir) : InstAt(ir, q).r = v => q = p
      BY <3>1, ComputedOnce
    <3>5. PosOf(at, p) \in Nat
      BY Positions
    <3> QED BY <2>2, <3>3, <3>4, <3>5
  <2> QED BY <2>1, <2>2
<1>3. least \in Nat
  <2> HIDE DEF start
  <2> QED BY <1>2
<1>4. PICK n \in Nat : \A l \in Labels(ir) : at[l] + Size(ir, l) <= n
  BY Blocks
<1>5. \A p \in Points(ir) : PosOf(at, p) \in Nat /\ PosOf(at, p) + 1 <= n
  <2> SUFFICES ASSUME NEW p \in Points(ir) PROVE PosOf(at, p) \in Nat /\ PosOf(at, p) + 1 <= n
    OBVIOUS
  <2>1. p[1] \in Labels(ir) /\ PosOf(at, p) \in Nat /\ PosOf(at, p) < at[p[1]] + Size(ir, p[1])
    BY Positions
  <2>2. at[p[1]] \in Nat /\ Size(ir, p[1]) \in Nat
    BY <2>1, Blocks, Sizes
  <2> HIDE DEF at
  <2> QED BY <1>4, <2>1, <2>2
<1>6. uses \subseteq Nat /\ \A u \in uses : u <= n
  <2> HIDE DEF at, start, least
  <2> QED BY <1>5 DEF UsesFrom
<1>7. \A p \in Points(ir) :
        PosOf(at, p) >= least /\ (\E j \in DOMAIN InstAt(ir, p).a : InstAt(ir, p).a[j] = v) => PosOf(at, p) + 1 \in uses
  <2> HIDE DEF at, start, least
  <2> QED BY DEF UsesFrom
<1> DEFINE U == {least} \cup uses
<1>8. Max(U) \in Nat /\ \A u \in U : u <= Max(U)
  <2>1. U \subseteq Nat /\ U # {} /\ n + least \in Nat /\ \A u \in U : u <= n + least
    <3> HIDE DEF at, start, least, uses
    <3> QED BY <1>3, <1>6
  <2> HIDE DEF U
  <2> QED BY <2>1, BoundedMax
<1>9. iv.start = start /\ iv.end = Max(U) /\ iv \in Pairs
  <2> HIDE DEF iv, start, U, least, uses
  <2>1. iv = [start |-> start, end |-> Max(U)]
    BY <1>1 DEF U
  <2> QED BY <1>2, <1>8, <2>1 DEF Pairs
<1>10. least <= Max(U) /\ \A u \in uses : u <= Max(U)
  BY <1>8
<1>11. IsRange(ir, at, v, iv)
  <2>1. v \in Parameters(ir) => iv.start = 0
    BY <1>2, <1>9
  <2>2. ASSUME NEW p \in Points(ir), InstAt(ir, p).r = v PROVE iv.start = PosOf(at, p) /\ PosOf(at, p) < iv.end
    <3>1. v \notin Parameters(ir)
      BY <2>2, ComputedOnce
    <3>2. start = PosOf(at, p) /\ least = PosOf(at, p) + 1
      BY <1>2, <2>2, <3>1
    <3> HIDE DEF iv, start, U, least, uses, at
    <3> QED BY <1>5, <1>8, <1>9, <1>10, <3>2
  <2>3. ASSUME NEW p \in Points(ir), v \in Parameters(ir) \/ iv.start < PosOf(at, p),
               \E j \in DOMAIN InstAt(ir, p).a : InstAt(ir, p).a[j] = v
        PROVE  PosOf(at, p) < iv.end
    <3>1. PosOf(at, p) >= least
      <4>1. PosOf(at, p) \in Nat
        BY <1>5
      <4>2. CASE v \in Parameters(ir)
        BY <4>1, <4>2
      <4>3. CASE v \notin Parameters(ir)
        <5> HIDE DEF at, iv, start
        <5> QED BY <1>2, <1>9, <2>3, <4>1, <4>3
      <4> QED BY <4>2, <4>3
    <3>2. PosOf(at, p) + 1 \in uses
      BY <1>7, <2>3, <3>1
    <3> HIDE DEF iv, start, U, least, uses, at
    <3> QED BY <1>5, <1>8, <1>9, <1>10, <3>2
  <2> HIDE DEF iv, at
  <2> QED BY <2>1, <2>2, <2>3 DEF IsRange
<1> QED
  BY <1>9, <1>11

\* The ends may grow.
Longer(iv, jv) == jv.start = iv.start /\ iv.end <= jv.end
\* An interval that grows is one still.
LEMMA LongerRange ==
  ASSUME NEW ir, Numbered(ir), NEW v, NEW iv \in Pairs, NEW jv \in Pairs,
         Longer(iv, jv), IsRange(ir, StartOf(ir), v, iv)
  PROVE  IsRange(ir, StartOf(ir), v, jv)
<1>1. iv.end \in Nat /\ jv.end \in Nat /\ jv.start = iv.start /\ iv.end <= jv.end
  BY DEF Pairs, Longer
<1>2. \A p \in Points(ir) : PosOf(StartOf(ir), p) \in Nat
  BY Positions
<1> QED
  BY <1>1, <1>2 DEF IsRange

\* One block: what is live at the head of an edge back ends behind the block.
LEMMA OneStretch ==
  ASSUME NEW ir, Numbered(ir), NEW V, NEW ivs \in [V -> Pairs], NEW l \in Labels(ir)
  PROVE  LET at == StartOf(ir)
             new == Stretch(ir, at, ivs, l)
         IN /\ new \in [V -> Pairs]
            /\ \A v \in V :
                 /\ new[v].start = ivs[v].start
                 /\ new[v] = ivs[v] \/ (new[v].end = at[l] + Size(ir, l) /\ ivs[v].end <= new[v].end)
                 /\ \A head \in BackTo(ir, at, l) :
                      ivs[v].start <= head /\ head < ivs[v].end => at[l] + Size(ir, l) <= new[v].end
<1> DEFINE at == StartOf(ir)
           new == Stretch(ir, at, ivs, l)
           e == at[l] + Size(ir, l)
           Alive(v) == \E head \in BackTo(ir, at, l) : ivs[v].start <= head /\ ivs[v].end > head
<1>1. e \in Nat /\ EndOf(ir, at, l) = e
  BY Blocks, Sizes DEF EndOf, Size
<1>2. \A head \in BackTo(ir, at, l) : head \in Nat
  BY Blocks DEF BackTo
<1>3. ASSUME NEW v \in V
      PROVE  /\ new[v] \in Pairs /\ new[v].start = ivs[v].start
             /\ new[v] = ivs[v] \/ (new[v].end = e /\ ivs[v].end <= new[v].end)
             /\ Alive(v) => e <= new[v].end
  <2> DEFINE iv == ivs[v]
  <2>1. iv \in Pairs /\ iv.end \in Nat
    BY DEF Pairs
  <2>2. new[v] = IF Alive(v) THEN [iv EXCEPT !.end = Max({iv.end, e})] ELSE iv
    BY <1>1 DEF Stretch
  <2>3. Max({iv.end, e}) = IF iv.end >= e THEN iv.end ELSE e
    <3>1. ASSUME NEW x \in Nat, NEW y \in Nat PROVE Max({x, y}) = IF x >= y THEN x ELSE y
      BY DEF Max
    <3> HIDE DEF e, iv
    <3> QED BY <1>1, <2>1, <3>1
  <2>4. CASE ~ Alive(v)
    <3> HIDE DEF Alive, new, e
    <3> QED BY <2>1, <2>2, <2>4
  <2>5. CASE Alive(v)
    <3>1. new[v] = [iv EXCEPT !.end = Max({iv.end, e})]
      <4> HIDE DEF Alive, new, e, iv
      <4> QED BY <2>2, <2>5
    <3> DEFINE m == Max({iv.end, e})
    <3>2. m \in Nat /\ iv.end <= m /\ e <= m /\ (m = iv.end \/ m = e)
      <4> HIDE DEF e, iv
      <4> QED BY <1>1, <2>1, <2>3
    <3>3. new[v] \in Pairs /\ new[v].start = iv.start /\ new[v].end = m
      <4> HIDE DEF m, new, e, iv
      <4> QED BY <2>1, <3>1, <3>2 DEF Pairs, m
    <3>4. m = iv.end => new[v] = iv
      <4> HIDE DEF m, new, e, iv
      <4> QED BY <2>1, <3>1 DEF Pairs, m
    <3> HIDE DEF m, new, e, Alive
    <3> QED BY <3>2, <3>3, <3>4
  <2> QED BY <2>4, <2>5
<1>4. new \in [V -> Pairs]
  <2>1. new = [v \in V |-> new[v]]
    BY DEF Stretch
  <2> HIDE DEF new
  <2> QED BY <1>3, <2>1
<1>5. ASSUME NEW v \in V, NEW head \in BackTo(ir, at, l), ivs[v].start <= head /\ head < ivs[v].end PROVE e <= new[v].end
  <2>1. ivs[v].end \in Nat /\ head \in Nat
    BY <1>2 DEF Pairs
  <2>2. Alive(v)
    BY <1>5, <2>1
  <2> HIDE DEF new, e, Alive
  <2> QED BY <1>3, <2>2
<1>6. \A v \in V :
        /\ new[v].start = ivs[v].start
        /\ new[v] = ivs[v] \/ (new[v].end = e /\ ivs[v].end <= new[v].end)
        /\ \A head \in BackTo(ir, at, l) : ivs[v].start <= head /\ head < ivs[v].end => e <= new[v].end
  <2> HIDE DEF new, e
  <2> QED BY <1>3, <1>5
<1> QED
  BY <1>4, <1>6

\* What is live at the head of an edge back from l is so to the end of l.
Closed(ir, l, iv) ==
  \A head \in BackTo(ir, StartOf(ir), l) :
    iv.start <= head /\ head < iv.end => StartOf(ir)[l] + Size(ir, l) <= iv.end

\* The blocks are gone over in their order.
LEMMA Stretches ==
  ASSUME NEW ir, Numbered(ir), NEW V, NEW ivs \in [V -> Pairs]
  PROVE  \E c \in [0 .. Len(ir.order) -> [V -> Pairs]] :
           /\ c[0] = ivs /\ c[Len(ir.order)] = StretchAll(ir, StartOf(ir), ivs)
           /\ \A k \in 1 .. Len(ir.order) : c[k] = Stretch(ir, StartOf(ir), c[k - 1], ir.order[k])
<1> DEFINE n == Len(ir.order)
           at == StartOf(ir)
           P == [V -> Pairs]
           One(x, k) == Stretch(ir, at, x, ir.order[k])
           Eq(g) == g = [k \in 0 .. n |-> IF k = 0 THEN ivs ELSE One(g[k - 1], k)]
           F == [k \in 1 .. n |-> [x \in P |-> One(x, k)]]
           c == CHOOSE g : Eq(g)
<1>1. n \in Nat /\ ivs \in P
  BY Sizes
<1>2. \A k \in 1 .. n : \A x \in P : One(x, k) \in P
  <2> SUFFICES ASSUME NEW k \in 1 .. n, NEW x \in P PROVE One(x, k) \in P
    OBVIOUS
  <2>1. ir.order[k] \in Labels(ir)
    BY Sizes
  <2> QED BY <2>1, OneStretch
<1>3. PICK f : Unfolds(f, n, P, ivs, F)
  <2>1. F \in [1 .. n -> [P -> P]]
    <3> HIDE DEF One, P
    <3> QED BY <1>2
  <2> HIDE DEF F, n, P
  <2> QED BY <1>1, <2>1, Recursion
<1>4. f \in [0 .. n -> P] /\ f[0] = ivs /\ \A k \in 1 .. n : f[k] = F[k][f[k - 1]]
  <2> HIDE DEF F, n, P
  <2> QED BY <1>3 DEF Unfolds
<1>5. Eq(f)
  <2>1. ASSUME NEW k \in 0 .. n PROVE f[k] = IF k = 0 THEN ivs ELSE One(f[k - 1], k)
    <3>1. CASE k = 0
      BY <1>4, <3>1
    <3>2. CASE k # 0
      <4> HIDE DEF P, One
      <4>1. k \in 1 .. n /\ k - 1 \in 0 .. n /\ f[k - 1] \in P
        BY <1>1, <1>4, <3>2
      <4>2. F[k][f[k - 1]] = One(f[k - 1], k)
        BY <4>1
      <4> HIDE DEF F
      <4>3. f[k] = F[k][f[k - 1]]
        BY <1>4, <4>1
      <4> QED BY <3>2, <4>2, <4>3
    <3> QED BY <3>1, <3>2
  <2> DEFINE e(k) == IF k = 0 THEN ivs ELSE One(f[k - 1], k)
  <2>2. \A k \in 0 .. n : e(k) = f[k]
    BY <2>1
  <2>3. [k \in 0 .. n |-> e(k)] = [k \in 0 .. n |-> f[k]]
    <3> HIDE DEF e
    <3> QED BY <2>2
  <2>4. f = [k \in 0 .. n |-> f[k]]
    <3> HIDE DEF P
    <3> QED BY <1>4
  <2> QED BY <2>3, <2>4 DEF e
<1>6. Eq(c)
  <2> HIDE DEF Eq
  <2> QED BY <1>5
<1>7. StretchAll(ir, at, ivs) = c[n]
  BY DEF StretchAll
<1>8. c[0] = ivs /\ \A k \in 1 .. n : c[k] = One(c[k - 1], k)
  <2> HIDE DEF c, One
  <2>1. \A k \in 0 .. n : c[k] = IF k = 0 THEN ivs ELSE One(c[k - 1], k)
    BY <1>6
  <2> QED BY <1>1, <2>1
<1>9. c \in [0 .. n -> P]
  <2> DEFINE S == {k \in 0 .. n : c[k] \in P}
  <2>1. 0 \in S
    <3> HIDE DEF c, P
    <3> QED BY <1>1, <1>8
  <2>2. ASSUME NEW k \in 1 .. n, k - 1 \in S PROVE k \in S
    <3> HIDE DEF c, One, P
    <3> QED BY <1>2, <1>8, <2>2
  <2>3. \A k \in 0 .. n : k \in S
    <3> HIDE DEF S, n, c
    <3> QED BY <1>1, <2>1, <2>2, UpTo
  <2> HIDE DEF c, One, P
  <2>4. c = [k \in 0 .. n |-> c[k]]
    BY <1>6
  <2> QED BY <2>3, <2>4
<1> HIDE DEF c
<1> QED
  BY <1>7, <1>8, <1>9

\* Once over them is enough: an interval only grows to the end of a block that is
\* behind all those before it.
LEMMA StretchedAll ==
  ASSUME NEW ir, Numbered(ir), NEW V, NEW ivs \in [V -> Pairs]
  PROVE  /\ StretchAll(ir, StartOf(ir), ivs) \in [V -> Pairs]
         /\ \A v \in V : Longer(ivs[v], StretchAll(ir, StartOf(ir), ivs)[v])
         /\ \A v \in V : \A l \in Labels(ir) : Closed(ir, l, StretchAll(ir, StartOf(ir), ivs)[v])
<1> DEFINE n == Len(ir.order)
           at == StartOf(ir)
           o == ir.order
<1>1. PICK c \in [0 .. n -> [V -> Pairs]] :
        /\ c[0] = ivs /\ c[n] = StretchAll(ir, at, ivs)
        /\ \A k \in 1 .. n : c[k] = Stretch(ir, at, c[k - 1], o[k])
  BY Stretches
<1>2. n \in Nat
  BY Sizes
<1> DEFINE Good(k) == \A v \in V : Longer(ivs[v], c[k][v]) /\ \A j \in 1 .. k : Closed(ir, o[j], c[k][v])
           S == {k \in 0 .. n : Good(k)}
<1>3. 0 \in S
  <2>1. \A v \in V : ivs[v].end \in Nat
    BY DEF Pairs
  <2> QED BY <1>1, <1>2, <2>1 DEF Longer
<1>4. ASSUME NEW k \in 1 .. n, k - 1 \in S PROVE k \in S
  <2>1. k - 1 \in 0 .. n /\ k \in 0 .. n /\ o[k] \in Labels(ir)
    BY <1>2, Sizes
  <2> DEFINE old == c[k - 1]  new == c[k]  e == at[o[k]] + Size(ir, o[k])
  <2>2. old \in [V -> Pairs] /\ new \in [V -> Pairs] /\ new = Stretch(ir, at, old, o[k])
    BY <1>1, <2>1
  <2>3. \A v \in V :
          /\ new[v].start = old[v].start
          /\ new[v] = old[v] \/ (new[v].end = e /\ old[v].end <= new[v].end)
          /\ \A head \in BackTo(ir, at, o[k]) :
               old[v].start <= head /\ head < old[v].end => e <= new[v].end
    BY <2>1, <2>2, OneStretch
  <2>4. Good(k - 1)
    BY <1>4
  <2>5. ASSUME NEW v \in V PROVE Longer(ivs[v], new[v])
    <3>1. Longer(ivs[v], old[v])
      BY <2>4
    <3>2. ivs[v].end \in Nat /\ old[v].end \in Nat /\ new[v].end \in Nat
      BY <2>2 DEF Pairs
    <3>3. new[v].start = old[v].start /\ old[v].end <= new[v].end
      <4> HIDE DEF old, new, e, at
      <4> QED BY <2>3, <3>2
    <3> HIDE DEF old, new
    <3> QED BY <3>1, <3>2, <3>3 DEF Longer
  <2>6. ASSUME NEW v \in V, NEW j \in 1 .. k PROVE Closed(ir, o[j], new[v])
    <3> DEFINE f == at[o[j]] + Size(ir, o[j])
    <3>1. new[v].start = old[v].start /\ (new[v] = old[v] \/ new[v].end = e)
      BY <2>3
    <3>2. e \in Nat /\ f \in Nat /\ o[j] \in Labels(ir)
      <4>1. j \in 1 .. n
        BY <1>2
      <4>2. o[j] \in Labels(ir) /\ o[k] \in Labels(ir)
        BY <2>1, <4>1, Sizes
      <4>3. \A l \in Labels(ir) : at[l] \in Nat /\ Size(ir, l) \in Nat
        BY Sizes, Blocks
      <4> HIDE DEF at, o
      <4> QED BY <4>2, <4>3
    <3>3. f <= e
      <4>1. CASE j = k
        BY <3>2, <4>1
      <4>2. CASE j # k
        <5>1. j \in 1 .. n /\ j < k
          BY <1>2, <4>2
        <5>2. f <= at[o[k]]
          BY <5>1, Blocks
        <5>3. at[o[k]] \in Nat /\ Size(ir, o[k]) \in Nat
          BY <2>1, Sizes, Blocks
        <5> HIDE DEF f
        <5> QED BY <3>2, <5>2, <5>3
      <4> QED BY <4>1, <4>2
    <3>4. CASE new[v].end = e
      <4> HIDE DEF e, f, new, at
      <4>1. \A head \in BackTo(ir, at, o[j]) : f <= new[v].end
        BY <3>3, <3>4
      <4> USE DEF f, at
      <4> QED BY <4>1 DEF Closed
    <3>5. CASE new[v] = old[v]
      <4>1. CASE j = k
        <5>1. \A head \in BackTo(ir, at, o[k]) : new[v].start <= head /\ head < new[v].end => e <= new[v].end
          <6> HIDE DEF old, new, e
          <6> QED BY <2>3, <3>5
        <5> HIDE DEF old, new
        <5> QED BY <4>1, <5>1 DEF Closed
      <4>2. CASE j # k
        <5>1. j \in 1 .. k - 1
          BY <1>2, <4>2
        <5>2. Closed(ir, o[j], old[v])
          BY <2>4, <5>1
        <5> HIDE DEF old, new
        <5> QED BY <3>5, <5>2
      <4> QED BY <4>1, <4>2
    <3> HIDE DEF old, new, e
    <3> QED BY <3>1, <3>4, <3>5
  <2> QED BY <2>1, <2>5, <2>6
<1>5. n \in S
  <2> HIDE DEF S, n
  <2>1. \A k \in 1 .. n : k - 1 \in S => k \in S
    BY <1>4
  <2>2. \A k \in 0 .. n : k \in S
    BY <1>2, <1>3, <2>1, UpTo
  <2> QED BY <1>2, <2>2
<1>6. \A l \in Labels(ir) : \E k \in 1 .. n : o[k] = l
  BY Sizes
<1>7. Good(n)
  BY <1>5
<1>8. c[n] \in [V -> Pairs]
  <2>1. n \in 0 .. n
    BY <1>2
  <2> HIDE DEF n
  <2> QED BY <1>1, <2>1
<1> QED
  <2> HIDE DEF n
  <2>1. \A v \in V : \A l \in Labels(ir) : Closed(ir, l, c[n][v])
    BY <1>6, <1>7
  <2> QED BY <1>1, <1>7, <1>8, <2>1

\* What the phi nodes add are ends of blocks.
LEMMA PhiEndsOf ==
  ASSUME NEW ir, Numbered(ir), NEW v
  PROVE  /\ PhiEnds(ir, StartOf(ir), v) \subseteq Nat
         /\ \E n \in Nat : \A e \in PhiEnds(ir, StartOf(ir), v) : e <= n
         /\ \A l \in Labels(ir) : PhiReads(ir, l, v) => StartOf(ir)[l] + Size(ir, l) \in PhiEnds(ir, StartOf(ir), v)
<1> DEFINE at == StartOf(ir)
           Phi == {q \in Points(ir) : InstAt(ir, q).op = "PHI"}
           Of(p) == {EndOf(ir, at, InstAt(ir, p).t[j]) : j \in {k \in DOMAIN InstAt(ir, p).a : InstAt(ir, p).a[k] = v}}
<1>1. PhiEnds(ir, at, v) = UNION {Of(p) : p \in Phi}
  BY DEF PhiEnds
<1>2. PICK n \in Nat : \A l \in Labels(ir) : at[l] + Size(ir, l) <= n
  BY Blocks
<1>3. ASSUME NEW l PROVE EndOf(ir, at, l) \in Nat /\ EndOf(ir, at, l) <= n
  <2>1. CASE l \in Labels(ir)
    <3>1. at[l] \in Nat /\ Size(ir, l) \in Nat /\ EndOf(ir, at, l) = at[l] + Size(ir, l) /\ at[l] + Size(ir, l) <= n
      BY <1>2, <2>1, Blocks, Sizes DEF EndOf, Size
    <3> HIDE DEF at
    <3> QED BY <3>1
  <2>2. CASE l \notin Labels(ir)
    BY <1>2, <2>2 DEF EndOf
  <2> QED BY <2>1, <2>2
<1>4. \A e \in PhiEnds(ir, at, v) : e \in Nat /\ e <= n
  <2> HIDE DEF at
  <2> QED BY <1>1, <1>3
<1>5. ASSUME NEW l \in Labels(ir), PhiReads(ir, l, v) PROVE at[l] + Size(ir, l) \in PhiEnds(ir, at, v)
  <2>1. PICK s \in Succs(ir, l) : \E i \in DOMAIN ir.code[s] : \E j \in DOMAIN ir.code[s][i].a :
          ir.code[s][i].op = "PHI" /\ ir.code[s][i].t[j] = l /\ ir.code[s][i].a[j] = v
    BY <1>5 DEF PhiReads
  <2>2. PICK i \in DOMAIN ir.code[s] : \E j \in DOMAIN ir.code[s][i].a :
          ir.code[s][i].op = "PHI" /\ ir.code[s][i].t[j] = l /\ ir.code[s][i].a[j] = v
    BY <2>1
  <2> DEFINE p == <<s, i>>
  <2>3. p \in Points(ir) /\ InstAt(ir, p) = ir.code[s][i]
    <3>1. s \in Labels(ir)
      BY Sizes
    <3> QED BY <3>1 DEF Points, InstAt
  <2> HIDE DEF p
  <2>4. PICK j \in DOMAIN InstAt(ir, p).a : InstAt(ir, p).t[j] = l /\ InstAt(ir, p).a[j] = v
    BY <2>2, <2>3
  <2>5. p \in Phi
    BY <2>2, <2>3
  <2>6. EndOf(ir, at, l) \in Of(p)
    BY <2>4
  <2>7. EndOf(ir, at, l) = at[l] + Size(ir, l)
    BY DEF EndOf, Size
  <2> HIDE DEF Of, Phi, at
  <2>8. EndOf(ir, at, l) \in PhiEnds(ir, at, v)
    BY <1>1, <2>5, <2>6
  <2> QED BY <2>7, <2>8
<1> QED
  BY <1>4, <1>5

\* The interval of a value, as the allocator gets it.
LEMMA ExtentOfValue ==
  ASSUME NEW ir, Ready(ir), NEW v \in ValuesOf(ir)
  PROVE  /\ Extents(ir, StartOf(ir))[v] \in Pairs
         /\ IsRange(ir, StartOf(ir), v, Extents(ir, StartOf(ir))[v])
         /\ \A l \in Labels(ir) : Closed(ir, l, Extents(ir, StartOf(ir))[v])
         /\ \A l \in Labels(ir) : PhiReads(ir, l, v) => StartOf(ir)[l] + Size(ir, l) <= Extents(ir, StartOf(ir))[v].end
<1> DEFINE at == StartOf(ir)
           V == ValuesOf(ir)
           first == Ranges(ir, at)
           short == StretchAll(ir, at, first)
           long == Extents(ir, at)
           ends == PhiEnds(ir, at, v)
<1>1. Numbered(ir) /\ OnceComputed(ir) /\ PhisLast(ir)
  BY DEF Ready
<1>2. first \in [V -> Pairs] /\ IsRange(ir, at, v, first[v])
  <2>1. first = [w \in V |-> first[w]]
    BY DEF Ranges
  <2>2. \A w \in V : first[w] \in Pairs /\ IsRange(ir, at, w, first[w])
    BY <1>1, RangeOfValue
  <2> HIDE DEF first
  <2> QED BY <2>1, <2>2
<1>3. short \in [V -> Pairs] /\ Longer(first[v], short[v]) /\ \A l \in Labels(ir) : Closed(ir, l, short[v])
  <2> HIDE DEF first, V
  <2> QED BY <1>1, <1>2, StretchedAll DEF V
<1>4. DOMAIN short = V /\ first[v] \in Pairs /\ short[v] \in Pairs /\ short[v].end \in Nat
  <2> HIDE DEF first, short
  <2> QED BY <1>2, <1>3 DEF Pairs
<1> DEFINE m == Max({short[v].end} \cup ends)
<1>5. long[v] = [short[v] EXCEPT !.end = m]
  <2>1. long = ToPhis(ir, at, short)
    BY DEF Extents
  <2> HIDE DEF short, long, at, V
  <2>2. v \in DOMAIN short
    BY <1>4 DEF V
  <2> QED BY <2>1, <2>2 DEF ToPhis
<1>6. m \in Nat /\ short[v].end <= m /\ \A e \in ends : e <= m
  <2> DEFINE U == {short[v].end} \cup ends
  <2>1. PICK n \in Nat : \A e \in ends : e <= n
    BY <1>1, PhiEndsOf
  <2>2. ends \subseteq Nat
    BY <1>1, PhiEndsOf
  <2> HIDE DEF ends, short
  <2>3. U \subseteq Nat /\ U # {} /\ n + short[v].end \in Nat /\ \A e \in U : e <= n + short[v].end
    <3> DEFINE x == short[v].end
    <3>1. x \in Nat
      BY <1>4
    <3> HIDE DEF x
    <3>2. \A e \in ends : e \in Nat /\ e <= n
      BY <2>1, <2>2
    <3>3. \A e \in {x} \cup ends : e \in Nat /\ e <= n + x
      BY <3>1, <3>2
    <3>4. n + x \in Nat
      BY <3>1
    <3> QED BY <3>3, <3>4 DEF x
  <2>4. short[v].end \in U /\ ends \subseteq U
    OBVIOUS
  <2> HIDE DEF U
  <2>5. Max(U) \in Nat /\ \A e \in U : e <= Max(U)
    BY <2>3, BoundedMax
  <2> QED BY <2>4, <2>5 DEF U
<1>7. long[v] \in Pairs /\ long[v].start = short[v].start /\ long[v].end = m
  <2> HIDE DEF long, short, m
  <2> QED BY <1>4, <1>5, <1>6 DEF Pairs
<1>8. Longer(first[v], long[v])
  <2>1. first[v].end \in Nat
    BY <1>4 DEF Pairs
  <2> HIDE DEF first, short, long, m
  <2> QED BY <1>3, <1>4, <1>6, <1>7, <2>1 DEF Longer
<1>9. IsRange(ir, at, v, long[v])
  BY <1>1, <1>2, <1>4, <1>7, <1>8, LongerRange
<1>10. ASSUME NEW l \in Labels(ir) PROVE Closed(ir, l, long[v])
  <2>1. CASE long[v].end = short[v].end
    <3>1. Closed(ir, l, short[v])
      BY <1>3
    <3> HIDE DEF short, long
    <3> QED BY <1>7, <2>1, <3>1 DEF Closed
  <2>2. CASE long[v].end # short[v].end
    <3>1. \A head \in BackTo(ir, at, l) : long[v].start <= head /\ head < long[v].end => EndOf(ir, at, l) <= long[v].end
      BY <1>1, <2>2 DEF PhisLast
    <3>2. EndOf(ir, at, l) = at[l] + Size(ir, l)
      BY DEF EndOf, Size
    <3> HIDE DEF long
    <3> QED BY <3>1, <3>2 DEF Closed
  <2> QED BY <2>1, <2>2
<1>11. ASSUME NEW l \in Labels(ir), PhiReads(ir, l, v) PROVE at[l] + Size(ir, l) <= long[v].end
  <2>1. at[l] + Size(ir, l) \in ends
    BY <1>1, <1>11, PhiEndsOf
  <2> HIDE DEF ends, long, m
  <2> QED BY <1>6, <1>7, <2>1
<1> QED
  BY <1>7, <1>9, <1>10, <1>11

\* The blocks a value is live at the start of, round by round.
LEMMA EntersRounds ==
  ASSUME NEW ir, Numbered(ir), NEW v
  PROVE  \E w \in [0 .. Len(ir.order) -> SUBSET Labels(ir)] :
           /\ w[0] = Needs(ir, v) /\ w[Len(ir.order)] = Enters(ir, v)
           /\ \A k \in 1 .. Len(ir.order) : w[k] = w[k - 1] \cup ComesTo(ir, v, w[k - 1])
<1> DEFINE n == Len(ir.order)
           P == SUBSET Labels(ir)
           One(x) == x \cup ComesTo(ir, v, x)
           Eq(g) == g = [k \in 0 .. n |-> IF k = 0 THEN Needs(ir, v) ELSE One(g[k - 1])]
           F == [k \in 1 .. n |-> [x \in P |-> One(x)]]
           c == CHOOSE g : Eq(g)
<1>1. n \in Nat /\ Needs(ir, v) \in P
  BY Sizes DEF Needs
<1>2. \A x \in P : One(x) \in P
  BY DEF ComesTo
<1>3. PICK f : Unfolds(f, n, P, Needs(ir, v), F)
  <2>1. F \in [1 .. n -> [P -> P]]
    <3> HIDE DEF One, P
    <3> QED BY <1>2
  <2> HIDE DEF F, n, P
  <2> QED BY <1>1, <2>1, Recursion
<1>4. f \in [0 .. n -> P] /\ f[0] = Needs(ir, v) /\ \A k \in 1 .. n : f[k] = F[k][f[k - 1]]
  <2> HIDE DEF F, n, P
  <2> QED BY <1>3 DEF Unfolds
<1>5. Eq(f)
  <2>1. ASSUME NEW k \in 0 .. n PROVE f[k] = IF k = 0 THEN Needs(ir, v) ELSE One(f[k - 1])
    <3>1. CASE k = 0
      BY <1>4, <3>1
    <3>2. CASE k # 0
      <4> HIDE DEF P, One
      <4>1. k \in 1 .. n /\ k - 1 \in 0 .. n /\ f[k - 1] \in P
        BY <1>1, <1>4, <3>2
      <4>2. F[k][f[k - 1]] = One(f[k - 1])
        BY <4>1
      <4> HIDE DEF F
      <4>3. f[k] = F[k][f[k - 1]]
        BY <1>4, <4>1
      <4> QED BY <3>2, <4>2, <4>3
    <3> QED BY <3>1, <3>2
  <2> DEFINE e(k) == IF k = 0 THEN Needs(ir, v) ELSE One(f[k - 1])
  <2>2. \A k \in 0 .. n : e(k) = f[k]
    BY <2>1
  <2>3. [k \in 0 .. n |-> e(k)] = [k \in 0 .. n |-> f[k]]
    <3> HIDE DEF e
    <3> QED BY <2>2
  <2>4. f = [k \in 0 .. n |-> f[k]]
    <3> HIDE DEF P
    <3> QED BY <1>4
  <2> QED BY <2>3, <2>4 DEF e
<1>6. Eq(c)
  <2> HIDE DEF Eq
  <2> QED BY <1>5
<1>7. Enters(ir, v) = c[n]
  BY DEF Enters
<1>8. c[0] = Needs(ir, v) /\ \A k \in 1 .. n : c[k] = One(c[k - 1])
  <2> HIDE DEF c, One
  <2>1. \A k \in 0 .. n : c[k] = IF k = 0 THEN Needs(ir, v) ELSE One(c[k - 1])
    BY <1>6
  <2> QED BY <1>1, <2>1
<1>9. c \in [0 .. n -> P]
  <2> DEFINE S == {k \in 0 .. n : c[k] \in P}
  <2>1. 0 \in S
    <3> HIDE DEF c, P
    <3> QED BY <1>1, <1>8
  <2>2. ASSUME NEW k \in 1 .. n, k - 1 \in S PROVE k \in S
    <3> HIDE DEF c, One, P
    <3> QED BY <1>2, <1>8, <2>2
  <2>3. \A k \in 0 .. n : k \in S
    <3> HIDE DEF S, n, c
    <3> QED BY <1>1, <2>1, <2>2, UpTo
  <2> HIDE DEF c, One, P
  <2>4. c = [k \in 0 .. n |-> c[k]]
    BY <1>6
  <2> QED BY <2>3, <2>4
<1> HIDE DEF c
<1> QED
  BY <1>7, <1>8, <1>9

\* What holds where a value is needed, and with a block where it enters also in
\* those that come to it, holds wherever it enters.
LEMMA EntersOnly ==
  ASSUME NEW ir, Numbered(ir), NEW v, NEW C, Needs(ir, v) \cap Enters(ir, v) \subseteq C,
         \A s \in C \cap Enters(ir, v) : \A l \in Enters(ir, v) :
           Computed(ir.code[l], v) = {} /\ s \in Succs(ir, l) => l \in C
  PROVE  Enters(ir, v) \subseteq C /\ Enters(ir, v) \subseteq Labels(ir)
<1> DEFINE n == Len(ir.order)
           E == Enters(ir, v)
<1>1. PICK w \in [0 .. n -> SUBSET Labels(ir)] :
        /\ w[0] = Needs(ir, v) /\ w[n] = E
        /\ \A k \in 1 .. n : w[k] = w[k - 1] \cup ComesTo(ir, v, w[k - 1])
  BY EntersRounds
<1>2. n \in Nat /\ n \in 0 .. n
  BY Sizes
<1> HIDE DEF n
<1>3. \A k \in 0 .. n : w[k] \subseteq E
  <2> DEFINE S == {k \in 0 .. n : w[n - k] \subseteq E}
  <2>1. 0 \in S
    BY <1>1, <1>2
  <2>2. ASSUME NEW k \in 1 .. n, k - 1 \in S PROVE k \in S
    <3>1. n - k \in 0 .. n /\ n - k + 1 \in 1 .. n /\ n - (k - 1) = n - k + 1 /\ (n - k + 1) - 1 = n - k /\ k \in 0 .. n
      BY <1>2
    <3>2. w[n - k + 1] = w[n - k] \cup ComesTo(ir, v, w[n - k])
      BY <1>1, <3>1
    <3>3. w[n - k + 1] \subseteq E
      BY <2>2, <3>1
    <3> QED BY <3>1, <3>2, <3>3
  <2>3. \A k \in 0 .. n : k \in S
    <3> HIDE DEF S
    <3> QED BY <1>2, <2>1, <2>2, UpTo
  <2>4. ASSUME NEW k \in 0 .. n PROVE w[k] \subseteq E
    <3>1. n - k \in 0 .. n /\ n - (n - k) = k
      BY <1>2
    <3>2. n - k \in S
      BY <2>3, <3>1
    <3> QED BY <3>1, <3>2
  <2> QED BY <2>4
<1>4. \A k \in 0 .. n : w[k] \subseteq C
  <2> DEFINE S == {k \in 0 .. n : w[k] \subseteq C}
  <2>1. 0 \in S
    <3>1. 0 \in 0 .. n
      BY <1>2
    <3> QED BY <1>1, <1>3, <3>1
  <2>2. ASSUME NEW k \in 1 .. n, k - 1 \in S PROVE k \in S
    <3>1. k \in 0 .. n /\ k - 1 \in 0 .. n /\ w[k] = w[k - 1] \cup ComesTo(ir, v, w[k - 1]) /\ w[k - 1] \subseteq C
      BY <1>1, <1>2, <2>2
    <3>2. ASSUME NEW l \in ComesTo(ir, v, w[k - 1]) PROVE l \in C
      <4>1. PICK s \in w[k - 1] : s \in Succs(ir, l) /\ Computed(ir.code[l], v) = {}
        BY DEF ComesTo
      <4>2. l \in E /\ s \in C /\ s \in E
        BY <1>3, <3>1
      <4> QED BY <4>1, <4>2
    <3> QED BY <3>1, <3>2
  <2>3. \A k \in 0 .. n : k \in S
    <3> HIDE DEF S
    <3> QED BY <1>2, <2>1, <2>2, UpTo
  <2> QED BY <2>3
<1>5. w[n] \subseteq C /\ w[n] \subseteq Labels(ir)
  BY <1>1, <1>2, <1>4
<1> QED
  BY <1>1, <1>5

\* No block is missing: there are as many rounds as blocks, and a round that adds
\* none is the last that could.
LEMMA EntersClosed ==
  ASSUME NEW ir, Numbered(ir), NEW v
  PROVE  Needs(ir, v) \subseteq Enters(ir, v) /\ ComesTo(ir, v, Enters(ir, v)) \subseteq Enters(ir, v)
<1> DEFINE n == Len(ir.order)  L == Labels(ir)  E == Enters(ir, v)  N == Needs(ir, v)
           To(x) == ComesTo(ir, v, x)
<1>1. PICK w \in [0 .. n -> SUBSET L] :
        w[0] = N /\ w[n] = E /\ \A k \in 1 .. n : w[k] = w[k - 1] \cup To(w[k - 1])
  BY EntersRounds
<1>2. n \in Nat /\ n \in 0 .. n
  BY Sizes
<1>3. IsFiniteSet(L) /\ Cardinality(L) \in Nat /\ Cardinality(L) <= n
  <2> DEFINE D == 1 .. n
  <2>1. IsFiniteSet(D) /\ Cardinality(D) = n
    <3> HIDE DEF n
    <3> QED BY <1>2, FS_Interval
  <2>2. DOMAIN ir.order = D
    BY DEF Numbered
  <2>3. L = {ir.order[i] : i \in D}
    BY <2>2 DEF Labels
  <2> DEFINE f == [i \in D |-> ir.order[i]]
  <2>4. f \in Surjection(D, L)
    <3> HIDE DEF D, L
    <3>1. f \in [D -> L] /\ \A x \in L : \E i \in D : f[i] = x
      BY <2>3
    <3> HIDE DEF f
    <3> QED BY <3>1 DEF Surjection
  <2> HIDE DEF D, L, f, n
  <2>5. IsFiniteSet(L) /\ Cardinality(L) <= Cardinality(D)
    BY <2>1, <2>4, FS_Surjection
  <2> QED BY <2>1, <2>5, FS_CardinalityType
<1>4. \A x : To(x) \subseteq L
  BY DEF ComesTo
<1> HIDE DEF n, L, To
<1>5. ASSUME NEW x \in SUBSET L PROVE IsFiniteSet(x) /\ Cardinality(x) \in Nat
  BY <1>3, FS_Subset, FS_CardinalityType
<1> DEFINE S == {k \in 0 .. n : N \subseteq w[k] /\ (To(w[k]) \subseteq w[k] \/ k <= Cardinality(w[k]))}
<1>6. 0 \in S
  <2>1. 0 \in 0 .. n
    BY <1>2
  <2>2. w[0] \in SUBSET L /\ w[0] = N
    BY <1>1, <2>1
  <2>3. Cardinality(w[0]) \in Nat
    BY <1>5, <2>2
  <2> QED BY <2>1, <2>2, <2>3
<1>7. ASSUME NEW k \in 1 .. n, k - 1 \in S PROVE k \in S
  <2>1. k \in 0 .. n /\ k - 1 \in 0 .. n /\ k \in Nat
    BY <1>2
  <2>2. w[k] \in SUBSET L /\ w[k - 1] \in SUBSET L /\ w[k] = w[k - 1] \cup To(w[k - 1]) /\ N \subseteq w[k - 1]
    BY <1>1, <1>7, <2>1
  <2>3. CASE To(w[k - 1]) \subseteq w[k - 1]
    <3>1. w[k] = w[k - 1]
      BY <2>2, <2>3
    <3> QED BY <2>1, <2>2, <2>3, <3>1
  <2>4. CASE ~ (To(w[k - 1]) \subseteq w[k - 1])
    <3>1. k - 1 <= Cardinality(w[k - 1])
      BY <1>7, <2>4
    <3>2. w[k - 1] \subseteq w[k] /\ w[k - 1] # w[k]
      BY <2>2, <2>4
    <3>3. /\ Cardinality(w[k - 1]) <= Cardinality(w[k]) /\ Cardinality(w[k - 1]) # Cardinality(w[k])
          /\ Cardinality(w[k - 1]) \in Nat /\ Cardinality(w[k]) \in Nat
      BY <1>5, <2>2, <3>2, FS_Subset
    <3>4. k <= Cardinality(w[k])
      BY <2>1, <3>1, <3>3
    <3> QED BY <2>1, <2>2, <3>4
  <2> QED BY <2>3, <2>4
<1>8. n \in S
  <2> HIDE DEF S
  <2> QED BY <1>2, <1>6, <1>7, UpTo
<1>9. CASE n <= Cardinality(E)
  <2>1. E \in SUBSET L
    BY <1>1, <1>2
  <2>2. Cardinality(E) \in Nat /\ Cardinality(E) <= Cardinality(L) /\ (Cardinality(E) = Cardinality(L) => E = L)
    BY <1>3, <1>5, <2>1, FS_Subset
  <2>3. E = L
    <3> HIDE DEF E
    <3> QED BY <1>2, <1>3, <1>9, <2>2
  <2>4. To(E) \subseteq E
    BY <1>4, <2>3
  <2> QED BY <1>1, <1>8, <2>4 DEF To
<1> QED
  BY <1>1, <1>8, <1>9 DEF To

\* The interval of v.
Extent(ir, v) == Extents(ir, StartOf(ir))[v]

\* Where a value is read in a block, behind where it comes from, it is still there.
LEMMA ReadInside ==
  ASSUME NEW ir, Ready(ir), NEW v \in ValuesOf(ir), NEW l \in Labels(ir), NEW i \in Reads(ir.code[l], v),
         v \in Parameters(ir) \/ Extent(ir, v).start < StartOf(ir)[l] + i - 1
  PROVE  StartOf(ir)[l] + i - 1 < Extent(ir, v).end /\ i \in 1 .. Size(ir, l)
<1> DEFINE p == <<l, i>>
<1>1. i \in DOMAIN ir.code[l] /\ \E j \in DOMAIN ir.code[l][i].a : ir.code[l][i].a[j] = v
  BY DEF Reads
<1>2. p \in Points(ir) /\ InstAt(ir, p) = ir.code[l][i] /\ PosOf(StartOf(ir), p) = StartOf(ir)[l] + i - 1
  BY <1>1 DEF Points, InstAt, PosOf
<1>3. IsRange(ir, StartOf(ir), v, Extent(ir, v))
  BY ExtentOfValue DEF Extent
<1>4. i \in 1 .. Size(ir, l)
  BY <1>1, Sizes DEF Ready
<1> HIDE DEF p
<1>5. \E j \in DOMAIN InstAt(ir, p).a : InstAt(ir, p).a[j] = v
  BY <1>1, <1>2
<1>6. PosOf(StartOf(ir), p) < Extent(ir, v).end
  BY <1>2, <1>3, <1>5 DEF IsRange
<1> QED
  BY <1>2, <1>4, <1>6

\* A value comes before the blocks it is live at the start of.
LEMMA ComesBefore ==
  ASSUME NEW ir, Ready(ir), NEW v \in ValuesOf(ir), NEW l \in Enters(ir, v)
  PROVE  /\ Extent(ir, v) \in Pairs /\ l \in Labels(ir) /\ StartOf(ir)[l] \in Nat
         /\ Extent(ir, v).start <= StartOf(ir)[l]
         /\ v \in Parameters(ir) \/ Extent(ir, v).start < StartOf(ir)[l]
<1>1. Numbered(ir) /\ OnceComputed(ir) /\ ComputedBefore(ir)
  BY DEF Ready
<1>2. IsRange(ir, StartOf(ir), v, Extent(ir, v)) /\ Extent(ir, v) \in Pairs /\ Extent(ir, v).start \in Nat
  BY ExtentOfValue DEF Extent, Pairs
<1>3. l \in Labels(ir)
  <2>1. Enters(ir, v) \subseteq Labels(ir)
    BY <1>1, EntersOnly
  <2> QED BY <2>1
<1>4. StartOf(ir)[l] \in Nat
  BY <1>1, <1>3, Blocks
<1>5. CASE v \in Parameters(ir)
  BY <1>2, <1>3, <1>4, <1>5 DEF IsRange
<1>6. CASE v \notin Parameters(ir)
  <2>1. PICK p \in Points(ir) : InstAt(ir, p).r = v /\ PosOf(StartOf(ir), p) < StartOf(ir)[l]
    BY <1>1, <1>6 DEF ComputedBefore, LiveStarts
  <2>2. Extent(ir, v).start = PosOf(StartOf(ir), p)
    BY <1>2, <2>1 DEF IsRange
  <2> QED BY <1>2, <1>3, <1>4, <2>1, <2>2
<1> QED
  BY <1>5, <1>6

\* From a block a value leaves alive, to the next one: the interval that is there at
\* the start of the next block goes to the end of this one.
LEMMA OverEdge ==
  ASSUME NEW ir, Ready(ir), NEW v \in ValuesOf(ir), NEW l \in Labels(ir), NEW s \in Succs(ir, l),
         s \in Enters(ir, v), StartOf(ir)[s] < Extent(ir, v).end
  PROVE  StartOf(ir)[l] + Size(ir, l) <= Extent(ir, v).end
<1> DEFINE at == StartOf(ir)  iv == Extent(ir, v)
<1>1. Numbered(ir) /\ s # l
  BY DEF Ready, NoneToItself
<1>2. s \in Labels(ir) /\ iv.start <= at[s] /\ iv.end \in Nat
  BY ComesBefore DEF Pairs
<1>3. at[s] \in Nat /\ at[l] \in Nat /\ Size(ir, l) \in Nat
  BY <1>1, <1>2, Blocks, Sizes
<1>4. CASE at[l] < at[s]
  <2>1. at[l] + Size(ir, l) <= at[s]
    BY <1>1, <1>2, <1>4, BlocksApart
  <2> HIDE DEF at, iv
  <2> QED BY <1>2, <1>3, <2>1 DEF at, iv
<1>5. CASE at[s] < at[l]
  <2>1. at[s] \in BackTo(ir, at, l)
    BY <1>2, <1>5 DEF BackTo
  <2>2. Closed(ir, l, iv)
    BY ExtentOfValue DEF Extent
  <2> QED BY <1>2, <2>1, <2>2 DEF Closed
<1>6. at[l] # at[s]
  BY <1>1, <1>2, BlocksApart
<1> QED
  <2> HIDE DEF at
  <2> QED BY <1>3, <1>4, <1>5, <1>6

\* An interval reaches over the start of each block its value is live at the start
\* of.
LEMMA EntersInside ==
  ASSUME NEW ir, Ready(ir), NEW v \in ValuesOf(ir)
  PROVE  \A l \in Enters(ir, v) : StartOf(ir)[l] < Extent(ir, v).end
<1> DEFINE at == StartOf(ir)  iv == Extent(ir, v)  E == Enters(ir, v)
           C == {l \in E : at[l] < iv.end}
<1>1. Numbered(ir)
  BY DEF Ready
<1>2. ASSUME NEW l \in E
      PROVE  /\ l \in Labels(ir) /\ at[l] \in Nat /\ iv.end \in Nat /\ iv.start \in Nat /\ Size(ir, l) \in Nat \ {0}
             /\ v \in Parameters(ir) \/ iv.start < at[l]
  <2>1. l \in Labels(ir) /\ at[l] \in Nat /\ iv \in Pairs /\ (v \in Parameters(ir) \/ iv.start < at[l])
    BY ComesBefore
  <2> QED BY <1>1, <2>1, Sizes DEF Pairs
<1>3. ASSUME NEW l \in Needs(ir, v), l \in E PROVE l \in C
  <2>1. CASE PhiReads(ir, l, v)
    <3>1. l \in Labels(ir)
      BY <1>2, <1>3
    <3>2. at[l] + Size(ir, l) <= iv.end
      BY <2>1, <3>1, ExtentOfValue DEF Extent
    <3> HIDE DEF at, iv, E
    <3>3. at[l] < iv.end
      BY <1>2, <1>3, <3>2
    <3> QED BY <1>3, <3>3
  <2>2. CASE \E i \in Reads(ir.code[l], v) : TRUE
    <3>1. PICK i \in Reads(ir.code[l], v) : TRUE
      BY <2>2
    <3>2. l \in Labels(ir) /\ i \in 1 .. Size(ir, l)
      BY <1>1, <1>2, <1>3, <3>1, Sizes DEF Reads
    <3>3. v \in Parameters(ir) \/ iv.start < at[l] + i - 1
      <4> HIDE DEF at, iv, E
      <4> QED BY <1>2, <1>3, <3>2
    <3>4. at[l] + i - 1 < iv.end
      BY <3>1, <3>2, <3>3, ReadInside
    <3> HIDE DEF at, iv, E
    <3>5. at[l] < iv.end
      BY <1>2, <1>3, <3>2, <3>4
    <3> QED BY <1>3, <3>5
  <2> QED BY <2>1, <2>2 DEF Needs
<1>4. ASSUME NEW s \in C, NEW l \in E, s \in Succs(ir, l) PROVE l \in C
  <2>1. l \in Labels(ir)
    BY <1>2
  <2>2. at[l] + Size(ir, l) <= iv.end
    BY <1>4, <2>1, OverEdge
  <2> HIDE DEF at, iv, E
  <2>3. at[l] < iv.end
    BY <1>2, <2>2
  <2> QED BY <2>3
<1>5. E \subseteq C
  <2> HIDE DEF C
  <2> QED BY <1>1, <1>3, <1>4, EntersOnly
<1> QED
  BY <1>5

\* The number of an instruction lies in the intervals of all that is live behind it ...
LEMMA LiveInside ==
  ASSUME NEW ir, Ready(ir), NEW l \in Labels(ir), NEW i \in DOMAIN ir.code[l],
         NEW v \in LiveBehind(ir, LiveStarts(ir), l, i)
  PROVE  /\ v \in ValuesOf(ir)
         /\ Extent(ir, v).start <= StartOf(ir)[l] + i - 1 /\ StartOf(ir)[l] + i - 1 < Extent(ir, v).end
<1> DEFINE at == StartOf(ir)  iv == Extent(ir, v)  q == at[l] + i - 1
<1>1. /\ v \in ValuesOf(ir) /\ \A k \in Computed(ir.code[l], v) : k <= i
      /\ (\E k \in Computed(ir.code[l], v) : TRUE) \/ l \in Enters(ir, v)
      /\ PhiReads(ir, l, v) \/ Succs(ir, l) \cap Enters(ir, v) # {} \/ \E k \in Reads(ir.code[l], v) : k > i
  BY DEF LiveBehind, LiveStarts, LiveAtEnd
<1>2. Numbered(ir)
  BY DEF Ready
<1>3. at[l] \in Nat /\ Size(ir, l) \in Nat /\ i \in 1 .. Size(ir, l)
  BY <1>2, Blocks, Sizes
<1>4. iv \in Pairs /\ IsRange(ir, at, v, iv) /\ iv.start \in Nat /\ iv.end \in Nat
  BY <1>1, ExtentOfValue DEF Extent, Pairs
<1>5. iv.start <= q
  <2>1. CASE l \in Enters(ir, v)
    <3>1. iv.start <= at[l]
      BY <1>1, <2>1, ComesBefore
    <3> HIDE DEF at, iv
    <3> QED BY <1>3, <1>4, <3>1
  <2>2. ASSUME NEW k \in Computed(ir.code[l], v) PROVE iv.start <= q
    <3> DEFINE p == <<l, k>>
    <3>1. k \in DOMAIN ir.code[l] /\ ir.code[l][k].r = v /\ k <= i
      BY <1>1 DEF Computed
    <3>2. k \in 1 .. Size(ir, l) /\ p \in Points(ir) /\ InstAt(ir, p).r = v /\ PosOf(at, p) = at[l] + k - 1
      BY <1>2, <3>1, Sizes DEF Points, InstAt, PosOf
    <3>3. iv.start = PosOf(at, p)
      BY <1>4, <3>2 DEF IsRange
    <3> HIDE DEF at, iv, p
    <3> QED BY <1>3, <1>4, <3>1, <3>2, <3>3
  <2> QED BY <1>1, <2>1, <2>2
<1>6. q < iv.end
  <2>1. CASE PhiReads(ir, l, v)
    <3>1. at[l] + Size(ir, l) <= iv.end
      BY <1>1, <2>1, ExtentOfValue DEF Extent
    <3> HIDE DEF at, iv
    <3> QED BY <1>3, <1>4, <3>1
  <2>2. ASSUME NEW s \in Succs(ir, l) \cap Enters(ir, v) PROVE q < iv.end
    <3>1. StartOf(ir)[s] < iv.end
      BY <1>1, EntersInside
    <3>2. at[l] + Size(ir, l) <= iv.end
      BY <1>1, <3>1, OverEdge
    <3> HIDE DEF at, iv
    <3> QED BY <1>3, <1>4, <3>2
  <2>3. ASSUME NEW k \in Reads(ir.code[l], v), k > i PROVE q < iv.end
    <3>1. k \in 1 .. Size(ir, l)
      BY <1>2, Sizes DEF Reads
    <3>2. iv.start < at[l] + k - 1
      <4> HIDE DEF at, iv
      <4> QED BY <1>3, <1>4, <1>5, <2>3, <3>1
    <3>3. at[l] + k - 1 < iv.end
      BY <1>1, <3>2, ReadInside
    <3> HIDE DEF at, iv
    <3> QED BY <1>3, <1>4, <2>3, <3>1, <3>3
  <2> QED BY <1>1, <2>1, <2>2, <2>3
<1> QED
  BY <1>1, <1>5, <1>6

\* ... and in that of its result.
LEMMA ResultInside ==
  ASSUME NEW ir, Ready(ir), NEW l \in Labels(ir), NEW i \in DOMAIN ir.code[l], ir.code[l][i].r # 0
  PROVE  LET v == ir.code[l][i].r
         IN /\ v \in ValuesOf(ir)
            /\ Extent(ir, v).start <= StartOf(ir)[l] + i - 1 /\ StartOf(ir)[l] + i - 1 < Extent(ir, v).end
<1> DEFINE v == ir.code[l][i].r  p == <<l, i>>  at == StartOf(ir)
<1>1. p \in Points(ir) /\ InstAt(ir, p).r = v /\ PosOf(at, p) = at[l] + i - 1
  BY DEF Points, InstAt, PosOf
<1>2. v \in ValuesOf(ir)
  <2> HIDE DEF p
  <2> QED BY <1>1 DEF ValuesOf
<1>3. IsRange(ir, at, v, Extent(ir, v)) /\ Extent(ir, v).start \in Nat
  BY <1>2, ExtentOfValue DEF Extent, Pairs
<1>4. Extent(ir, v).start = PosOf(at, p) /\ PosOf(at, p) < Extent(ir, v).end
  <2> HIDE DEF p, v
  <2> QED BY <1>1, <1>3 DEF IsRange
<1> QED
  <2> HIDE DEF p, v, at
  <2>1. Extent(ir, v).start <= at[l] + i - 1 /\ at[l] + i - 1 < Extent(ir, v).end
    BY <1>1, <1>3, <1>4
  <2> QED BY <1>2, <2>1 DEF v, at

\* What is live at the end of a block is so behind its last instruction.
LEMMA LiveBehindLast ==
  ASSUME NEW ir, Ready(ir), NEW l \in Labels(ir), NEW v \in ValuesOf(ir),
         LiveAtEnd(ir, LiveStarts(ir), l, v)
  PROVE  v \in LiveBehind(ir, LiveStarts(ir), l, Size(ir, l))
<1> DEFINE starts0 == LiveStarts(ir)
<1>1. Numbered(ir)
  BY DEF Ready
<1>2. v \in DOMAIN starts0 /\ starts0[v] = Enters(ir, v)
  BY DEF LiveStarts
<1>3. \A k \in Computed(ir.code[l], v) : k <= Size(ir, l)
  BY <1>1, Sizes DEF Computed
<1>4. ASSUME Computed(ir.code[l], v) = {} PROVE l \in Enters(ir, v)
  <2>1. CASE PhiReads(ir, l, v)
    <3>1. l \in Needs(ir, v)
      BY <1>4, <2>1 DEF Needs
    <3> QED BY <1>1, <3>1, EntersClosed
  <2>2. CASE Succs(ir, l) \cap Enters(ir, v) # {}
    <3>1. l \in ComesTo(ir, v, Enters(ir, v))
      BY <1>4, <2>2 DEF ComesTo
    <3> QED BY <1>1, <3>1, EntersClosed
  <2> QED BY <1>2, <2>1, <2>2 DEF LiveAtEnd
<1> HIDE DEF starts0
<1> QED
  BY <1>2, <1>3, <1>4 DEF LiveBehind, starts0

\* A value that a block has at its start is not computed there, and is needed there
\* or further on.
LEMMA EntersFor ==
  ASSUME NEW ir, Ready(ir), NEW v \in ValuesOf(ir), NEW l \in Enters(ir, v)
  PROVE  /\ l \in Labels(ir) /\ Computed(ir.code[l], v) = {}
         /\ Reads(ir.code[l], v) # {} \/ LiveAtEnd(ir, LiveStarts(ir), l, v)
<1> DEFINE at == StartOf(ir)  E == Enters(ir, v)
           C == {k \in E : PhiReads(ir, k, v) \/ Reads(ir.code[k], v) # {} \/ Succs(ir, k) \cap E # {}}
<1>1. Numbered(ir) /\ OnceComputed(ir) /\ ComputedBefore(ir)
  BY DEF Ready
<1>2. E \subseteq C /\ E \subseteq Labels(ir)
  <2>1. Needs(ir, v) \cap E \subseteq C
    BY DEF Needs
  <2>2. \A s \in C \cap E : \A k \in E : Computed(ir.code[k], v) = {} /\ s \in Succs(ir, k) => k \in C
    OBVIOUS
  <2> HIDE DEF C
  <2> QED BY <1>1, <2>1, <2>2, EntersOnly
<1>3. ASSUME NEW k \in Computed(ir.code[l], v) PROVE FALSE
  <2> DEFINE q == <<l, k>>
  <2>1. q \in Points(ir) /\ InstAt(ir, q).r = v /\ PosOf(at, q) = at[l] + k - 1
    BY <1>2, <1>3 DEF Computed, Points, InstAt, PosOf
  <2>2. v # 0
    BY <1>1, ZeroNoValue
  <2>3. v \notin Parameters(ir)
    BY <1>1, <2>1, <2>2 DEF OnceComputed
  <2>4. PICK p \in Points(ir) : InstAt(ir, p).r = v /\ PosOf(at, p) < at[l]
    BY <1>1, <2>3 DEF ComputedBefore, LiveStarts
  <2>5. p = q
    BY <1>1, <2>1, <2>2, <2>4 DEF OnceComputed
  <2>6. at[l] \in Nat /\ k \in 1 .. Size(ir, l) /\ Size(ir, l) \in Nat
    BY <1>1, <1>2, <1>3, Blocks, Sizes DEF Computed
  <2> HIDE DEF at, q
  <2> QED BY <2>1, <2>4, <2>5, <2>6
<1>4. LiveAtEnd(ir, LiveStarts(ir), l, v) <=> PhiReads(ir, l, v) \/ Succs(ir, l) \cap E # {}
  BY DEF LiveAtEnd, LiveStarts
<1> QED
  BY <1>2, <1>3, <1>4

\* Behind the phi nodes of a block all that it has at its start is live, and so are
\* their results.
LEMMA LiveBehindPhis ==
  ASSUME NEW ir, Ready(ir), NEW l \in Labels(ir), NEW n \in PhiPoints(ir, l),
         \A i \in PhiPoints(ir, l) : i <= n
  PROVE  /\ \A v \in ValuesOf(ir) : l \in Enters(ir, v) =>
              v \in LiveBehind(ir, LiveStarts(ir), l, n) /\ Computed(ir.code[l], v) = {}
         /\ \A i \in PhiPoints(ir, l) :
              ir.code[l][i].r \in LiveBehind(ir, LiveStarts(ir), l, n) /\ ir.code[l][i].r \in ValuesOf(ir)
<1> DEFINE starts0 == LiveStarts(ir)
<1>1. Numbered(ir) /\ OnceComputed(ir) /\ PhisFirst(ir)
  BY DEF Ready
<1>2. \A v \in ValuesOf(ir) : v \in DOMAIN starts0 /\ starts0[v] = Enters(ir, v)
  BY DEF LiveStarts
<1>3. ASSUME NEW v, NEW k \in Reads(ir.code[l], v) PROVE k > n
  <2>1. k \in 1 .. Size(ir, l) /\ n \in 1 .. Size(ir, l) /\ Size(ir, l) \in Nat
    BY <1>1, Sizes DEF Reads, PhiPoints
  <2>2. k \notin 1 .. n
    BY <1>1 DEF PhisFirst, PhiPoints, Reads
  <2> QED BY <2>1, <2>2
<1>4. ASSUME NEW v \in ValuesOf(ir), l \in Enters(ir, v)
      PROVE  v \in LiveBehind(ir, starts0, l, n) /\ Computed(ir.code[l], v) = {}
  <2>1. Computed(ir.code[l], v) = {} /\ (Reads(ir.code[l], v) # {} \/ LiveAtEnd(ir, starts0, l, v))
    BY <1>4, EntersFor
  <2> HIDE DEF starts0
  <2> QED BY <1>2, <1>3, <1>4, <2>1 DEF LiveBehind
<1>5. ASSUME NEW i \in PhiPoints(ir, l)
      PROVE  ir.code[l][i].r \in LiveBehind(ir, starts0, l, n) /\ ir.code[l][i].r \in ValuesOf(ir)
  <2> DEFINE r == ir.code[l][i].r  p == <<l, i>>
  <2>1. /\ r # 0 /\ i \in DOMAIN ir.code[l] /\ i <= n
        /\ Reads(ir.code[l], r) # {} \/ LiveAtEnd(ir, starts0, l, r)
    BY <1>1 DEF PhisFirst, PhiPoints
  <2>2. p \in Points(ir) /\ InstAt(ir, p).r = r
    BY <2>1 DEF Points, InstAt
  <2>3. r \in ValuesOf(ir)
    <3> HIDE DEF p
    <3> QED BY <2>1, <2>2 DEF ValuesOf
  <2>4. ASSUME NEW k \in Computed(ir.code[l], r) PROVE k = i
    <3>1. <<l, k>> \in Points(ir) /\ InstAt(ir, <<l, k>>).r = r
      BY <2>4 DEF Computed, Points, InstAt
    <3>2. <<l, k>> = p
      <4> HIDE DEF p, r
      <4> QED BY <1>1, <2>1, <2>2, <3>1 DEF OnceComputed
    <3> QED BY <3>2
  <2>5. i \in Computed(ir.code[l], r)
    BY <2>1 DEF Computed
  <2> HIDE DEF starts0, r
  <2>6. r \in DOMAIN starts0 /\ \A k \in Computed(ir.code[l], r) : k <= n
    BY <1>2, <2>1, <2>3, <2>4
  <2>7. LiveAtEnd(ir, starts0, l, r) \/ \E k \in Reads(ir.code[l], r) : k > n
    BY <1>3, <2>1
  <2>8. r \in LiveBehind(ir, starts0, l, n)
    BY <2>5, <2>6, <2>7 DEF LiveBehind
  <2> QED BY <2>3, <2>8 DEF r
<1> QED
  BY <1>4, <1>5

\* The intervals the allocator gets.
LEMMA IntervalsOf ==
  ASSUME NEW ir
  PROVE  /\ \A a \in Intervals(ir) : a.v \in ValuesOf(ir) /\ a = Mark(ir, StartOf(ir), a.v, Extent(ir, a.v))
         /\ \A v \in ValuesOf(ir) : Mark(ir, StartOf(ir), v, Extent(ir, v)) \in Intervals(ir)
         /\ \A v, iv : /\ Mark(ir, StartOf(ir), v, iv).v = v
                       /\ Mark(ir, StartOf(ir), v, iv).start = iv.start /\ Mark(ir, StartOf(ir), v, iv).end = iv.end
<1> DEFINE M(v) == Mark(ir, StartOf(ir), v, Extent(ir, v))
<1>1. Intervals(ir) = {M(v) : v \in ValuesOf(ir)}
  BY DEF Intervals, IntervalsAt, Extent
<1>2. \A v, iv : /\ Mark(ir, StartOf(ir), v, iv).v = v
                /\ Mark(ir, StartOf(ir), v, iv).start = iv.start /\ Mark(ir, StartOf(ir), v, iv).end = iv.end
  BY DEF Mark
<1>3. \A v : M(v).v = v
  BY <1>2
<1> HIDE DEF M
<1>4. \A a \in Intervals(ir) : a.v \in ValuesOf(ir) /\ a = M(a.v)
  BY <1>1, <1>3
<1>5. \A v \in ValuesOf(ir) : M(v) \in Intervals(ir)
  BY <1>1
<1> QED
  BY <1>2, <1>4, <1>5 DEF M

\* No two instructions have the same number.
LEMMA PointsApart ==
  ASSUME NEW ir, Numbered(ir), NEW p \in Points(ir), NEW q \in Points(ir),
         PosOf(StartOf(ir), p) = PosOf(StartOf(ir), q)
  PROVE  p = q
<1> DEFINE at == StartOf(ir)
<1>1. /\ p[1] \in Labels(ir) /\ p[2] \in 1 .. Size(ir, p[1]) /\ PosOf(at, p) = at[p[1]] + p[2] - 1
      /\ q[1] \in Labels(ir) /\ q[2] \in 1 .. Size(ir, q[1]) /\ PosOf(at, q) = at[q[1]] + q[2] - 1
  BY Positions
<1>2. /\ at[p[1]] \in Nat /\ at[q[1]] \in Nat /\ Size(ir, p[1]) \in Nat /\ Size(ir, q[1]) \in Nat
  BY <1>1, Blocks, Sizes
<1>3. /\ at[p[1]] < at[q[1]] => at[p[1]] + Size(ir, p[1]) <= at[q[1]]
      /\ at[q[1]] < at[p[1]] => at[q[1]] + Size(ir, q[1]) <= at[p[1]]
      /\ at[p[1]] = at[q[1]] => p[1] = q[1]
  BY <1>1, BlocksApart
<1>4. at[p[1]] = at[q[1]]
  <2>1. ASSUME NEW x \in Nat, NEW y \in Nat, NEW i, NEW j, NEW a \in Nat, NEW b \in Nat, i \in 1 .. a, j \in 1 .. b,
               x + i - 1 = y + j - 1, x < y => x + a <= y, y < x => y + b <= x
        PROVE  x = y
    <3>1. i <= a /\ j <= b /\ 1 <= i /\ 1 <= j /\ i \in Nat /\ j \in Nat
      BY <2>1
    <3>2. ~ (x < y) /\ ~ (y < x)
      BY <2>1, <3>1
    <3> QED BY <3>2
  <2>2. at[p[1]] + p[2] - 1 = at[q[1]] + q[2] - 1
    BY <1>1
  <2> HIDE DEF at
  <2> QED BY <1>1, <1>2, <1>3, <2>1, <2>2
<1>5. p[1] = q[1] /\ p[2] = q[2]
  <2>1. p[1] = q[1]
    BY <1>3, <1>4
  <2>2. at[p[1]] + p[2] - 1 = at[p[1]] + q[2] - 1
    BY <1>1, <2>1
  <2>3. p[2] \in Int /\ q[2] \in Int /\ at[p[1]] \in Int
    BY <1>1, <1>2
  <2>4. ASSUME NEW x \in Int, NEW i \in Int, NEW j \in Int, x + i - 1 = x + j - 1 PROVE i = j
    BY <2>4
  <2> HIDE DEF at
  <2>5. p[2] = q[2]
    BY <2>2, <2>3, <2>4
  <2> QED BY <2>1, <2>5
<1>6. ASSUME NEW x \in Points(ir) PROVE x = <<x[1], x[2]>>
  <2>1. PICK l \in Labels(ir) : \E i \in DOMAIN ir.code[l] : x = <<l, i>>
    BY DEF Points
  <2>2. PICK i \in DOMAIN ir.code[l] : x = <<l, i>>
    BY <2>1
  <2> QED BY <2>2
<1> QED
  BY <1>5, <1>6

\* A function has finitely many values.
LEMMA FiniteIntervals ==
  ASSUME NEW ir, Ready(ir)
  PROVE  IsFiniteSet(Intervals(ir))
<1> DEFINE I == Intervals(ir)  at == StartOf(ir)
           code(a) == IF a.v \in Parameters(ir) THEN a.v ELSE ir.arity + 1 + a.start
           m == [a \in I |-> code(a)]
<1>1. Numbered(ir) /\ OnceComputed(ir) /\ ir.arity \in Nat
  BY DEF Ready, Numbered
<1>2. PICK n \in Nat : \A l \in Labels(ir) : at[l] + Size(ir, l) <= n
  BY <1>1, Blocks
<1>3. ASSUME NEW a \in I, a.v \notin Parameters(ir)
      PROVE  \E p \in Points(ir) : InstAt(ir, p).r = a.v /\ a.start = PosOf(at, p) /\ a.start \in Nat /\ a.start <= n
  <2>1. a.v \in ValuesOf(ir) /\ a.start = Extent(ir, a.v).start
    BY IntervalsOf
  <2>2. PICK p \in Points(ir) : InstAt(ir, p).r = a.v
    BY <1>1, <1>3, <2>1, ComputedOnce
  <2>3. IsRange(ir, at, a.v, Extent(ir, a.v))
    BY <2>1, ExtentOfValue DEF Extent
  <2>4. a.start = PosOf(at, p)
    BY <2>1, <2>2, <2>3 DEF IsRange
  <2>5. p[1] \in Labels(ir) /\ PosOf(at, p) \in Nat /\ PosOf(at, p) < at[p[1]] + Size(ir, p[1])
    BY <1>1, Positions
  <2>6. at[p[1]] \in Nat /\ Size(ir, p[1]) \in Nat /\ at[p[1]] + Size(ir, p[1]) <= n
    BY <1>1, <1>2, <2>5, Blocks, Sizes
  <2> HIDE DEF at
  <2>7. a.start \in Nat /\ a.start <= n
    BY <2>4, <2>5, <2>6
  <2> QED BY <2>2, <2>4, <2>7
<1> DEFINE N == ir.arity + 1 + n
<1>4. ASSUME NEW a \in I PROVE code(a) \in 0 .. N
  <2>1. CASE a.v \in Parameters(ir)
    BY <1>1, <2>1 DEF Parameters
  <2>2. CASE a.v \notin Parameters(ir)
    <3>1. a.start \in Nat /\ a.start <= n
      BY <1>3, <2>2
    <3> QED BY <1>1, <2>2, <3>1
  <2> QED BY <2>1, <2>2
<1>5. ASSUME NEW a \in I, NEW b \in I, code(a) = code(b) PROVE a = b
  <2>1. a.v = b.v => a = b
    BY IntervalsOf
  <2>2. CASE a.v \in Parameters(ir) /\ b.v \in Parameters(ir)
    BY <1>5, <2>1, <2>2
  <2>3. CASE a.v \in Parameters(ir) /\ b.v \notin Parameters(ir)
    <3>1. b.start \in Nat
      BY <1>3, <2>3
    <3> QED BY <1>1, <1>5, <2>3, <3>1 DEF Parameters
  <2>4. CASE a.v \notin Parameters(ir) /\ b.v \in Parameters(ir)
    <3>1. a.start \in Nat
      BY <1>3, <2>4
    <3> QED BY <1>1, <1>5, <2>4, <3>1 DEF Parameters
  <2>5. CASE a.v \notin Parameters(ir) /\ b.v \notin Parameters(ir)
    <3>1. PICK p \in Points(ir) : InstAt(ir, p).r = a.v /\ a.start = PosOf(at, p) /\ a.start \in Nat
      BY <1>3, <2>5
    <3>2. PICK q \in Points(ir) : InstAt(ir, q).r = b.v /\ b.start = PosOf(at, q) /\ b.start \in Nat
      BY <1>3, <2>5
    <3>3. a.start = b.start
      BY <1>1, <1>5, <2>5, <3>1, <3>2
    <3>4. p = q
      BY <1>1, <3>1, <3>2, <3>3, PointsApart
    <3> QED BY <2>1, <3>1, <3>2, <3>4
  <2> QED BY <2>2, <2>3, <2>4, <2>5
<1> HIDE DEF code
<1>6. m \in Injection(I, 0 .. N)
  <2>1. m \in [I -> 0 .. N] /\ \A a \in I : m[a] = code(a)
    BY <1>4
  <2> HIDE DEF m, N, I
  <2>2. \A a, b \in I : m[a] = m[b] => a = b
    BY <1>5, <2>1
  <2> QED BY <2>1, <2>2 DEF Injection, IsInjective
<1>7. IsFiniteSet(0 .. N)
  <2>1. N \in Int
    BY <1>1, <1>2
  <2> HIDE DEF N
  <2> QED BY <2>1, FS_Interval
<1> HIDE DEF m, N
<1> QED
  BY <1>6, <1>7, FS_Injection

\* What is read out of the analyses is what allocate goes by.
LEMMA RequestSound ==
  ASSUME NEW ir, Ready(ir), NEW file
  PROVE  Sound(RequestOf(ir, file))
<1> DEFINE r == RequestOf(ir, file)  A == Len(ArgRegs)
<1>1. ir.arity \in Nat /\ A \in Nat /\ DOMAIN ArgRegs = 1 .. A
  BY PlacementAssumption DEF Ready, Numbered
<1>2. IsFiniteSet(r.intervals) /\ r.intervals = Intervals(ir)
  BY FiniteIntervals DEF RequestOf
<1>3. \A a \in r.intervals : a.start \in Nat /\ a.end \in Nat
  <2>1. ASSUME NEW a \in Intervals(ir) PROVE a.start \in Nat /\ a.end \in Nat
    <3>1. a.v \in ValuesOf(ir) /\ a.start = Extent(ir, a.v).start /\ a.end = Extent(ir, a.v).end
      BY IntervalsOf
    <3>2. Extent(ir, a.v) \in Pairs
      BY <3>1, ExtentOfValue DEF Extent
    <3> QED BY <3>1, <3>2 DEF Pairs
  <2> QED BY <1>2, <2>1
<1>4. \A a, b \in r.intervals : a.v = b.v => a = b
  BY <1>2, IntervalsOf
<1>5. \A v, w \in DOMAIN r.params : r.params[v] = r.params[w] => v = w
  <2> DEFINE M == Min({ir.arity, A})
  <2>1. M \in Nat /\ M <= A
    <3>1. ASSUME NEW x \in Nat, NEW y \in Nat PROVE Min({x, y}) = IF x <= y THEN x ELSE y
      BY DEF Min
    <3> HIDE DEF A
    <3> QED BY <1>1, <3>1
  <2>2. r.params = [v \in 1 .. M |-> ArgRegs[v]]
    BY DEF RequestOf
  <2> HIDE DEF M, r
  <2>3. \A v \in 1 .. M : v \in DOMAIN ArgRegs
    BY <1>1, <2>1
  <2> QED BY <2>2, <2>3, PlacementAssumption
<1>6. /\ IsFiniteSet(DOMAIN r.stacked)
      /\ \A v \in DOMAIN r.stacked : r.stacked[v] \in Nat /\ r.stacked[v] < Cardinality(DOMAIN r.stacked)
      /\ \A v, w \in DOMAIN r.stacked : r.stacked[v] = r.stacked[w] => v = w
  <2>1. r.stacked = [v \in A + 1 .. ir.arity |-> v - A - 1]
    BY DEF RequestOf
  <2> HIDE DEF r, A
  <2>2. DOMAIN r.stacked = A + 1 .. ir.arity /\ \A v \in A + 1 .. ir.arity : r.stacked[v] = v - A - 1
    BY <2>1
  <2>3. /\ IsFiniteSet(A + 1 .. ir.arity)
        /\ Cardinality(A + 1 .. ir.arity) = IF A + 1 > ir.arity THEN 0 ELSE ir.arity - (A + 1) + 1
    <3>1. A + 1 \in Int /\ ir.arity \in Int
      BY <1>1
    <3> HIDE DEF r
    <3> QED BY <3>1, FS_Interval
  <2>4. \A v \in A + 1 .. ir.arity : v - A - 1 \in Nat /\ v - A - 1 < Cardinality(A + 1 .. ir.arity)
    BY <1>1, <2>3
  <2>5. \A v, w \in A + 1 .. ir.arity : v - A - 1 = w - A - 1 => v = w
    BY <1>1
  <2> DEFINE k == r.stacked
  <2>6. DOMAIN k = A + 1 .. ir.arity /\ \A v \in A + 1 .. ir.arity : k[v] = v - A - 1
    BY <2>2
  <2> HIDE DEF k
  <2>7. \A v \in DOMAIN k : k[v] \in Nat /\ k[v] < Cardinality(DOMAIN k)
    BY <2>4, <2>6
  <2>8. \A v, w \in DOMAIN k : k[v] = k[w] => v = w
    BY <2>5, <2>6
  <2> QED BY <2>3, <2>6, <2>7, <2>8 DEF k
<1> QED
  <2> HIDE DEF r
  <2>1. Sound(r)
    BY <1>2, <1>3, <1>4, <1>5, <1>6 DEF Sound
  <2> QED BY <2>1 DEF r

---------------------------------------------------------------------------
\* Every solution of the equations of LivenessInfo._compute, the least one too, holds
\* what really is live at the start of a block, of the values that no phi node
\* reads; a value that one does read is live to the end of the block the node has
\* it from, of which the equations say nothing.
THEOREM LivenessCovers ==
  ASSUME NEW ir, Numbered(ir), NEW in, in = LiveInOf(ir, in), NEW v \in ValuesOf(ir),
         \A p \in Labels(ir) : ~ PhiReads(ir, p, v)
  PROVE  \A l \in Enters(ir, v) : v \in in[l]
<1> DEFINE E == Enters(ir, v)  C == {l \in E : v \in in[l]}
<1>1. E \subseteq Labels(ir)
  BY EntersOnly
<1>2. \A l \in Labels(ir) : in[l] = Gen(ir.code[l]) \cup (LiveOutOf(ir, in, l) \ Kill(ir.code[l]))
  BY DEF LiveInOf
<1>3. ASSUME NEW l \in Needs(ir, v) \cap E PROVE l \in C
  <2>1. l \in Labels(ir)
    BY <1>1
  <2>2. PICK i \in Reads(ir.code[l], v) : \A k \in Computed(ir.code[l], v) : i <= k
    BY <2>1 DEF Needs
  <2> DEFINE is == ir.code[l]
  <2>3. i \in DOMAIN is /\ DOMAIN is = 1 .. Size(ir, l) /\ Size(ir, l) \in Nat
    BY <2>1, Sizes DEF Reads
  <2>4. PICK j \in DOMAIN is[i].a : is[i].a[j] = v
    BY DEF Reads
  <2> HIDE DEF is
  <2>5. v \notin {is[k].r : k \in 1 .. i - 1}
    <3> SUFFICES ASSUME NEW k \in 1 .. i - 1, v = is[k].r PROVE FALSE
      OBVIOUS
    <3>1. k \in DOMAIN is /\ k < i
      BY <2>3
    <3>2. k \in Computed(is, v)
      BY <3>1 DEF Computed
    <3>3. i <= k
      BY <2>2, <3>2 DEF is
    <3> QED BY <2>3, <3>1, <3>3
  <2>6. v \in Gen(is)
    BY <2>3, <2>4, <2>5 DEF Gen
  <2> QED BY <1>2, <2>1, <2>6 DEF is
<1>4. ASSUME NEW s \in C, NEW l \in E, Computed(ir.code[l], v) = {}, s \in Succs(ir, l) PROVE l \in C
  <2>1. v \in LiveOutOf(ir, in, l)
    BY <1>4 DEF LiveOutOf
  <2>2. v \notin Kill(ir.code[l])
    BY <1>4 DEF Kill, Computed
  <2> QED BY <1>1, <1>2, <2>1, <2>2
<1>5. E \subseteq C
  <2> HIDE DEF C
  <2>1. Needs(ir, v) \cap E \subseteq C
    BY <1>3
  <2>2. \A s \in C \cap E : \A l \in E : Computed(ir.code[l], v) = {} /\ s \in Succs(ir, l) => l \in C
    BY <1>4
  <2> HIDE DEF E
  <2> QED BY <2>1, <2>2, EntersOnly DEF E
<1> QED
  BY <1>5

---------------------------------------------------------------------------
\* The functions are as the passes leave them.
AllReady == \A f \in Functions : Ready(f)

\* Once there are intervals, they are those of the function there are registers for.
Analysed ==
  starts # <<>> =>
    /\ fn # <<>> /\ fn \in Functions /\ starts = LiveStarts(fn)
    /\ \E file \in Files : request = RequestOf(fn, file)
PlaceInv == ScanInv /\ SlotInv /\ (fn # <<>> => fn \in Functions) /\ Analysed

\* Before anything is analysed.
LEMMA PlaceInit == PlacementInit => PlaceInv
<1> SUFFICES ASSUME PlacementInit PROVE PlaceInv
  OBVIOUS
<1>1. AllocInit /\ fn = <<>> /\ starts = <<>>
  BY DEF PlacementInit
<1>2. SlotInv
  BY <1>1 DEF AllocInit, Nothing, SlotInv, Stored
<1> QED
  BY <1>1, <1>2, ScanInit DEF PlaceInv, Analysed

\* Analyse is the only step that needs the functions to be ready: there the request
\* is sound.
LEMMA PlaceNext == AllReady /\ PlaceInv /\ [PlacementNext]_placementVars => PlaceInv'
<1> SUFFICES ASSUME AllReady, PlaceInv, [PlacementNext]_placementVars PROVE PlaceInv'
  OBVIOUS
<1>1. ScanInv /\ SlotInv /\ (fn # <<>> => fn \in Functions) /\ Analysed
  BY DEF PlaceInv
<1>2. CASE Isolated
  <2>1. fn = <<>> /\ fn' \in Functions /\ starts' = starts /\ UNCHANGED allocVars
    BY <1>2 DEF Isolated
  <2>2. ScanInv' /\ SlotInv'
    BY <1>1, <2>1, PlaceKeeps, PlaceStores
  <2>3. Analysed'
    <3>1. request' = request
      BY <2>1 DEF allocVars
    <3>2. CASE starts # <<>>
      BY <1>1, <2>1, <3>2 DEF Analysed
    <3> QED BY <2>1, <3>2 DEF Analysed
  <2> QED BY <2>1, <2>2, <2>3 DEF PlaceInv
<1>3. CASE Analyse
  <2>1. fn # <<>> /\ starts' = LiveStarts(fn) /\ fn' = fn
    BY <1>3 DEF Analyse
  <2>2. PICK file \in Files : Begin(RequestOf(fn, file))
    BY <1>3 DEF Analyse
  <2>3. fn \in Functions /\ Sound(RequestOf(fn, file))
    BY <1>1, <2>1, RequestSound DEF AllReady
  <2>4. ScanInv' /\ SlotInv' /\ request' = RequestOf(fn, file)
    BY <2>2, <2>3, BeginKeeps, BeginStores DEF Begin
  <2>5. Analysed'
    BY <2>1, <2>3, <2>4 DEF Analysed
  <2> QED BY <2>1, <2>3, <2>4, <2>5 DEF PlaceInv
<1>4. CASE Allocate
  <2>1. Place /\ fn' = fn /\ starts' = starts
    BY <1>4 DEF Allocate
  <2>2. ScanInv' /\ SlotInv'
    BY <1>1, <2>1, PlaceKeeps, PlaceStores
  <2>3. request' = request
    BY <2>1 DEF Place, Skip, Assign, SpillOther, SpillSelf, Give
  <2>4. Analysed'
    BY <1>1, <2>1, <2>3 DEF Analysed
  <2> QED BY <1>1, <2>1, <2>2, <2>4 DEF PlaceInv
<1>5. CASE UNCHANGED placementVars
  <2>1. fn' = fn /\ starts' = starts /\ UNCHANGED allocVars
    BY <1>5 DEF placementVars
  <2>2. ScanInv' /\ SlotInv' /\ request' = request
    BY <1>1, <2>1, PlaceKeeps, PlaceStores DEF allocVars
  <2> QED BY <1>1, <2>1, <2>2 DEF PlaceInv, Analysed
<1> QED
  BY <1>2, <1>3, <1>4, <1>5 DEF PlacementNext

\* The allocation never gives two values whose intervals overlap one place, with the
\* intervals that the analyses give for what the passes leave.
THEOREM PlacesUnshared == AllReady /\ PlacementSpec => []NoSharing
<1> SUFFICES ASSUME AllReady PROVE PlacementSpec => []NoSharing
  OBVIOUS
<1>1. PlaceInv /\ [PlacementNext]_placementVars => PlaceInv'
  BY PlaceNext
<1>2. PlaceInv => NoSharing
  BY DEF PlaceInv, ScanInv, SlotInv, NoSharing
<1> QED
  BY <1>1, <1>2, PlaceInit, PTL DEF PlacementSpec

\* What there is to say of values that are live behind an instruction, once all are
\* placed: an interval each that holds the number of the instruction, and a place.
LEMMA PlacedHere ==
  ASSUME AllReady, PlaceInv, AllPlaced, NEW l \in Labels(fn), NEW i \in DOMAIN fn.code[l],
         NEW v, v \in LiveBehind(fn, starts, l, i) \/ (v = fn.code[l][i].r /\ v # 0)
  PROVE  \E a \in request.intervals :
           /\ a.v = v /\ a.start <= StartOf(fn)[l] + i - 1 /\ StartOf(fn)[l] + i - 1 < a.end
           /\ a.start \in Nat /\ a.end \in Nat /\ StartOf(fn)[l] + i - 1 \in Nat
           /\ v \in DOMAIN reg \cup DOMAIN slot
<1>1. starts # <<>> /\ todo = {}
  BY DEF AllPlaced
<1>2. Ready(fn) /\ starts = LiveStarts(fn) /\ request.intervals = Intervals(fn)
  BY <1>1 DEF PlaceInv, Analysed, AllReady, RequestOf
<1>3. /\ v \in ValuesOf(fn)
      /\ Extent(fn, v).start <= StartOf(fn)[l] + i - 1 /\ StartOf(fn)[l] + i - 1 < Extent(fn, v).end
  <2>1. CASE v \in LiveBehind(fn, starts, l, i)
    BY <1>2, <2>1, LiveInside
  <2>2. CASE v = fn.code[l][i].r /\ v # 0
    BY <1>2, <2>2, ResultInside
  <2> QED BY <2>1, <2>2
<1> DEFINE a == Mark(fn, StartOf(fn), v, Extent(fn, v))
<1>4. a \in request.intervals /\ a.v = v /\ a.start = Extent(fn, v).start /\ a.end = Extent(fn, v).end
  BY <1>2, <1>3, IntervalsOf
<1>5. Extent(fn, v).start \in Nat /\ Extent(fn, v).end \in Nat
  BY <1>2, <1>3, ExtentOfValue DEF Extent, Pairs
<1>6. StartOf(fn)[l] + i - 1 \in Nat
  <2>1. Numbered(fn)
    BY <1>2 DEF Ready
  <2>2. StartOf(fn)[l] \in Nat /\ Size(fn, l) \in Nat /\ i \in 1 .. Size(fn, l)
    BY <2>1, Blocks, Sizes
  <2> QED BY <2>2
<1> HIDE DEF a
<1>7. v \in DOMAIN reg \cup DOMAIN slot
  BY <1>1, <1>4 DEF PlaceInv, SlotInv, Stored
<1> QED
  BY <1>3, <1>4, <1>5, <1>6, <1>7

\* Once all are placed the intervals keep apart what is live together.
LEMMA PlacedApart == ASSUME AllReady, PlaceInv PROVE LiveApart
<1> DEFINE Here(l, i) == LiveBehind(fn, starts, l, i) \cup ({fn.code[l][i].r} \ {0})
<1>1. ASSUME AllPlaced, NEW l \in Labels(fn), NEW i \in DOMAIN fn.code[l],
             NEW v \in Here(l, i), NEW w \in Here(l, i), v # w
      PROVE  Loc(v) # Loc(w)
  <2> DEFINE q == StartOf(fn)[l] + i - 1
  <2>1. PICK a \in request.intervals :
          /\ a.v = v /\ a.start <= q /\ q < a.end /\ a.start \in Nat /\ a.end \in Nat /\ q \in Nat
          /\ v \in DOMAIN reg \cup DOMAIN slot
    BY <1>1, PlacedHere
  <2>2. PICK b \in request.intervals :
          /\ b.v = w /\ b.start <= q /\ q < b.end /\ b.start \in Nat /\ b.end \in Nat /\ q \in Nat
          /\ w \in DOMAIN reg \cup DOMAIN slot
    BY <1>1, PlacedHere
  <2> HIDE DEF q, Here
  <2>3. Overlap(a, b)
    BY <2>1, <2>2 DEF Overlap
  <2>4. CASE v \in DOMAIN reg /\ w \in DOMAIN reg
    <3>1. reg[v] # reg[w]
      BY <1>1, <2>1, <2>2, <2>3, <2>4 DEF PlaceInv, ScanInv, Unshared
    <3> QED BY <2>4, <3>1 DEF Loc
  <2>5. CASE v \notin DOMAIN reg /\ w \notin DOMAIN reg
    <3>1. slot[v] # slot[w]
      BY <1>1, <2>1, <2>2, <2>5 DEF PlaceInv, SlotInv, Stored
    <3> QED BY <2>5, <3>1 DEF Loc
  <2>6. CASE (v \in DOMAIN reg) # (w \in DOMAIN reg)
    BY <2>6 DEF Loc
  <2> QED BY <2>4, <2>5, <2>6
<1> QED BY <1>1 DEF LiveApart

\* Where an instruction has written its result, every value that is live there and
\* the result have a place of their own: the intervals, the edges back, the phi
\* nodes and the allocation agree, for every function that is Ready and every set
\* of registers.
THEOREM LiveValuesApart == AllReady /\ PlacementSpec => []LiveApart
<1> SUFFICES ASSUME AllReady PROVE PlacementSpec => []LiveApart
  OBVIOUS
<1>1. PlaceInv /\ [PlacementNext]_placementVars => PlaceInv'
  BY PlaceNext
<1>2. PlaceInv => LiveApart
  BY PlacedApart
<1> QED
  BY <1>1, <1>2, PlaceInit, PTL DEF PlacementSpec

\* What a call destroys and somebody still needs behind it is among what is saved
\* around the call, also around LIST_GET, which destroys three registers only.
THEOREM CallsKeepAll == AllReady /\ PlacementSpec => []CallsKeep
<1> SUFFICES ASSUME AllReady PROVE PlacementSpec => []CallsKeep
  OBVIOUS
<1>1. PlaceInv /\ [PlacementNext]_placementVars => PlaceInv'
  BY PlaceNext
<1>2. ASSUME PlaceInv PROVE CallsKeep
  <2>1. ASSUME AllPlaced, NEW l \in Labels(fn), NEW i \in DOMAIN fn.code[l],
               NEW v \in LiveBehind(fn, starts, l, i), v # fn.code[l][i].r,
               v \in DOMAIN reg, reg[v] \in Destroys(fn.code[l][i])
        PROVE  reg[v] \in Saves(l, i)
    <3> DEFINE cp == StartOf(fn)[l] + i - 1
               x == fn.code[l][i]
               ivs == {iv \in request.intervals : iv.v \in DOMAIN reg /\ reg[iv.v] \in CallerSaved
                         /\ iv.v # x.r /\ iv.start <= cp /\ iv.end > cp}
    <3>1. PICK a \in request.intervals :
            a.v = v /\ a.start <= cp /\ cp < a.end /\ a.start \in Nat /\ a.end \in Nat /\ cp \in Nat
      BY <1>2, <2>1, PlacedHere
    <3>2. reg[v] \in CallerSaved /\ (x.op = "LIST_GET" => reg[v] \in {"rax", "r10", "r11"})
      BY <2>1, PlacementAssumption DEF Destroys
    <3>3. Saves(l, i) = {reg[iv.v] : iv \in ivs} \ IF x.op = "LIST_GET" THEN CallerSaved \ {"rax", "r10", "r11"} ELSE {}
      BY DEF Saves
    <3>4. a \in ivs
      <4>1. a.end > cp
        <5> HIDE DEF cp
        <5> QED BY <3>1
      <4> HIDE DEF cp
      <4> QED BY <2>1, <3>1, <3>2, <4>1
    <3> HIDE DEF ivs, cp, x
    <3> QED BY <3>1, <3>2, <3>3, <3>4
  <2> QED BY <2>1 DEF CallsKeep
<1> QED
  BY <1>1, <1>2, PlaceInit, PTL DEF PlacementSpec
=============================================================================
