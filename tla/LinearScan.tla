------------------------------- MODULE LinearScan -------------------------------
(***************************************************************************)
(* The register allocator (src/src/optimizer/regalloc.py), from the live   *)
(* intervals of one function to a register or a stack slot for each value. *)
(* A step is one turn of the loop of allocate.                             *)
(*                                                                         *)
(* The order of the free list only decides which of several registers is   *)
(* taken; it is left open.                                                 *)
(***************************************************************************)
EXTENDS Naturals, FiniteSets

CONSTANTS
  Requests,     \* [intervals, params, stacked, file]: what allocate is called
                \* with; an interval is [v, start, end, crosses, forbidden], params
                \* gives each parameter that arrives in a register its register,
                \* stacked a slot to each one that does not, file is the set of
                \* all registers
  CalleeSaved   \* CALLEE_SAVED_GPRS

VARIABLES
  request,
  todo,    \* the intervals the loop has before it
  free,    \* _free_gprs
  active,  \* the intervals that hold a register now
  reg,     \* reg_map
  slot,    \* spill_map
  slots    \* _next_spill_offset, in slots
allocVars == <<request, todo, free, active, reg, slot, slots>>

Nothing == [intervals |-> {}, params |-> <<>>, stacked |-> <<>>, file |-> {}]
AllocInit ==
  /\ request = Nothing
  /\ todo = {} /\ free = {} /\ active = {}
  /\ reg = <<>> /\ slot = <<>> /\ slots = 0
\* What it is called with: an interval for each value, with ends that can be
\* compared, and a register or a slot of its own for each parameter.
Sound(r) ==
  /\ IsFiniteSet(r.intervals)
  /\ \A a \in r.intervals : a.start \in Nat /\ a.end \in Nat
  /\ \A a, b \in r.intervals : a.v = b.v => a = b
  /\ \A v, w \in DOMAIN r.params : r.params[v] = r.params[w] => v = w
  /\ IsFiniteSet(DOMAIN r.stacked)
  /\ \A v \in DOMAIN r.stacked : r.stacked[v] \in Nat /\ r.stacked[v] < Cardinality(DOMAIN r.stacked)
  /\ \A v, w \in DOMAIN r.stacked : r.stacked[v] = r.stacked[w] => v = w
\* allocate is called with r.
Begin(r) ==
  /\ request = Nothing
  /\ request' = r
  /\ todo' = r.intervals
  /\ free' = r.file \ {r.params[v] : v \in DOMAIN r.params}
  /\ active' = {}
  /\ reg' = r.params
  /\ slot' = r.stacked /\ slots' = Cardinality(DOMAIN r.stacked)

\* The loop goes by start.
Current == CHOOSE iv \in todo : \A o \in todo : iv.start <= o.start

\* _expire_old_intervals
Expired(iv) == {a \in active : a.end <= iv.start}
\* Mutant: what ends one behind the start has ended.
RunningLess(iv) == {a \in active : a.end > iv.start + 1}
Running(iv) == active \ Expired(iv)
FreeAt(iv) == free \cup {reg[a.v] : a \in active \ Running(iv)}

\* _pick_callee_saved_gpr for what is live across a call, else _pick_free_gpr.
Allowed(iv) == FreeAt(iv) \ iv.forbidden
Pick(iv) ==
  IF iv.crosses /\ Allowed(iv) \cap CalleeSaved # {}
  THEN CHOOSE r \in Allowed(iv) \cap CalleeSaved : TRUE
  ELSE CHOOSE r \in Allowed(iv) : TRUE
Longest(iv) == CHOOSE a \in Running(iv) : \A o \in Running(iv) : o.end <= a.end

\* A parameter has its register already.
Skip ==
  /\ todo # {} /\ Current.v \in DOMAIN reg
  /\ todo' = todo \ {Current}
  /\ UNCHANGED <<request, free, active, reg, slot, slots>>

Give(iv, r, holders, map) ==
  /\ todo' = todo \ {iv}
  /\ active' = holders \cup {iv}
  /\ reg' = [v \in DOMAIN map \cup {iv.v} |-> IF v = iv.v THEN r ELSE map[v]]
  /\ UNCHANGED request
Assign ==
  /\ todo # {} /\ Current.v \notin DOMAIN reg
  /\ Allowed(Current) # {}
  /\ Give(Current, Pick(Current), Running(Current), reg)
  /\ free' = FreeAt(Current) \ {Pick(Current)}
  /\ UNCHANGED <<slot, slots>>

ToSlot(v) ==
  /\ slot' = [w \in DOMAIN slot \cup {v} |-> IF w = v THEN slots ELSE slot[w]]
  /\ slots' = slots + 1
\* _spill_at_interval: the active interval that ends last makes room, whatever
\* register it has ...
SpillOther ==
  /\ todo # {} /\ Current.v \notin DOMAIN reg
  /\ Allowed(Current) = {}
  /\ \E a \in Running(Current) : a.end > Current.end
  /\ ToSlot(Longest(Current).v)
  /\ Give(Current, reg[Longest(Current).v], Running(Current) \ {Longest(Current)},
          [v \in DOMAIN reg \ {Longest(Current).v} |-> reg[v]])
  /\ free' = FreeAt(Current)

\* ... or the interval goes to the stack itself.
SpillSelf ==
  /\ todo # {} /\ Current.v \notin DOMAIN reg
  /\ Allowed(Current) = {}
  /\ \A a \in Running(Current) : a.end <= Current.end
  /\ ToSlot(Current.v)
  /\ todo' = todo \ {Current}
  /\ free' = FreeAt(Current)
  /\ active' = Running(Current)
  /\ UNCHANGED <<request, reg>>

Place == Skip \/ Assign \/ SpillOther \/ SpillSelf
AllocNext == (\E r \in Requests : Begin(r)) \/ Place
AllocSpec == AllocInit /\ [][AllocNext]_allocVars

-----------------------------------------------------------------------------
Overlap(a, b) == a.start < b.end /\ b.start < a.end
\* Two values whose intervals overlap never have the same register, in no state of
\* the allocation: the expiry, the free list and the theft of a register agree.
Unshared ==
  \A a, b \in request.intervals :
    /\ a.v # b.v /\ a.v \in DOMAIN reg /\ b.v \in DOMAIN reg
    /\ Overlap(a, b)
    => reg[a.v] # reg[b.v]

\* A value that has had its turn is somewhere, and no two values are in one slot.
Stored ==
  /\ \A a \in request.intervals \ todo : a.v \in DOMAIN reg \cup DOMAIN slot
  /\ \A v, w \in DOMAIN slot : slot[v] = slot[w] => v = w

\* No two values share a register or a slot.
NoSharing == Unshared /\ Stored

\* A register that must not hold a value does not: what is live across a division
\* keeps out of rax and rdx, what is live across a shift out of rcx.
ForbiddenKept ==
  \A a \in request.intervals : a.v \in DOMAIN reg => reg[a.v] \notin a.forbidden
=============================================================================
