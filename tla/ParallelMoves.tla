------------------------------ MODULE ParallelMoves ------------------------------
(***************************************************************************)
(* The copies on the way from a block to one with phi nodes:               *)
(* _emit_parallel_int_moves of src/src/optimizer/codegen.py.  A step emits *)
(* a move, or the copy that breaks a cycle, and the machine executes it.   *)
(* _emit_parallel_float_moves is the same with xmm15 as the scratch.       *)
(***************************************************************************)
EXTENDS Naturals, FiniteSets

CONSTANTS
  Scratch,  \* r11
  Memory,   \* the locations that are stack slots
  Calls     \* [moves, holds]: what it may be called with, and when

VARIABLES
  moves,    \* place in the list :> [from, to]: what is wanted, nothing to itself
  before,   \* what the locations hold when the copies begin
  left,     \* the moves that are left: remaining, by their place in moves
  source,   \* where a move that is left takes its value from
  contents  \* what the locations hold
copyVars == <<moves, before, left, source, contents>>

CopiesInit ==
  /\ moves = <<>> /\ before = <<>>
  /\ left = {} /\ source = <<>> /\ contents = <<>>
\* Moves that write what they read.
Cyclic(ms, set) == {ms[i].to : i \in set} = {ms[i].from : i \in set}
\* No copy of a cycle is from stack slot to stack slot, which would go through the
\* scratch register itself.
NoSlotCycle(ms) ==
  \A set \in SUBSET DOMAIN ms : Cyclic(ms, set) =>
    \A i \in set : ~(ms[i].from \in Memory /\ ms[i].to \in Memory)
\* What the callers see to: every location is written once, the scratch register is
\* nobody's location, and no cycle goes from slot to slot.
Apart(ms, holds) ==
  /\ IsFiniteSet(DOMAIN ms) /\ DOMAIN ms \subseteq Nat
  /\ \A i \in DOMAIN ms : {ms[i].from, ms[i].to, Scratch} \subseteq DOMAIN holds
  /\ \A i, j \in DOMAIN ms : ms[i].to = ms[j].to => i = j
  /\ \A i \in DOMAIN ms : ms[i].from # Scratch /\ ms[i].to # Scratch
  /\ NoSlotCycle(ms)
\* Called with the moves ms when the locations hold what holds says.
BeginCopies(ms, holds) ==
  /\ moves' = ms /\ before' = holds
  /\ left' = DOMAIN ms
  /\ source' = [i \in DOMAIN ms |-> ms[i].from]
  /\ contents' = holds

\* Nobody else reads what move i overwrites.
Safe(i) == \A j \in left \ {i} : source[j] # moves[i].to
First(set) == CHOOSE i \in set : \A j \in set : i <= j

\* _emit_int_move: from memory to memory over the scratch register.
Moved(from, to) ==
  [l \in DOMAIN contents |->
     IF l = to \/ (l = Scratch /\ from \in Memory /\ to \in Memory)
     THEN contents[from] ELSE contents[l]]
\* Mutant: the first move that is left, safe or not.
EmitMoveUnsafe ==
  /\ left # {}
  /\ contents' = Moved(source[First(left)], moves[First(left)].to)
  /\ left' = left \ {First(left)}
  /\ UNCHANGED <<moves, before, source>>
EmitMove ==
  /\ \E i \in left : Safe(i)
  /\ LET i == First({j \in left : Safe(j)}) IN
       /\ contents' = Moved(source[i], moves[i].to)
       /\ left' = left \ {i}
  /\ UNCHANGED <<moves, before, source>>

\* Mutant: the move still reads where it did.
BreakCycleAlone ==
  /\ left # {} /\ \A i \in left : ~Safe(i)
  /\ contents' = [contents EXCEPT ![Scratch] = contents[source[First(left)]]]
  /\ UNCHANGED <<moves, before, left, source>>
\* All that is left is in a cycle.
BreakCycle ==
  /\ left # {} /\ \A i \in left : ~Safe(i)
  /\ contents' = [contents EXCEPT ![Scratch] = contents[source[First(left)]]]
  /\ source' = [source EXCEPT ![First(left)] = Scratch]
  /\ UNCHANGED <<moves, before, left>>

EmitCopy == EmitMove \/ BreakCycle
CopiesNext == (left = {} /\ \E c \in Calls : BeginCopies(c.moves, c.holds)) \/ EmitCopy
CopiesSpec == CopiesInit /\ [][CopiesNext]_copyVars

-----------------------------------------------------------------------------
Targets == {moves[i].to : i \in DOMAIN moves}
\* When all is emitted every target holds what the source of its move held before
\* the first copy, and everything but the scratch register is what it was.
AllAtOnce ==
  left = {} =>
    /\ \A i \in DOMAIN moves : contents[moves[i].to] = before[moves[i].from]
    /\ \A l \in DOMAIN contents \ (Targets \cup {Scratch}) : contents[l] = before[l]
=============================================================================
