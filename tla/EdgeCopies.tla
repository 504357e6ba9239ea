------------------------------ MODULE EdgeCopies -------------------------------
(***************************************************************************)
(* The way over an edge to phi nodes, once all values are placed: what     *)
(* _emit_phi_copies of src/src/optimizer/codegen.py copies, from and to    *)
(* where the allocation has put the values, and what is there afterwards.  *)
(***************************************************************************)
EXTENDS Placement, ParallelMoves

VARIABLE edge   \* the edge whose copies are made
placingVars == <<starts, allocVars, edge, copyVars>>

EdgeInit == PlacementInit /\ edge = <<>> /\ CopiesInit

-----------------------------------------------------------------------------
Edges == {e \in Labels(fn) \X Labels(fn) : e[2] \in Succs(fn, e[1]) /\ PhiPoints(fn, e[2]) # {}}
\* What the phi node x reads on the way from l: the first operand for it.
OperandFrom(x, l) == x.a[Min({j \in DOMAIN x.t : x.t[j] = l})]
\* A copy for each phi node that has an operand for the way, if that is elsewhere.
MovesOn(e) ==
  LET phi(i) == fn.code[e[2]][i]
  IN [i \in {k \in PhiPoints(fn, e[2]) : /\ \E j \in DOMAIN phi(k).t : phi(k).t[j] = e[1]
                                         /\ Loc(OperandFrom(phi(k), e[1])) # Loc(phi(k).r)} |->
        [from |-> Loc(OperandFrom(phi(i), e[1])), to |-> Loc(phi(i).r)]]
\* The values that are live at the end of the block the way leads from are where
\* they belong.
HeldOn(e) ==
  LET at(l) == {v \in DOMAIN starts : LiveAtEnd(fn, starts, e[1], v) /\ Loc(v) = l}
  IN [l \in {<<"reg", r>> : r \in request.file} \cup {Loc(v) : v \in DOMAIN starts} \cup {Scratch} |->
        IF at(l) = {} THEN 0 ELSE CHOOSE v \in at(l) : TRUE]

Arrive ==
  /\ AllPlaced /\ edge = <<>>
  /\ \E e \in Edges : edge' = e /\ BeginCopies(MovesOn(e), HeldOn(e))
  /\ UNCHANGED placementVars
Copy == EmitCopy /\ UNCHANGED <<placementVars, edge>>
EdgeNext == (PlacementNext /\ UNCHANGED <<edge, copyVars>>) \/ Arrive \/ Copy
EdgeSpec == EdgeInit /\ [][EdgeNext]_<<fn, placingVars>>

-----------------------------------------------------------------------------
\* What the code relies on and nothing sees to: no value has been given r11, and no
\* cycle of copies goes from slot to slot.
ScratchKept == NoSlotCycle(moves) /\ \A v \in DOMAIN starts : Loc(v) # Scratch

\* The copies of an edge are such that they can be made one by one; behind them each
\* phi node has its operand and everything that is live there is still where it
\* belongs.
EdgeKeeps ==
  edge # <<>> /\ left = {} =>
    /\ Apart(moves, before)
    /\ \A v \in DOMAIN starts : edge[2] \in starts[v] => contents[Loc(v)] = v
    /\ \A i \in PhiPoints(fn, edge[2]) : LET x == fn.code[edge[2]][i] IN
         \A j \in DOMAIN x.a : x.t[j] = edge[1] => contents[Loc(x.r)] = x.a[j]
=============================================================================
