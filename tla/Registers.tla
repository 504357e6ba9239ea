-------------------------------- MODULE Registers --------------------------------
(***************************************************************************)
(* From the IR of a function to where its values are: the intervals of     *)
(* analysis.py, the allocation of regalloc.py, the registers codegen.py    *)
(* saves around a call, and the copies it emits on an edge to phi nodes.   *)
(***************************************************************************)
EXTENDS Native, Analysis, EdgeCopies

CONSTANT MAX_SLOTS  \* slots a frame has at most

Slots == {<<"slot", n>> : n \in 0 .. MAX_SLOTS}
ASSUME RegistersAssumption ==
  MAX_SLOTS \in Nat /\ Memory = Slots /\ Scratch = <<"reg", "r11">>

AllocationInit == Init /\ EdgeInit

-----------------------------------------------------------------------------
\* Compile, then build the IR and go over it ...
Prepare ==
  /\ Compile \/ Build \/ InsertPhis \/ Finish \/ Pass \/ Round
  /\ UNCHANGED <<fn, placingVars>>
\* ... and take one function of what is left, by itself.
Isolate ==
  /\ Finished
  /\ LET last == Final IN \E f \in DOMAIN last : fn' = last[f]
  /\ module' = <<>> /\ passes' = <<>> /\ promise' = <<>> /\ m' = [status |-> "allocating"]
  /\ UNCHANGED <<input, bytecode, placingVars>>
Locate == (Analyse \/ Allocate) /\ UNCHANGED <<vars, edge, copyVars>>
\* The values have their places, then those that phi nodes read cross an edge.
Cross == (Arrive \/ Copy) /\ UNCHANGED vars

AllocationNext == Prepare \/ Isolate \/ Locate \/ Cross
AllocationSpec ==
  /\ AllocationInit /\ [][AllocationNext]_<<vars, fn, placingVars>>
  /\ WF_copyVars(Copy)

-----------------------------------------------------------------------------
\* The analyses say what the graph does: a dominates b if b cannot be reached
\* around a; a loop is what reaches one of its tails around its head; what is read
\* before it is computed is live, if no phi node reads it (one that reads another
\* of its block on the way back to it is not seen).  What the passes leave is what
\* compute_live_intervals relies on, and its intervals what allocate does.
RECURSIVE ReachedPast(_, _)
ReachedPast(l, ls) ==
  LET more == UNION {Succs(fn, k) : k \in ls \ {l}}
  IN IF more \subseteq ls THEN ls ELSE ReachedPast(l, ls \cup more)
AnalysesSound ==
  starts # <<>> /\ todo = request.intervals =>
    LET idom == Idom(fn)
        loops == NaturalLoops(fn, idom)
        live == LiveIn(fn)
        past == [a \in Labels(fn) |-> ReachedPast(a, {Entry(fn)})]
    IN /\ \A a, b \in Labels(fn) : DominatesIn(idom, a, b) <=> (a = b \/ b \notin past[a])
       /\ \A h \in DOMAIN loops : \A b \in Labels(fn) \ {h} :
            b \in loops[h] <=> \E p \in ReachedPast(h, {b}) \ past[h] : h \in Succs(fn, p)
       /\ \A v \in DOMAIN starts : \A l \in starts[v] :
            (\A p \in Labels(fn) : ~PhiReads(fn, p, v)) => v \in live[l]
       /\ Ready(fn) /\ Sound(request)

\* The copies come to an end.
CopiesEnd == edge # <<>> ~> left = {}
=============================================================================
