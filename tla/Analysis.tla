-------------------------------- MODULE Analysis --------------------------------
(***************************************************************************)
(* The analyses of src/src/optimizer/analysis.py over the IR of one        *)
(* function: dominators, liveness and natural loops.  The live intervals   *)
(* the register allocator works from are in LiveIntervals.                 *)
(***************************************************************************)
EXTENDS Passes, LiveIntervals

Entry(fn) == Head(fn.order)

-----------------------------------------------------------------------------
\* DomTree._compute: the blocks in the order the search leaves them.
RECURSIVE PostOrder(_, _, _), PostOrderOf(_, _, _)
PostOrder(fn, l, seen) ==
  LET below == PostOrderOf(fn, fn.succs[l], [seen |-> seen \cup {l}, out |-> <<>>])
  IN [seen |-> below.seen, out |-> Append(below.out, l)]
PostOrderOf(fn, ls, s) ==
  IF ls = <<>> THEN s
  ELSE IF Head(ls) \in s.seen THEN PostOrderOf(fn, Tail(ls), s)
  ELSE LET r == PostOrder(fn, Head(ls), s.seen)
       IN PostOrderOf(fn, Tail(ls), [seen |-> r.seen, out |-> s.out \o r.out])
Numbers(post) == [l \in {post[i] : i \in DOMAIN post} |-> CHOOSE i \in DOMAIN post : post[i] = l]

\* _intersect: the two walk up, the one with the lower number first.
RECURSIVE Intersect(_, _, _, _)
Intersect(idom, num, a, b) ==
  IF a = b THEN a
  ELSE IF num[a] < num[b]
       THEN IF idom[a] = NoBlock THEN b ELSE Intersect(idom, num, idom[a], b)
       ELSE IF idom[b] = NoBlock THEN a ELSE Intersect(idom, num, a, idom[b])
\* Mutant: only the last predecessor counts.
MeetLast(idom, num, ps) == Last(ps)
RECURSIVE Meet(_, _, _)
Meet(idom, num, ps) ==
  IF Len(ps) = 1 THEN ps[1] ELSE Intersect(idom, num, Meet(idom, num, Front(ps)), Last(ps))
\* One sweep over the blocks ls; idom grows while predecessors become known.
RECURSIVE DomSweep(_, _, _, _), DomRounds(_, _, _, _)
DomSweep(fn, num, idom, ls) ==
  IF ls = <<>> THEN idom
  ELSE LET known == SelectSeq(fn.order, LAMBDA p : p \in DOMAIN idom /\ Head(ls) \in Succs(fn, p))
       IN DomSweep(fn, num, Head(ls) :> Meet(idom, num, known) @@ idom, Tail(ls))
DomRounds(fn, num, idom, ls) ==
  LET next == DomSweep(fn, num, idom, ls)
  IN IF next = idom THEN idom ELSE DomRounds(fn, num, next, ls)
DominatedBy(post, fn) ==
  DomRounds(fn, Numbers(post), Entry(fn) :> NoBlock, Tail(Reverse(post)))
Idom(fn) == DominatedBy(PostOrder(fn, Entry(fn), {}).out, fn)

\* dominates: a is met on the way up from b.
RECURSIVE DominatesIn(_, _, _)
DominatesIn(idom, a, b) == a = b \/ (idom[b] # NoBlock /\ DominatesIn(idom, a, idom[b]))

-----------------------------------------------------------------------------
\* LivenessInfo._compute: rounds until nothing changes.
RECURSIVE LiveRounds(_, _)
LiveRounds(fn, in) ==
  LET next == LiveInOf(fn, in)
  IN IF next = in THEN in ELSE LiveRounds(fn, next)
LiveIn(fn) == LiveRounds(fn, [l \in Labels(fn) |-> {}])

-----------------------------------------------------------------------------
\* LoopInfo._detect: the edges back to a block that dominates where they come
\* from, and for each such block what reaches their tails without it.
BackEdges(fn, idom) ==
  {e \in Labels(fn) \X Labels(fn) : e[2] \in Succs(fn, e[1]) /\ DominatesIn(idom, e[2], e[1])}
RECURSIVE Collect(_, _, _)
Collect(fn, body, todo) ==
  IF todo \subseteq body THEN body
  ELSE Collect(fn, body \cup todo, {p \in Labels(fn) : Succs(fn, p) \cap (todo \ body) # {}})
NaturalLoops(fn, idom) ==
  LET back == BackEdges(fn, idom)
  IN [h \in {e[2] : e \in back} |-> Collect(fn, {h}, {e[1] : e \in {f \in back : f[2] = h}})]

=============================================================================
