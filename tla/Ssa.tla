---------------------------------- MODULE Ssa ----------------------------------
(***************************************************************************)
(* The edges and the phi nodes of the IR builder                           *)
(* (src/src/optimizer/ir_builder.py), on the builder states of IrBuilder.  *)
(*                                                                         *)
(* A phi has the variable it stands for as its number and, as its targets, *)
(* the blocks its operands come from.                                      *)
(***************************************************************************)
EXTENDS IrBuilder

At(s, x) == CHOOSE i \in DOMAIN s : s[i] = x
\* The block behind l in the function, where a branch that is not taken goes on.
NoBlock == -2
Behind(order, l) == IF At(order, l) = Len(order) THEN NoBlock ELSE order[At(order, l) + 1]

Terminator(is) == IF is # <<>> /\ Last(is).op \in Terminators THEN Last(is)
                  ELSE Inst("none", 0, <<>>, 0, "", <<>>)
Phis(is) == SelectSeq(is, LAMBDA i : i.op = "PHI")

\* _emit_phi_copies: what is copied on the way from a block to another, for each
\* phi node ps of that one which has an operand for the way.
MovesFrom(ps, from) ==
  FlattenSeq([i \in DOMAIN ps |->
    LET js == {j \in DOMAIN ps[i].t : ps[i].t[j] = from}
    IN IF js = {} THEN <<>> ELSE <<[to |-> ps[i].r, from |-> ps[i].a[Min(js)]]>>])

-----------------------------------------------------------------------------
\* _build_cfg_edges.  A label that is no block leaves no edge and the branch
\* without its targets; the jump keeps the name and is lost at link time.
NoTwice(s) == IF Len(s) = 2 /\ s[1] = s[2] THEN <<s[1]>> ELSE s
\* Mutant: the target of the branch comes first.
TargetFirst(next, target) == target \o IF next = <<>> THEN target ELSE next
\* Where a branch may go: first where it falls through to.
FallFirst(next, target) == (IF next = <<>> THEN target ELSE next) \o target

Edges1(b, l) ==
  LET term == Terminator(b.code[l])
      n == Behind(b.order, l)
      known == term.t # <<>> /\ term.t[1] \in DOMAIN b.code
      next == IF n = NoBlock THEN <<>> ELSE <<n>>
      target == IF known THEN <<term.t[1]>> ELSE <<>>
      resolved(ts) == [b EXCEPT !.code[l][Len(b.code[l])].t = ts, !.succs[l] = NoTwice(ts)]
  IN CASE Len(term.t) = 2 -> b
       [] term.op = "JUMP" -> [b EXCEPT !.succs[l] = target]
       [] Len(term.t) = 1 /\ term.op \in {"BRANCH", "TRY_BEGIN"} ->
            IF known THEN resolved(FallFirst(next, target))
            ELSE [b EXCEPT !.succs[l] = next]
       [] term.op = "none" /\ n # NoBlock ->
            [b EXCEPT !.succs[l] = next,
                      !.code[l] = Append(@, Inst("JUMP", 0, <<>>, 0, "", next))]
       [] OTHER -> b
RECURSIVE EdgesFrom(_, _)
EdgesFrom(b, ls) == IF ls = <<>> THEN b ELSE EdgesFrom(Edges1(b, Head(ls)), Tail(ls))
BuildEdges(b) == EdgesFrom(b, b.order)

Preds(b, l) == SelectSeq(b.order, LAMBDA p : \E i \in DOMAIN b.succs[p] : b.succs[p][i] = l)

-----------------------------------------------------------------------------
\* _replace_val_in_block_and_succs: the blocks reached from l without going
\* through one that computes the old value.
Computes(is, v) == \E i \in DOMAIN is : is[i].r = v
RECURSIVE Inherits(_, _, _)
Inherits(b, old, ls) ==
  LET more == UNION {{b.succs[l][i] : i \in DOMAIN b.succs[l]} :
                       l \in {k \in ls : ~Computes(b.code[k], old)}}
  IN IF more \subseteq ls THEN ls ELSE Inherits(b, old, ls \cup more)

Swap(as, old, new) == [i \in DOMAIN as |-> IF as[i] = old THEN new ELSE as[i]]
Replace(b, l, old, new) ==
  LET region == Inherits(b, old, {l})
      keep(k) == k \notin region \/ Computes(b.code[k], old)
      inst(i) == IF i.r = new THEN i ELSE [i EXCEPT !.a = Swap(@, old, new)]
  IN [b EXCEPT
        !.code = [k \in DOMAIN @ |->
                    IF k \in region THEN [i \in DOMAIN @[k] |-> inst(@[k][i])] ELSE @[k]],
        !.entry = [k \in DOMAIN @ |-> IF keep(k) THEN @[k] ELSE Swap(@[k], old, new)],
        !.exit = [k \in DOMAIN @ |-> IF keep(k) THEN @[k] ELSE Swap(@[k], old, new)]]

-----------------------------------------------------------------------------
\* One variable x of block l, whose predecessors ps have it: a phi that is there
\* gets the operands of this round, else a new one comes first in the block.
\* Either takes the place of the value the simulation used.
PhiFor(b, l, x, ps) ==
  LET vals == [i \in DOMAIN ps |-> b.exit[ps[i]][x]]
      old == {i \in DOMAIN b.code[l] : b.code[l][i].op = "PHI" /\ b.code[l][i].n = x}
      at == CHOOSE i \in old : TRUE
      phi == Inst("PHI", IF old = {} THEN b.val ELSE b.code[l][at].r, vals, x, "", ps)
      b1 == IF old = {} THEN [b EXCEPT !.code[l] = <<phi>> \o @, !.val = @ + 1]
            ELSE [b EXCEPT !.code[l][at] = phi]
  IN IF old # {} /\ b.code[l][at] = phi THEN [b |-> b, changed |-> FALSE]
     ELSE IF x \notin DOMAIN b.entry[l] \/ b.entry[l][x] = phi.r
     THEN [b |-> [b1 EXCEPT !.exit[l] = @ @@ x :> phi.r], changed |-> old = {}]
     ELSE [b |-> Replace(b1, l, b.entry[l][x], phi.r), changed |-> TRUE]

\* _construct_ssa: the variables of a block with several predecessors, least
\* first, the blocks in order, until nothing changes, ten times at most.
RECURSIVE PhisOfBlock(_, _, _, _), PhisOfBlocks(_, _, _), Rounds(_, _), Repoint(_, _)
PhisOfBlock(b, l, xs, changed) ==
  IF xs = {} THEN [b |-> b, changed |-> changed]
  ELSE LET x == CHOOSE y \in xs : \A z \in xs : y <= z
           ps == SelectSeq(Preds(b, l), LAMBDA p : x \in DOMAIN b.exit[p])
           same == \A i \in DOMAIN ps : b.exit[ps[i]][x] = b.exit[ps[1]][x]
           r == PhiFor(b, l, x, ps)
       IN IF same THEN PhisOfBlock(b, l, xs \ {x}, changed)
          ELSE PhisOfBlock(r.b, l, xs \ {x}, changed \/ r.changed)
PhisOfBlocks(b, ls, changed) ==
  IF ls = <<>> THEN [b |-> b, changed |-> changed]
  ELSE LET ps == Preds(b, Head(ls))
           xs == UNION {DOMAIN b.exit[ps[i]] : i \in DOMAIN ps}
           r == PhisOfBlock(b, Head(ls), xs, changed)
       IN IF Len(ps) < 2 THEN PhisOfBlocks(b, Tail(ls), changed)
          ELSE PhisOfBlocks(r.b, Tail(ls), r.changed)
Rounds(b, n) ==
  LET r == PhisOfBlocks(b, b.order, FALSE)
  IN IF r.changed /\ n > 1 THEN Rounds(r.b, n - 1) ELSE r.b

\* The last loop: a successor of a block with a phi that came in with another
\* value of the variable, not its own, gets the phi.
Successors(b) ==
  LET one(l) == LET ps == Phis(b.code[l])
                IN FlattenSeq([i \in DOMAIN ps |->
                     [j \in DOMAIN b.succs[l] |-> [phi |-> ps[i], to |-> b.succs[l][j]]]])
  IN FlattenSeq([i \in DOMAIN b.order |-> one(b.order[i])])
Repoint(b, todo) ==
  IF todo = <<>> THEN b
  ELSE LET p == Head(todo).phi
           l == Head(todo).to
           in == IF p.n \in DOMAIN b.entry[l] THEN b.entry[l][p.n] ELSE p.r
           stale == in # p.r /\ ~Computes(b.code[l], in)
       IN Repoint(IF stale THEN Replace(b, l, in, p.r) ELSE b, Tail(todo))

\* _construct_ssa behind the phi nodes, and the IR of the function.
Settle(b) == Repoint(b, Successors(b))
IrOf(b, arity) ==
  [code |-> b.code, order |-> b.order, succs |-> b.succs, arity |-> arity, val |-> b.val]
=============================================================================
