--------------------------------- MODULE Passes ---------------------------------
(***************************************************************************)
(* The passes of src/src/optimizer/passes.py over one function of the IR,  *)
(* those that run at every optimization level.  A pass that finds nothing  *)
(* to do returns the function it was given.                                *)
(***************************************************************************)
EXTENDS Ssa

ConstOps == {"CONST_INT", "CONST_BOOL"}
Compares == {"LT", "GT", "LE", "GE", "EQ", "NE"}
\* The operator of Calc an operation of the IR stands for.
CalcOf == [ADD |-> "Add", SUB |-> "Sub", MUL |-> "Mult", MOD |-> "Mod", LT |-> "Lt",
           GT |-> "Gt", LE |-> "LtE", GE |-> "GtE", EQ |-> "Eq", NE |-> "NotEq"]

\* What cannot be dropped although nobody uses it; a call only if it is not pure.
SideEffects == {"CALL", "BRANCH", "JUMP", "RETURN", "RETURN_VOID", "STORE_GLOBAL", "LOAD_GLOBAL",
                "PRINTLN", "ASSERT", "TRY_BEGIN", "TRY_END", "RAISE", "MOD", "LIST_GET"}

AllInsts(fn) == FlattenSeq([i \in DOMAIN fn.order |-> fn.code[fn.order[i]]])
InstSet(fn) == UNION {{fn.code[l][i] : i \in DOMAIN fn.code[l]} : l \in DOMAIN fn.code}
\* The instruction that computes each value.
Definitions(fn) ==
  LET is == {x \in InstSet(fn) : x.r # 0}
  IN [v \in {x.r : x \in is} |-> CHOOSE x \in is : x.r = v]
\* _get_const_value: the constants among the values.
Constants(fn) ==
  LET is == {x \in InstSet(fn) : x.op \in ConstOps}
  IN [v \in {x.r : x \in is} |-> CHOOSE x \in is : x.r = v]
MakeInto(x, op, n) == Inst(op, x.r, <<>>, n, "", <<>>)

-----------------------------------------------------------------------------
\* _try_fold: k has the constants known so far.
Fold(x, k) ==
  LET c(i) == k[x.a[i]].n
      all == x.a # <<>> /\ \A i \in DOMAIN x.a : x.a[i] \in DOMAIN k
  IN CASE ~all -> x
       [] all /\ x.op \in {"ADD", "SUB", "MUL"} -> MakeInto(x, "CONST_INT", Calc(CalcOf[x.op], c(1), c(2)))
       [] all /\ x.op = "MOD" /\ c(2) # 0 -> MakeInto(x, "CONST_INT", Calc("Mod", c(1), c(2)))
       [] all /\ x.op = "NEG" -> MakeInto(x, "CONST_INT", -c(1))
       [] all /\ x.op \in Compares -> MakeInto(x, "CONST_BOOL", Calc(CalcOf[x.op], c(1), c(2)))
       [] all /\ x.op = "AND" -> MakeInto(x, "CONST_BOOL", Truth(c(1) # 0 /\ c(2) # 0))
       [] all /\ x.op = "OR" -> MakeInto(x, "CONST_BOOL", Truth(c(1) # 0 \/ c(2) # 0))
       [] all /\ x.op = "NOT" -> MakeInto(x, "CONST_BOOL", Truth(c(1) = 0))
       [] OTHER -> x

\* sccp: one after the other, what is folded is known to those behind it.
RECURSIVE FoldAll(_, _), FoldBlocks(_, _, _)
FoldAll(is, k) ==
  IF is = <<>> THEN [is |-> <<>>, k |-> k]
  ELSE LET x == Fold(Head(is), k)
           rest == FoldAll(Tail(is), IF x.op \in ConstOps THEN x.r :> x @@ k ELSE k)
       IN [is |-> <<x>> \o rest.is, k |-> rest.k]
FoldBlocks(fn, ls, k) ==
  IF ls = <<>> THEN fn
  ELSE LET r == FoldAll(fn.code[Head(ls)], k)
       IN FoldBlocks([fn EXCEPT !.code[Head(ls)] = r.is], Tail(ls), r.k)
Sccp(fn) == FoldBlocks(fn, fn.order, Constants(fn))

-----------------------------------------------------------------------------
\* algebraic_simplify goes with a state: k, the constants; nots, the operand of
\* each NOT; same, the values whose users got another one; val, the next value.
RECURSIVE Now(_, _)
Now(same, v) == IF v \in DOMAIN same THEN Now(same, same[v]) ELSE v

\* _try_simplify: the value x is equal to, or 0.  A Boolean constant counts only
\* for AND, OR and SELECT if it came from a fold.
EqualTo(x, s) ==
  LET is(i, n) == x.a[i] \in DOMAIN s.k /\ s.k[x.a[i]].n = n
      known(i, n) == is(i, n) /\ s.k[x.a[i]].op = "CONST_BOOL"
  IN CASE x.op \in {"ADD", "SUB"} /\ is(2, 0) -> x.a[1]
       [] x.op = "ADD" /\ ~is(2, 0) /\ is(1, 0) -> x.a[2]
       [] x.op = "MUL" /\ is(2, 1) /\ ~is(1, 0) -> x.a[1]
       [] x.op = "MUL" /\ ~is(2, 1) /\ is(1, 1) /\ ~is(2, 0) -> x.a[2]
       [] x.op = "AND" /\ known(2, 1) -> x.a[1]
       [] x.op = "OR" /\ known(2, 0) -> x.a[1]
       [] x.op = "NOT" /\ x.a[1] \in DOMAIN s.nots -> s.nots[x.a[1]]
       [] x.op = "SELECT" /\ known(1, 1) -> x.a[2]
       [] x.op = "SELECT" /\ known(1, 0) -> x.a[3]
       [] OTHER -> 0

\* The instructions in the place of x, which is equal to nothing there is.
Powers == [n \in {2 ^ i : i \in 2 .. 16} |-> CHOOSE i \in 2 .. 16 : 2 ^ i = n]
\* Mutant: the multiplication stays what it was.
ShiftedToo(x, count) == <<count, x>>
Shifted(x, count) == <<count, [x EXCEPT !.op = "SHL", !.a[2] = count.r]>>
Instead(x, s) ==
  LET is(i, n) == x.a[i] \in DOMAIN s.k /\ s.k[x.a[i]].n = n
      known(i, n) == is(i, n) /\ s.k[x.a[i]].op = "CONST_BOOL"
  IN CASE x.op = "SUB" /\ x.a[1] = x.a[2] -> <<MakeInto(x, "CONST_INT", 0)>>
       [] x.op = "MUL" /\ (is(1, 0) \/ is(2, 0)) -> <<MakeInto(x, "CONST_INT", 0)>>
       [] x.op = "MUL" /\ is(2, 2) /\ ~is(1, 0) -> <<[x EXCEPT !.op = "ADD", !.a[2] = x.a[1]]>>
       [] x.op = "MUL" /\ ~is(1, 0) /\ \E n \in DOMAIN Powers : is(2, n) ->
            Shifted(x, Inst("CONST_INT", s.val, <<>>, Powers[s.k[x.a[2]].n], "", <<>>))
       [] x.op = "AND" /\ known(2, 0) -> <<MakeInto(x, "CONST_BOOL", 0)>>
       [] x.op = "OR" /\ known(2, 1) -> <<MakeInto(x, "CONST_BOOL", 1)>>
       [] OTHER -> <<x>>

RECURSIVE Simplify(_, _), SimplifyBlocks(_, _, _)
Simplify(is, s) ==
  IF is = <<>> THEN [is |-> <<>>, s |-> s]
  ELSE LET x == [Head(is) EXCEPT !.a = [i \in DOMAIN @ |-> Now(s.same, @[i])]]
           v == EqualTo(x, s)
           out == IF v = 0 THEN Instead(x, s) ELSE <<Inst("NOP", 0, <<>>, 0, "", <<>>)>>
           y == Last(out)
           rest == Simplify(Tail(is),
             [s EXCEPT !.same = IF v = 0 THEN @ ELSE x.r :> v @@ @,
                       !.k = IF y.op \in ConstOps THEN y.r :> y @@ @ ELSE @,
                       !.val = @ + Len(out) - 1])
       IN [is |-> out \o rest.is, s |-> rest.s]
SimplifyBlocks(fn, ls, s) ==
  IF ls = <<>>
  THEN [fn EXCEPT !.val = s.val,
          !.code = [l \in DOMAIN @ |-> [i \in DOMAIN @[l] |->
            [@[l][i] EXCEPT !.a = [j \in DOMAIN @ |-> Now(s.same, @[j])]]]]]
  ELSE LET r == Simplify(fn.code[Head(ls)], s)
       IN SimplifyBlocks([fn EXCEPT !.code[Head(ls)] = r.is], Tail(ls), r.s)
AlgebraicSimplify(fn) ==
  LET nots == {x \in InstSet(fn) : x.op = "NOT"}
  IN SimplifyBlocks(fn, fn.order,
       [k |-> Constants(fn), same |-> <<>>, val |-> fn.val,
        nots |-> [v \in {x.r : x \in nots} |-> (CHOOSE x \in nots : x.r = v).a[1]]])

-----------------------------------------------------------------------------
\* simplify_branches: a branch on a constant goes one way.
SimplifyBranches(fn) ==
  LET k == Constants(fn)
      term(l) == Terminator(fn.code[l])
      fixed == {l \in DOMAIN fn.code :
                  term(l).op = "BRANCH" /\ Len(term(l).t) = 2 /\ term(l).a[1] \in DOMAIN k}
      target(l) == term(l).t[IF k[term(l).a[1]].n # 0 THEN 1 ELSE 2]
      jump(l) == Inst("JUMP", 0, <<>>, 0, "", <<target(l)>>)
  IN [fn EXCEPT
        !.code = [l \in DOMAIN @ |-> IF l \in fixed THEN Append(Front(@[l]), jump(l)) ELSE @[l]],
        !.succs = [l \in DOMAIN @ |-> IF l \in fixed THEN <<target(l)>> ELSE @[l]]]

\* remove_unreachable_blocks; what phi nodes have for a block that is gone stays.
RECURSIVE Reachable(_, _)
Reachable(fn, ls) ==
  LET more == UNION {{fn.succs[l][i] : i \in DOMAIN fn.succs[l]} : l \in ls}
  IN IF more \subseteq ls THEN ls ELSE Reachable(fn, ls \cup more)
Retain(fn, ls) ==
  [fn EXCEPT !.order = SelectSeq(@, LAMBDA l : l \in ls),
             !.code = [l \in ls |-> @[l]], !.succs = [l \in ls |-> @[l]]]
RemoveUnreachable(fn) == Retain(fn, Reachable(fn, {Head(fn.order)}))

\* merge_linear_blocks: the first block that jumps to one nobody else goes to
\* takes it in, again and again.
Mergeable(fn, a) ==
  LET term == Terminator(fn.code[a])
      b == term.t[1]
  IN /\ term.op = "JUMP" /\ term.t[1] \in DOMAIN fn.code
     /\ b \notin {a, Head(fn.order)}
     /\ Preds(fn, b) = <<a>> /\ Phis(fn.code[b]) = <<>>
     /\ ~\E i \in DOMAIN fn.succs[b] : fn.succs[b][i] = b
MergeInto(fn, a) ==
  LET b == Last(fn.code[a]).t[1]
      jump == IF Terminator(fn.code[b]).op = "none" /\ Len(fn.succs[b]) = 1
              THEN <<Inst("JUMP", 0, <<>>, 0, "", fn.succs[b])>> ELSE <<>>
      moved(x) == IF x.op = "PHI" THEN [x EXCEPT !.t = Swap(@, b, a)] ELSE x
      merged == [fn EXCEPT !.code[a] = Front(@) \o fn.code[b] \o jump, !.succs[a] = fn.succs[b]]
      into == {fn.succs[b][i] : i \in DOMAIN fn.succs[b]}
  IN Retain([merged EXCEPT !.code = [l \in DOMAIN @ |->
             IF l \in into THEN [i \in DOMAIN @[l] |-> moved(@[l][i])] ELSE @[l]]],
          DOMAIN fn.code \ {b})
RECURSIVE MergeLinear(_)
MergeLinear(fn) ==
  LET as == SelectSeq(fn.order, LAMBDA a : Mergeable(fn, a))
  IN IF as = <<>> THEN fn ELSE MergeLinear(MergeInto(fn, Head(as)))

-----------------------------------------------------------------------------
\* dce: once through the function; what goes no longer uses its operands.
UseCounts(fn) ==
  LET as == FlattenSeq([i \in DOMAIN AllInsts(fn) |-> AllInsts(fn)[i].a])
  IN [v \in {as[i] : i \in DOMAIN as} |-> Cardinality({i \in DOMAIN as : as[i] = v})]
\* Mutant: one use is as good as none.
IsDeadEarly(x, uses, pure) ==
  /\ x.r # 0 /\ (x.r \notin DOMAIN uses \/ uses[x.r] <= 1)
  /\ x.op \notin SideEffects \/ (x.op = "CALL" /\ x.s \in pure)

IsDead(x, uses, pure) ==
  /\ x.r # 0 /\ (x.r \notin DOMAIN uses \/ uses[x.r] = 0)
  /\ x.op \notin SideEffects \/ (x.op = "CALL" /\ x.s \in pure)
RECURSIVE Sweep(_, _, _), SweepBlocks(_, _, _, _), Unused(_, _)
Unused(uses, as) ==
  IF as = <<>> THEN uses ELSE Unused([uses EXCEPT ![Head(as)] = @ - 1], Tail(as))
Sweep(is, uses, pure) ==
  IF is = <<>> THEN [is |-> <<>>, uses |-> uses]
  ELSE LET x == Head(is)
           dead == IsDead(x, uses, pure)
           rest == Sweep(Tail(is), IF dead THEN Unused(uses, x.a) ELSE uses, pure)
       IN [is |-> IF dead \/ x.op = "NOP" THEN rest.is ELSE <<x>> \o rest.is, uses |-> rest.uses]
SweepBlocks(fn, ls, uses, pure) ==
  IF ls = <<>>
  THEN Retain(fn, {l \in DOMAIN fn.code :
                   l = Head(fn.order) \/ fn.code[l] # <<>> \/ Preds(fn, l) # <<>>})
  ELSE LET r == Sweep(fn.code[Head(ls)], uses, pure)
       IN SweepBlocks([fn EXCEPT !.code[Head(ls)] = r.is], Tail(ls), r.uses, pure)
Dce(fn, pure) == SweepBlocks(fn, fn.order, UseCounts(fn), pure)

\* mark_purity: the largest set of functions that do nothing but compute and call
\* one another.
Impure == {"PRINTLN", "STORE_GLOBAL", "LIST_GET", "LOAD_GLOBAL", "MOD", "RAISE", "TRY_BEGIN",
           "TRY_END", "ASSERT"}
MarkPurity(module) ==
  LET closed(fs) == \A f \in fs : \A x \in InstSet(module[f]) :
                      x.op \notin Impure /\ (x.op = "CALL" => x.s \in fs)
  IN UNION {fs \in SUBSET DOMAIN module : closed(fs)}

\* remove_unused_functions.
RECURSIVE Called(_, _)
Called(module, fs) ==
  LET more == UNION {{x.s : x \in {y \in InstSet(module[f]) : y.op = "CALL"}} : f \in fs} \cap DOMAIN module
  IN IF more \subseteq fs THEN fs ELSE Called(module, fs \cup more)
RemoveUnused(module) == [f \in Called(module, {"main"}) |-> module[f]]

\* The passes of run_passes over a function, in their order.
Basic == <<"sccp", "algebraic_simplify", "simplify_branches", "remove_unreachable_blocks",
           "merge_linear_blocks", "dce">>

\* A pass over one function.
Applied(pass, fn, pure) ==
  CASE pass = "sccp" -> Sccp(fn)
    [] pass = "algebraic_simplify" -> AlgebraicSimplify(fn)
    [] pass = "simplify_branches" -> SimplifyBranches(fn)
    [] pass = "remove_unreachable_blocks" -> RemoveUnreachable(fn)
    [] pass = "merge_linear_blocks" -> MergeLinear(fn)
    [] pass = "dce" -> Dce(fn, pure)
=============================================================================
