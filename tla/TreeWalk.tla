------------------------------- MODULE TreeWalk -------------------------------
(***************************************************************************)
(* The Python VM (src/src/runtime.py): run_scope walks the syntax tree.    *)
(*                                                                         *)
(* An interpreter state s is a record                                      *)
(*   prog     the program, [globals |-> scope, funcs |-> name :> Func]     *)
(*   vars     the dictionary of the function that runs                     *)
(*   globals  _global_vars                                                 *)
(*   locals   _function_locals, the names the function declares            *)
(*   out      what println has written                                     *)
(*   sig      how the last statement ended: "next", or the Python exception*)
(*            that is on its way up, with its level, type or value         *)
(*   fuel     bound on the number of statements                            *)
(***************************************************************************)
EXTENDS FrSyntax, TLC

Next0 == [kind |-> "next", arg |-> 0]
Sig(k, a) == [kind |-> k, arg |-> a]
Goes(s) == s.sig.kind = "next"

\* An unknown name evaluates to itself, a string: true in a condition, and no
\* number of the programs.
Undefined == -99

\* A state and the value an expression has in it.
Val(s, v) == [s |-> s, v |-> v]

\* _lookup_var_cell, and the id case of eval_expr_node.
Lookup(s, x) ==
  IF x \in DOMAIN s.vars THEN s.vars[x]
  ELSE IF x \in DOMAIN s.globals THEN s.globals[x] ELSE Undefined

\* The last lines of _execute_node_var: the cell that takes the value.
Assign(s, x, v) ==
  IF x \notin DOMAIN s.vars /\ x \notin s.locals /\ x \in DOMAIN s.globals
  THEN [s EXCEPT !.globals[x] = v]
  ELSE [s EXCEPT !.vars = x :> v @@ s.vars]

RECURSIVE Eval(_, _), EvalArgs(_, _, _), RunScope(_, _), WhileLoop(_, _),
          ForLoop(_, _, _), EvalTests(_, _, _)

\* run_func: fresh variables that hold the arguments, then the body.  The
\* caller's dictionaries come back when it returns; an exception other than
\* ReturnSignal leaves without putting them back.
Back(s, body) ==
  IF body.sig.kind \in {"next", "return"}
  THEN Val([body EXCEPT !.vars = s.vars, !.locals = s.locals, !.sig = Next0], body.sig.arg)
  ELSE Val(body, Undefined)
RunFunc(s, f, args) ==
  LET func == s.prog.funcs[f]
      vars == [i \in {func.args[k] : k \in DOMAIN func.args} |->
                 args[CHOOSE k \in DOMAIN func.args : func.args[k] = i]]
  IN Back(s, RunScope(func.scope, [s EXCEPT !.vars = vars, !.locals = Declared(func.scope)]))

\* The arguments of a call, from left to right.
EvalArgs(as, vs, s) ==
  IF as = <<>> \/ ~Goes(s) THEN Val(s, vs)
  ELSE LET a == Eval(Head(as), s) IN EvalArgs(Tail(as), Append(vs, a.v), a.s)

\* eval_expr and eval_expr_node.  A boolean operator evaluates two operands,
\* always both of them; zip stops there however many there are.
Eval(e, s) ==
  CASE e.op = "const" -> Val(s, e.value)
    [] e.op = "id" -> Val(s, Lookup(s, e.id))
    [] e.op = "call" ->
         LET as == EvalArgs(e.args, <<>>, s)
         IN IF Goes(as.s) THEN RunFunc(as.s, e.func, as.v) ELSE Val(as.s, Undefined)
    [] e.op = "un" ->
         LET v == Eval(e.operand, s)
         IN IF ~Goes(v.s) THEN v ELSE Val(v.s, Calc1(e.calc, v.v))
    [] e.op \in {"And", "Or"} ->
         LET l == Eval(e.values[1], s)
             r == Eval(e.values[2], l.s)
         IN IF ~Goes(l.s) THEN l ELSE IF ~Goes(r.s) THEN r
            ELSE Val(r.s, IF e.op = "And" THEN Truth(l.v # 0 /\ r.v # 0)
                                          ELSE Truth(l.v # 0 \/ r.v # 0))
    [] e.op = "bin" ->
         LET l == Eval(e.left, s)
             r == Eval(e.right, l.s)
         IN IF ~Goes(l.s) THEN l ELSE IF ~Goes(r.s) THEN r
            ELSE IF Undefined \in {l.v, r.v} THEN Val([r.s EXCEPT !.sig = Sig("crash", 0)], 0)
            ELSE Val(r.s, Calc(e.calc, l.v, r.v))

\* After the body of a loop: whether it goes on, and the state it does so in.
\* A break or continue of level 1 ends here, one of a higher level is raised
\* again with its level less one (_handle_loop_control).
AfterBody(s) ==
  CASE Goes(s) -> [more |-> TRUE, s |-> s]
    [] s.sig.kind \in {"break", "continue"} /\ s.sig.arg <= 1 ->
         [more |-> s.sig.kind = "continue", s |-> [s EXCEPT !.sig = Next0]]
    [] s.sig.kind \in {"break", "continue"} /\ s.sig.arg > 1 ->
         [more |-> FALSE, s |-> [s EXCEPT !.sig.arg = @ - 1]]
    [] OTHER -> [more |-> FALSE, s |-> s]

\* The body, when the bound on iterations allows it.
Iterate(scope, s) ==
  IF s.fuel = 0 THEN [more |-> FALSE, s |-> [s EXCEPT !.sig = Sig("fuel", 0)]]
  ELSE AfterBody(RunScope(scope, [s EXCEPT !.fuel = @ - 1]))

\* _execute_node_while.
WhileLoop(n, s) ==
  LET c == Eval(n.condition, s)
  IN IF ~Goes(c.s) \/ c.v = 0 THEN c.s
     ELSE LET r == Iterate(n.scope, c.s) IN IF r.more THEN WhileLoop(n, r.s) ELSE r.s

\* _execute_node_for and _execute_node_for_in: the range, or the list, was
\* there before the first iteration.
ForLoop(n, items, s) ==
  IF items = <<>> THEN s
  ELSE LET r == Iterate(n.scope, [s EXCEPT !.vars = n.var :> Head(items) @@ s.vars])
       IN IF r.more THEN ForLoop(n, Tail(items), r.s) ELSE r.s

\* range(start, end, step)
PyRange(a, b, d) ==
  LET n == IF d > 0 THEN (b - a + d - 1) \div d ELSE (a - b - d - 1) \div (-d)
  IN [i \in 1 .. (IF n < 0 THEN 0 ELSE n) |-> a + (i - 1) * d]

\* The case of _execute_node_switch whose values hold v, the first one.
CaseOf(n, v) ==
  LET hits == {k \in DOMAIN n.cases : \E i \in DOMAIN n.cases[k].values : n.cases[k].values[i] = v}
  IN IF hits = {} THEN n.default
     ELSE n.cases[CHOOSE k \in hits : \A j \in hits : k <= j].body

\* _execute_node_if: the tests in order, then the scope of the first that holds.
EvalTests(tests, else, s) ==
  IF tests = <<>> THEN RunScope(else, s)
  ELSE LET c == Eval(Head(tests).condition, s)
       IN IF ~Goes(c.s) THEN c.s
          ELSE IF c.v # 0 THEN RunScope(Head(tests).scope, c.s)
          ELSE EvalTests(Tail(tests), else, c.s)

\* Mutant: any exception is the one that is expected.
ExecTryAny(n, s) ==
  LET t == RunScope(n.try_scope, s)
  IN IF t.sig.kind = "raise" THEN RunScope(n.except_scope, [t EXCEPT !.sig = Next0]) ELSE t

\* _execute_node_try: the type has to be the expected one.
ExecTry(n, s) ==
  LET t == RunScope(n.try_scope, s)
  IN IF t.sig = Sig("raise", n.exc_type)
     THEN RunScope(n.except_scope, [t EXCEPT !.sig = Next0]) ELSE t

\* One statement of run_scope.
Exec(n, s) ==
  CASE n.type = "var" ->
         LET v == Eval(n.value, s) IN IF Goes(v.s) THEN Assign(v.s, n.name, v.v) ELSE v.s
    [] n.type = "call" /\ n.name = "println" ->
         LET v == Eval(n.args[1], s)
         IN IF Goes(v.s) THEN [v.s EXCEPT !.out = Append(@, v.v)] ELSE v.s
    [] n.type = "call" /\ n.name # "println" -> Eval(CallE(n.name, n.args), s).s
    [] n.type = "if" ->
         EvalTests(<<[condition |-> n.condition, scope |-> n.scope]>> \o n.elifs, n.else, s)
    [] n.type = "while" -> WhileLoop(n, s)
    [] n.type = "for" ->
         LET a == Eval(n.start, s)
             b == Eval(n.end, a.s)
         IN ForLoop(n, PyRange(a.v, b.v, n.step), b.s)
    [] n.type = "for_in" -> ForLoop(n, n.iterable, s)
    [] n.type = "switch" ->
         LET v == Eval(n.expr, s) IN IF Goes(v.s) THEN RunScope(CaseOf(n, v.v), v.s) ELSE v.s
    [] n.type = "try" -> ExecTry(n, s)
    [] n.type \in {"break", "continue"} -> [s EXCEPT !.sig = Sig(n.type, n.level)]
    [] n.type = "raise" -> [s EXCEPT !.sig = Sig("raise", n.exc_type)]
    [] n.type = "return" ->
         LET v == Eval(n.value, s)
         IN IF Goes(v.s) THEN [v.s EXCEPT !.sig = Sig("return", v.v)] ELSE v.s
    [] n.type = "assert" ->
         LET v == Eval(n.condition, s)
         IN IF Goes(v.s) /\ v.v = 0 THEN [v.s EXCEPT !.sig = Sig("exit", 1)] ELSE v.s

\* run_scope: the statements in order, until one does not end normally.
RunScope(scope, s) ==
  IF scope = <<>> \/ ~Goes(s) THEN s ELSE RunScope(Tail(scope), Exec(Head(scope), s))

\* run: the module's scope fills the globals, then main is called.
Main(module) == RunFunc([module EXCEPT !.globals = module.vars], "main", <<>>)
Run(prog, fuel) ==
  LET none == [x \in {} |-> 0]
  IN Main(RunScope(prog.globals,
            [prog |-> prog, vars |-> none, globals |-> none, locals |-> {},
             out |-> <<>>, sig |-> Next0, fuel |-> fuel]))

\* What is seen from outside: the output, and how the program ended.
Seen(r) == [out |-> r.s.out, end |-> IF Goes(r.s) THEN Sig("return", r.v) ELSE r.s.sig]
Observed(prog, fuel) == Seen(Run(prog, fuel))
=============================================================================
