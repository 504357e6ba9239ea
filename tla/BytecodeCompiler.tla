--------------------------- MODULE BytecodeCompiler ---------------------------
(***************************************************************************)
(* The bytecode compiler (src/src/compiler.py): compile_expr and           *)
(* compile_statement translate the tree of FrSyntax to the code of a stack *)
(* machine, a sequence of instructions and labels per function.            *)
(*                                                                         *)
(* A compiler state k is a record: out, what emit has written; label, the  *)
(* label counter; ids, var_mapping; globals, the names of global_vars;     *)
(* loops, loop_stack, each with its label for continue and for break;      *)
(* error, whether a CompilerError was raised; spread, the layout of the    *)
(* source: every statement is on a line of its own, or it only is after a  *)
(* statement that does not end with a brace, where the parser asks for     *)
(* one; line, whether current_line differs from last_emitted_line.         *)
(***************************************************************************)
EXTENDS FrSyntax, TLC

\* An instruction: a holds its numbers (values, slots, labels, a count), s its name.
IA(op, args) == [op |-> op, a |-> args, s |-> ""]
I(op, n) == IA(op, <<n>>)
IS(op, n, s) == [op |-> op, a |-> <<n>>, s |-> s]
\* A label, with the prefix get_label was given.
Label(prefix, l) == IS("LABEL", l, prefix)
Line == IA("LINE", <<>>)

\* emit: the .line directive comes before the first instruction of a line.
Emit(k, ins) ==
  IF ins = <<>> THEN k
  ELSE [k EXCEPT !.out = @ \o (IF k.line THEN <<Line>> ELSE <<>>) \o ins, !.line = FALSE]

\* get_label, called c times in a row: the labels are k.label .. k.label + c - 1.
GetLabels(k, c) == [k EXCEPT !.label = @ + c]

\* get_var_id: slots are given out in the order of first use.
GetVarId(k, x) ==
  IF x \in DOMAIN k.ids THEN k
  ELSE [k EXCEPT !.ids = x :> Cardinality(DOMAIN k.ids) @@ k.ids]

EmitLoad(k, x) ==
  LET g == GetVarId(k, x)
  IN Emit(g, IF x \in k.globals THEN <<IS("LOAD_GLOBAL", 0, x)>> ELSE <<I("LOAD", g.ids[x])>>)
EmitStore(k, x) ==
  LET g == GetVarId(k, x)
  IN Emit(g, IF x \in k.globals THEN <<IS("STORE_GLOBAL", 0, x)>> ELSE <<I("STORE", g.ids[x])>>)

\* op_map of compile_expr.
OpMap == [Add |-> "ADD_I64", Sub |-> "SUB_I64", Mult |-> "MUL_I64", Mod |-> "MOD_I64",
          Lt |-> "CMP_LT", Gt |-> "CMP_GT", LtE |-> "CMP_LE", GtE |-> "CMP_GE",
          Eq |-> "CMP_EQ", NotEq |-> "CMP_NE"]

RECURSIVE CompileExpr(_, _), CompileAll(_, _), CompileScope(_, _), CompileElifs(_, _, _, _),
          CompileTests(_, _, _, _), CompileCases(_, _, _, _)

\* The operands from left to right, then the operation.  A boolean operator takes
\* any number of them; nothing is skipped when the first decides.
CompileBin(k, e) ==
  Emit(CompileExpr(CompileExpr(k, e.left), e.right), <<I(OpMap[e.calc], 0)>>)
CompileUn(k, e) ==
  Emit(CompileExpr(k, e.operand), <<I(IF e.calc = "Not" THEN "NOT" ELSE "NEG", 0)>>)
RECURSIVE CompileBool(_, _, _)
CompileBool(k, e, i) ==
  IF i > Len(e.values) THEN k
  ELSE CompileBool(Emit(CompileExpr(k, e.values[i]),
                        IF i = 1 THEN <<>> ELSE <<I(IF e.op = "And" THEN "AND" ELSE "OR", 0)>>),
                   e, i + 1)
CompileCall(k, e) ==
  Emit(CompileAll(k, e.args),
       IF e.func = "println" THEN <<I("BUILTIN_PRINTLN", 0)>>
       ELSE <<IS("CALL", Len(e.args), e.func)>>)

\* compile_expr.
CompileExpr(k, e) ==
  CASE e.op = "const" -> Emit(k, <<I("CONST_I64", e.value)>>)
    [] e.op = "id" -> EmitLoad(k, e.id)
    [] e.op = "bin" -> CompileBin(k, e)
    [] e.op = "un" -> CompileUn(k, e)
    [] e.op \in {"And", "Or"} -> CompileBool(k, e, 1)
    [] e.op = "call" -> CompileCall(k, e)

CompileAll(k, es) == IF es = <<>> THEN k ELSE CompileAll(CompileExpr(k, Head(es)), Tail(es))

\* if: l is the label of the end, l + 1 the first else label; each elif takes a
\* new one.  What follows the last elif is the else scope, if there is one:
\* otherwise nothing defines the label the last test jumps to.
CompileElifs(k, elifs, end, else) ==
  IF elifs = <<>> THEN [k |-> k, else |-> else]
  ELSE LET fresh == k.label
           test == CompileExpr(GetLabels(Emit(k, <<Label("else", else)>>), 1), Head(elifs).condition)
           body == CompileScope(Emit(test, <<I("JUMP_IF_FALSE", fresh)>>), Head(elifs).scope)
       IN CompileElifs(Emit(body, <<I("JUMP", end)>>), Tail(elifs), end, fresh)

CompileIf(k, n) ==
  LET end == k.label
      chain == n.else # <<>> \/ n.elifs # <<>>
      test == Emit(CompileExpr(GetLabels(k, 2), n.condition),
                   <<I("JUMP_IF_FALSE", IF chain THEN end + 1 ELSE end)>>)
      body == CompileScope(test, n.scope)
      elifs == CompileElifs(IF chain THEN Emit(body, <<I("JUMP", end)>>) ELSE body,
                            n.elifs, end, end + 1)
      rest == IF n.else = <<>> THEN elifs.k
              ELSE CompileScope(Emit(elifs.k, <<Label("else", elifs.else)>>), n.else)
  IN Emit(rest, <<Label("if_end", end)>>)

\* switch: the tests of all cases, then the bodies.  l is the end, l + i the
\* label of case i, which is named after i - 1 too.
CaseLabel(l, i) == [op |-> "LABEL", a |-> <<l + i, i - 1>>, s |-> "case"]
CompileTests(k, n, slot, l) ==
  LET values == [i \in DOMAIN n.cases |->
                   [j \in DOMAIN n.cases[i].values |->
                      <<I("LOAD", slot), I("CONST_I64", n.cases[i].values[j]),
                        I("CMP_EQ", 0), I("JUMP_IF_TRUE", l + i)>>]]
      RECURSIVE Cat(_, _)
      Cat(ss, i) == IF i > Len(ss) THEN <<>> ELSE ss[i] \o Cat(ss, i + 1)
  IN Emit(k, Cat([i \in DOMAIN values |-> Cat(values[i], 1)], 1))

CompileCases(k, n, l, i) ==
  IF i > Len(n.cases) THEN k
  ELSE CompileCases(Emit(CompileScope([Emit(k, <<CaseLabel(l, i)>>) EXCEPT !.line = TRUE],
                                      n.cases[i].body),
                         <<I("JUMP", l)>>), n, l, i + 1)

CompileSwitch(k, n) ==
  LET l == k.label
      default == IF n.default = <<>> THEN l ELSE l + Len(n.cases) + 1
      value == CompileExpr(GetVarId(GetLabels(k, 1), "__switch_temp"), n.expr)
      slot == value.ids["__switch_temp"]
      tests == CompileTests(GetLabels(Emit(value, <<I("STORE", slot)>>),
                                      Len(n.cases) + IF n.default = <<>> THEN 0 ELSE 1), n, slot, l)
      cases == CompileCases(Emit(tests, <<I("JUMP", default)>>), n, l, 1)
      rest == IF n.default = <<>> THEN cases
              ELSE CompileScope(Emit(cases, <<Label("default", default)>>), n.default)
  IN Emit(rest, <<Label("switch_end", l)>>)

\* loop_stack: pushed before the condition, popped after the end label.
PushLoop(k, cont, end) == [k EXCEPT !.loops = Append(@, [continue |-> cont, break |-> end])]
PopLoop(k) == [k EXCEPT !.loops = SubSeq(@, 1, Len(@) - 1)]

CompileWhile(k, n) ==
  LET start == k.label
      test == CompileExpr(Emit(PushLoop(GetLabels(k, 2), start, start + 1), <<Label("while_start", start)>>),
                          n.condition)
      body == CompileScope(Emit(test, <<I("JUMP_IF_FALSE", start + 1)>>), n.scope)
  IN PopLoop(Emit(body, <<I("JUMP", start), Label("while_end", start + 1)>>))

\* Mutant: continue goes to the test, not to the step.
CompileForSkipping(k, n) ==
  LET start == k.label
      init == EmitStore(CompileExpr(PushLoop(GetLabels(GetVarId(k, n.var), 3), start, start + 2),
                                    n.start), n.var)
      test == CompileExpr(EmitLoad(Emit(init, <<Label("for_start", start)>>), n.var), n.end)
      body == CompileScope(Emit(test, <<I(IF n.step < 0 THEN "CMP_GT" ELSE "CMP_LT", 0),
                                        I("JUMP_IF_FALSE", start + 2)>>), n.scope)
      step == EmitStore(Emit(EmitLoad(Emit(body, <<Label("for_continue", start + 1)>>), n.var),
                             <<I("CONST_I64", n.step), I("ADD_I64", 0)>>), n.var)
  IN PopLoop(Emit(step, <<I("JUMP", start), Label("for_end", start + 2)>>))

\* for: the end expression is compiled into the test, the step after the label
\* for continue.
CompileFor(k, n) ==
  LET start == k.label
      init == EmitStore(CompileExpr(PushLoop(GetLabels(GetVarId(k, n.var), 3), start + 1, start + 2),
                                    n.start), n.var)
      test == CompileExpr(EmitLoad(Emit(init, <<Label("for_start", start)>>), n.var), n.end)
      body == CompileScope(Emit(test, <<I(IF n.step < 0 THEN "CMP_GT" ELSE "CMP_LT", 0),
                                        I("JUMP_IF_FALSE", start + 2)>>), n.scope)
      step == EmitStore(Emit(EmitLoad(Emit(body, <<Label("for_continue", start + 1)>>), n.var),
                             <<I("CONST_I64", n.step), I("ADD_I64", 0)>>), n.var)
  IN PopLoop(Emit(step, <<I("JUMP", start), Label("for_end", start + 2)>>))

\* for_in over a literal list: a hidden index, named after the label counter.
CompileForIn(k, n) ==
  LET start == k.label
      hidden == "_forin_idx_" \o ToString(k.label)
      named == GetVarId(GetVarId(k, n.var), hidden)
      idx == named.ids[hidden]
      test == Emit(PushLoop(GetLabels(named, 3), start + 1, start + 2),
                   <<I("CONST_I64", 0), I("STORE", idx), Label("forin_start", start),
                     I("LOAD", idx), I("CONST_I64", Len(n.iterable)), I("CMP_LT", 0),
                     I("JUMP_IF_FALSE", start + 2),
                     I("LOAD", idx), IA("LIST_GET", n.iterable)>>)
      body == CompileScope(EmitStore(test, n.var), n.scope)
      step == Emit(body, <<Label("forin_continue", start + 1), I("LOAD", idx), I("CONST_I64", 1), I("ADD_I64", 0),
                           I("STORE", idx), I("JUMP", start), Label("forin_end", start + 2)>>)
  IN PopLoop(step)

\* try: the handler is taken off after the body and after the except scope.
CompileTry(k, n) ==
  LET l == k.label
      body == CompileScope(Emit(GetLabels(k, 2), <<IS("TRY_BEGIN", l, n.exc_type)>>), n.try_scope)
      exc == CompileScope(Emit(body, <<I("TRY_END", 0), I("JUMP", l + 1), Label("except", l)>>), n.except_scope)
  IN Emit(exc, <<I("TRY_END", 0), Label("try_end", l + 1)>>)

\* break and continue leave through the loop `level' levels up.
CompileLeave(k, n) ==
  IF n.level > Len(k.loops) THEN [k EXCEPT !.error = TRUE]
  ELSE Emit(k, <<I("JUMP", k.loops[Len(k.loops) + 1 - n.level][n.type])>>)

\* Mutant: the result of a call stays on the stack.
DiscardNothing(n) == <<>>

\* A call for its effect: its result goes, unless the parser says there is none.
Discard(n) == IF n.return_type \in {"void", "none"} THEN <<>> ELSE <<I("POP", 0)>>

CompileVar(k, n) == EmitStore(CompileExpr(GetVarId(k, n.name), n.value), n.name)
CompileReturn(k, n) == Emit(CompileExpr(k, n.value), <<I("RETURN", 0)>>)
CompileRaise(k, n) == Emit(k, <<IS("RAISE", 0, n.exc_type)>>)
\* The message is pushed before the condition.
CompileAssert(k, n) ==
  Emit(CompileExpr(Emit(k, <<I("CONST_I64", 0)>>), n.condition), <<I("ASSERT", 0)>>)

\* compile_statement.
CompileStatement(j, n) ==
  LET k == [j EXCEPT !.line = @ \/ j.spread] IN
  CASE n.type = "var" -> CompileVar(k, n)
    [] n.type = "if" -> CompileIf(k, n)
    [] n.type = "switch" -> CompileSwitch(k, n)
    [] n.type = "while" -> CompileWhile(k, n)
    [] n.type = "for" -> CompileFor(k, n)
    [] n.type = "for_in" -> CompileForIn(k, n)
    [] n.type = "try" -> CompileTry(k, n)
    [] n.type = "raise" -> CompileRaise(k, n)
    [] n.type \in {"break", "continue"} -> CompileLeave(k, n)
    [] n.type = "return" -> CompileReturn(k, n)
    [] n.type = "assert" -> CompileAssert(k, n)
    [] n.type = "call" ->
         Emit(CompileExpr(k, CallE(n.name, n.args)), Discard(n))

\* The statements of a scope in order.
Braced == {"if", "while", "for", "for_in", "switch", "try"}
CompileScope(k, scope) ==
  IF scope = <<>> THEN k
  ELSE LET k1 == CompileStatement(k, Head(scope))
       IN CompileScope([k1 EXCEPT !.line = Tail(scope) # <<>> /\ Head(scope).type \notin Braced],
                       Tail(scope))

\* The local declarations: names assigned at the top level of the body.  The code
\* takes them in alphabetical order; which number a name has matters to nothing.
RECURSIVE LocalSlots(_, _)
LocalSlots(k, scope) ==
  IF scope = <<>> THEN k
  ELSE LocalSlots(IF Head(scope).type = "var" /\ Head(scope).name \notin k.globals
                  THEN GetVarId(k, Head(scope).name) ELSE k, Tail(scope))

\* compile_function: the arguments take the first slots, then the declared
\* locals; main first runs the declarations of the globals.  Only a void
\* function gets a return at its end.
CompileFunction(prog, f, spread) ==
  LET func == prog.funcs[f]
      names == func.args
      globals == {prog.globals[i].name : i \in DOMAIN prog.globals}
      k0 == [out |-> <<>>, label |-> 0, loops |-> <<>>, error |-> FALSE, globals |-> globals,
             spread |-> spread, line |-> FALSE,
             ids |-> [x \in {names[i] : i \in DOMAIN names} |->
                        (CHOOSE i \in DOMAIN names : names[i] = x) - 1]]
      k1 == CompileScope(LocalSlots(k0, func.scope),
                         (IF f = "main" THEN prog.globals ELSE <<>>) \o func.scope)
  IN [k1 EXCEPT !.out = IF func.void THEN Append(@, I("RETURN_VOID", 0)) ELSE @]
=============================================================================
