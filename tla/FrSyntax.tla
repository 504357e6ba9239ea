------------------------------- MODULE FrSyntax -------------------------------
(***************************************************************************)
(* The syntax tree the parser hands to the engines, as the records that    *)
(* run_scope (runtime.py) and compile_statement (compiler.py) take apart.  *)
(* Names are strings, values are integers; a condition is an integer that  *)
(* is 0 or not.                                                            *)
(***************************************************************************)
EXTENDS Integers, Sequences, FiniteSets

\* Expressions.
Const(n) == [op |-> "const", value |-> n]
Id(x) == [op |-> "id", id |-> x]
Bin(o, l, r) == [op |-> "bin", calc |-> o, left |-> l, right |-> r]
Un(o, e) == [op |-> "un", calc |-> o, operand |-> e]
BoolOp(o, vs) == [op |-> o, values |-> vs]
CallE(f, as) == [op |-> "call", func |-> f, args |-> as]

\* Statements.
Var(x, e) == [type |-> "var", name |-> x, value |-> e, declaration |-> FALSE]
Decl(x, e) == [type |-> "var", name |-> x, value |-> e, declaration |-> TRUE]
If(c, s, elifs, els) ==
  [type |-> "if", condition |-> c, scope |-> s, elifs |-> elifs, else |-> els]
Elif(c, s) == [condition |-> c, scope |-> s]
While(c, s) == [type |-> "while", condition |-> c, scope |-> s]
For(x, a, b, d, s) ==
  [type |-> "for", var |-> x, start |-> a, end |-> b, step |-> d, scope |-> s]
ForIn(x, items, s) == [type |-> "for_in", var |-> x, iterable |-> items, scope |-> s]
Switch(e, cases, default) ==
  [type |-> "switch", expr |-> e, cases |-> cases, default |-> default]
Case(vs, s) == [values |-> vs, body |-> s]
Try(s, exc, h) ==
  [type |-> "try", try_scope |-> s, exc_type |-> exc, except_scope |-> h]
Raise(exc) == [type |-> "raise", exc_type |-> exc]
Break(n) == [type |-> "break", level |-> n]
Continue(n) == [type |-> "continue", level |-> n]
Return(e) == [type |-> "return", value |-> e]
AssertThat(c) == [type |-> "assert", condition |-> c]
\* return_type is "none" when the parser has not met the function yet.
Call(f, as, rt) == [type |-> "call", name |-> f, args |-> as, return_type |-> rt]
Println(e) == Call("println", <<e>>, "void")

\* A function: params is a sequence of names, void says that it returns nothing.
Func(params, void, s) == [args |-> params, void |-> void, scope |-> s]

\* The operators of eval_expr_calc and of the VM's arithmetic, on integers, and
\* those of _handle_unary_op.
Truth(b) == IF b THEN 1 ELSE 0
Calc(o, l, r) ==
  CASE o = "Add" -> l + r
    [] o = "Sub" -> l - r
    [] o = "Mult" -> l * r
    [] o = "Mod" -> l % r
    [] o = "Lt" -> Truth(l < r)
    [] o = "Gt" -> Truth(l > r)
    [] o = "LtE" -> Truth(l <= r)
    [] o = "GtE" -> Truth(l >= r)
    [] o = "Eq" -> Truth(l = r)
    [] o = "NotEq" -> Truth(l # r)
Calc1(o, v) == IF o = "Not" THEN Truth(v = 0) ELSE -v

\* The names a scope declares, nested scopes included (_collect_local_decls).
RECURSIVE Declared(_)
Declared(scope) ==
  UNION {LET n == scope[i] IN
         CASE n.type = "var" -> IF n.declaration THEN {n.name} ELSE {}
           [] n.type = "if" ->
                Declared(n.scope) \cup Declared(n.else)
                  \cup UNION {Declared(n.elifs[k].scope) : k \in DOMAIN n.elifs}
           [] n.type \in {"while", "for", "for_in"} -> Declared(n.scope)
           [] n.type = "switch" ->
                Declared(n.default)
                  \cup UNION {Declared(n.cases[k].body) : k \in DOMAIN n.cases}
           [] n.type = "try" -> Declared(n.try_scope) \cup Declared(n.except_scope)
           [] OTHER -> {} : i \in DOMAIN scope}
=============================================================================
