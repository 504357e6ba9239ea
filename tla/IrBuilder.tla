-------------------------------- MODULE IrBuilder --------------------------------
(***************************************************************************)
(* The IR builder (src/src/optimizer/ir_builder.py): from the optimized    *)
(* bytecode of a function to basic blocks of instructions in SSA form.     *)
(*                                                                         *)
(* A builder state b is a record: code, block label :> instructions; order,*)
(* func.blocks; at, the block that is written; stack, the operand stack of *)
(* the simulation, which holds values; vars, var_versions; val, the next   *)
(* value; new, the next block label; entry and exit, the variables at the  *)
(* ends of each block; succs, the successors of each block; rest, the      *)
(* blocks to come.                                                         *)
(*                                                                         *)
(* An instruction has an operation, a result r (0 when it has none),       *)
(* operands a, which are values, a number n, a name s and targets t, which *)
(* are labels.  Labels of the bytecode are natural numbers.                *)
(***************************************************************************)
EXTENDS BytecodeCompiler, SequencesExt

Inst(op, r, as, n, s, ts) == [op |-> op, r |-> r, a |-> as, n |-> n, s |-> s, t |-> ts]
Terminators == {"BRANCH", "JUMP", "RETURN", "RETURN_VOID", "TRY_BEGIN"}

EntryLabel == -1
FirstFall == 5000

-----------------------------------------------------------------------------
\* _split_into_blocks.  A label with nothing behind it, not even a line, is no
\* block: the next label takes its place.
Enders == {"JUMP", "JUMP_IF_FALSE", "JUMP_IF_TRUE", "RETURN", "RETURN_VOID",
           "SWITCH_JUMP_TABLE", "TRY_BEGIN"}
RECURSIVE Split(_, _, _, _)
Split(code, label, body, fall) ==
  LET done == IF body = <<>> THEN <<>> ELSE <<[label |-> label, body |-> body]>>
  IN IF code = <<>> THEN done
     ELSE LET x == Head(code) IN
          IF x.op = "LABEL" THEN done \o Split(Tail(code), x.a[1], <<>>, fall)
          ELSE IF x.op \in Enders
          THEN <<[label |-> label, body |-> Append(body, x)]>> \o Split(Tail(code), fall, <<>>, fall + 1)
          ELSE Split(Tail(code), label, Append(body, x), fall)
Blocks(code) == Split(code, EntryLabel, <<>>, FirstFall)

-----------------------------------------------------------------------------
\* _make_inst, for an instruction without and with a result; the result of the
\* last one that had one; _push.
Effect(b, op, as, s) == [b EXCEPT !.code[b.at] = Append(@, Inst(op, 0, as, 0, s, <<>>))]
Make(b, op, as, n, s) ==
  [b EXCEPT !.code[b.at] = Append(@, Inst(op, b.val, as, n, s, <<>>)), !.val = @ + 1]
Last1(b) == b.val - 1
PushV(b, v) == [b EXCEPT !.stack = Append(@, v)]
MakeConst(b, n) == Make(b, "CONST_INT", <<>>, n, "")

\* _pop, n times: the values from the bottom up.  Below the empty stack of the
\* block there are zeros.
RECURSIVE Take(_, _)
Take(b, n) ==
  IF n = 0 THEN [b |-> b, vs |-> <<>>]
  ELSE LET c == IF b.stack = <<>> THEN LET z == MakeConst(b, 0) IN PushV(z, Last1(z)) ELSE b
           top == Last(c.stack)
           rest == Take([c EXCEPT !.stack = Front(@)], n - 1)
       IN [b |-> rest.b, vs |-> Append(rest.vs, top)]

\* _var_value, and a push of what it gives; a variable that has no version yet
\* is zero from here on.
VarValue(b, i) ==
  IF i \in DOMAIN b.vars THEN b
  ELSE LET z == MakeConst(b, 0) IN [z EXCEPT !.vars = i :> Last1(z) @@ @]
LoadVar(b, i) == LET c == VarValue(b, i) IN PushV(c, c.vars[i])
\* The comparisons of two variables read them without keeping the zero.
PeekVar(b, i) == [LoadVar(b, i) EXCEPT !.vars = b.vars]
\* _set_var of the value on top of the stack.
StoreVar(b, i) == LET p == Take(b, 1) IN [p.b EXCEPT !.vars = i :> p.vs[1] @@ @]

\* An operation on n values of the stack, its result pushed.
Operate(b, op, n, s) ==
  LET p == Take(b, n)
      c == Make(p.b, op, p.vs, 0, s)
  IN PushV(c, Last1(c))

\* The operations of the IR that instructions with two operands become: both on
\* the stack; one of them a constant; both variables.
IrArith == [ADD_I64 |-> "ADD", SUB_I64 |-> "SUB", MUL_I64 |-> "MUL", MOD_I64 |-> "MOD"]
IrCompare == [CMP_LT |-> "LT", CMP_GT |-> "GT", CMP_LE |-> "LE", CMP_GE |-> "GE",
              CMP_EQ |-> "EQ", CMP_NE |-> "NE"]
IrLogic == [AND |-> "AND", OR |-> "OR"]
IrOp == IrArith @@ IrCompare @@ IrLogic
IrArithConst == [ADD_CONST_I64 |-> "ADD", SUB_CONST_I64 |-> "SUB", MUL_CONST_I64 |-> "MUL",
                 MOD_CONST_I64 |-> "MOD"]
IrCompareConst == [CMP_LT_CONST |-> "LT", CMP_GT_CONST |-> "GT", CMP_LE_CONST |-> "LE",
                   CMP_GE_CONST |-> "GE", CMP_EQ_CONST |-> "EQ", CMP_NE_CONST |-> "NE"]
IrOpConst == IrArithConst @@ IrCompareConst
IrArith2 == [LOAD2_ADD_I64 |-> "ADD", LOAD2_SUB_I64 |-> "SUB", LOAD2_MUL_I64 |-> "MUL",
             LOAD2_MOD_I64 |-> "MOD"]
IrCompare2 == [LOAD2_CMP_LT |-> "LT", LOAD2_CMP_GT |-> "GT", LOAD2_CMP_LE |-> "LE",
               LOAD2_CMP_GE |-> "GE", LOAD2_CMP_EQ |-> "EQ", LOAD2_CMP_NE |-> "NE"]

\* The instructions over several variables, one after the other.  A store that
\* follows the last pair of a FUSED_STORE_LOAD is dropped.
RECURSIVE LoadAll(_, _), StoreConstants(_, _), FusedLoads(_, _), FusedStores(_, _), PushConsts(_, _)
LoadAll(b, is) == IF is = <<>> THEN b ELSE LoadAll(LoadVar(b, Head(is)), Tail(is))
PushConsts(b, ns) ==
  IF ns = <<>> THEN b
  ELSE LET c == MakeConst(b, Head(ns)) IN PushConsts(PushV(c, Last1(c)), Tail(ns))
StoreConstants(b, a) ==
  IF Len(a) < 2 THEN b
  ELSE StoreConstants(StoreVar(PushConsts(b, <<a[2]>>), a[1]), SubSeq(a, 3, Len(a)))
FusedLoads(b, a) ==
  IF a = <<>> THEN b
  ELSE IF Len(a) = 1 THEN LoadVar(b, a[1])
  ELSE FusedLoads(StoreVar(LoadVar(b, a[1]), a[2]), SubSeq(a, 3, Len(a)))
FusedStores(b, a) ==
  IF Len(a) < 2 THEN b
  ELSE FusedStores(LoadVar(StoreVar(b, a[1]), a[2]), SubSeq(a, 3, Len(a)))

\* INC_LOCAL and DEC_LOCAL: the constant comes before a version of the variable.
Step1(b, i, op) ==
  LET c == VarValue(MakeConst(b, 1), i)
      d == Make(c, op, <<c.vars[i], Last1(MakeConst(b, 1))>>, 0, "")
  IN [d EXCEPT !.vars = i :> Last1(d) @@ @]

\* SWITCH_JUMP_TABLE: a chain of comparisons, each but the first in a block of its
\* own at the end of the function.  There is one fewer than the table has cases.
RECURSIVE Chain(_, _, _, _, _)
Chain(b, v, value, cases, default) ==
  LET c == MakeConst(b, value)
      d == Make(c, "EQ", <<v, Last1(c)>>, 0, "")
      last == Len(cases) = 1
      other == IF last THEN default ELSE d.new
      e == [d EXCEPT !.code[d.at] = Append(@, Inst("BRANCH", 0, <<Last1(d)>>, 0, "", <<Head(cases), other>>)),
                     !.succs[d.at] = <<Head(cases), other>>]
  IN IF last THEN e
     ELSE Chain([e EXCEPT !.at = other, !.new = @ + 1, !.order = Append(@, other),
                          !.code = other :> <<>> @@ @, !.succs = other :> <<>> @@ @,
                          !.entry = other :> <<>> @@ @, !.exit = other :> <<>> @@ @],
                v, value + 1, Tail(cases), default)
Switch1(b, x) ==
  LET p == Take(b, 1)
      labels == SubSeq(x.a, 3, Len(x.a))
      n == x.a[2] - x.a[1]
  IN IF n = 0 THEN p.b
     ELSE [Chain(p.b, p.vs[1], x.a[1], SubSeq(labels, 1, n), Last(labels)) EXCEPT !.at = b.at]

\* CALL, by the return type of the function, known when its text came first.
CallFunction(b, x, void) ==
  LET p == Take(b, x.a[1])
  IN IF void THEN Effect(p.b, "CALL", p.vs, x.s)
     ELSE LET c == Make(p.b, "CALL", p.vs, 0, x.s) IN PushV(c, Last1(c))

\* JUMP_IF_TRUE negates, because BRANCH leaves when its condition is false.
BranchOn(b, x) ==
  LET p == Take(b, 1)
      neg == Make(p.b, "NOT", p.vs, 0, "")
      c == IF x.op = "JUMP_IF_TRUE" THEN neg ELSE p.b
      v == IF x.op = "JUMP_IF_TRUE" THEN Last1(neg) ELSE p.vs[1]
  IN [c EXCEPT !.code[c.at] = Append(@, Inst("BRANCH", 0, <<v>>, 0, "", <<x.a[1]>>))]

Jump(b, op, name, l) == [b EXCEPT !.code[b.at] = Append(@, Inst(op, 0, <<>>, 0, name, <<l>>))]
\* A list of the program is a constant: its elements go into the instruction.
ListGet(b, x) ==
  LET p == Take(b, 1)
      c == [Make(p.b, "LIST_GET", p.vs, 0, "") EXCEPT !.code[b.at] = [@ EXCEPT ![Len(@)].t = x.a]]
  IN PushV(c, Last1(c))

\* _emit_instruction, by the sections of it.
EmitMemory(b, x) ==
  CASE x.op = "LOAD" -> LoadAll(b, x.a)
    [] x.op = "STORE" -> StoreVar(b, x.a[1])
    [] x.op = "STORE_CONST_I64" -> StoreConstants(b, x.a)
    [] x.op = "FUSED_LOAD_STORE" -> FusedLoads(b, x.a)
    [] x.op = "FUSED_STORE_LOAD" -> FusedStores(b, x.a)
    [] x.op \in {"COPY_LOCAL", "COPY_LOCAL_REF"} -> FusedLoads(b, x.a)
    [] x.op = "INC_LOCAL" -> Step1(b, x.a[1], "ADD")
    [] x.op = "DEC_LOCAL" -> Step1(b, x.a[1], "SUB")
    [] OTHER -> b
EmitStack(b, x) ==
  CASE x.op = "DUP" -> LET p == Take(b, 1) IN PushV(PushV(p.b, p.vs[1]), p.vs[1])
    [] x.op = "SWAP" -> LET p == Take(b, 2) IN PushV(PushV(p.b, p.vs[2]), p.vs[1])
    [] x.op = "POP" -> Take(b, 1).b
    [] OTHER -> b
EmitOperation(b, x) ==
  CASE x.op = "CONST_I64" -> PushConsts(b, x.a)
    [] x.op \in DOMAIN IrOp -> Operate(b, IrOp[x.op], 2, "")
    [] x.op \in DOMAIN IrOpConst -> Operate(PushConsts(b, <<x.a[1]>>), IrOpConst[x.op], 2, "")
    [] x.op \in DOMAIN IrArith2 -> Operate(LoadAll(b, x.a), IrArith2[x.op], 2, "")
    [] x.op \in DOMAIN IrCompare2 ->
         Operate(PeekVar(PeekVar(b, x.a[1]), x.a[2]), IrCompare2[x.op], 2, "")
    [] x.op \in {"NOT", "NEG"} -> Operate(b, x.op, 1, "")
    [] x.op = "SELECT" -> Operate(b, "SELECT", 3, "")
    [] x.op = "LIST_GET" -> ListGet(b, x)
    [] OTHER -> b
EmitGlobal(b, x) ==
  CASE x.op = "LOAD_GLOBAL" -> Operate(b, "LOAD_GLOBAL", 0, x.s)
    [] x.op = "STORE_GLOBAL" -> LET p == Take(b, 1) IN Effect(p.b, "STORE_GLOBAL", p.vs, x.s)
    [] OTHER -> b
EmitFlow(b, x, voids) ==
  CASE x.op = "JUMP" -> Jump(b, "JUMP", "", x.a[1])
    [] x.op \in {"JUMP_IF_FALSE", "JUMP_IF_TRUE"} -> BranchOn(b, x)
    [] x.op = "RETURN" -> LET p == Take(b, 1) IN Effect(p.b, "RETURN", p.vs, "")
    [] x.op = "RETURN_VOID" -> Effect(b, "RETURN_VOID", <<>>, "")
    [] x.op = "SWITCH_JUMP_TABLE" -> Switch1(b, x)
    [] x.op = "CALL" -> CallFunction(b, x, x.s \in voids)
    [] OTHER -> b
EmitEffects(b, x) ==
  CASE x.op = "BUILTIN_PRINTLN" -> LET p == Take(b, 1) IN Effect(p.b, "PRINTLN", p.vs, "")
    [] x.op = "ASSERT" -> LET p == Take(b, 2) IN Effect(p.b, "ASSERT", <<p.vs[2]>>, "")
    [] OTHER -> b
EmitException(b, x) ==
  CASE x.op = "TRY_BEGIN" -> Jump(b, "TRY_BEGIN", x.s, x.a[1])
    [] x.op = "TRY_END" -> Effect(b, "TRY_END", <<>>, "")
    [] x.op = "RAISE" -> Effect(b, "RAISE", <<>>, x.s)
    [] OTHER -> b
Emit1(b, x, voids) ==
  EmitException(EmitEffects(EmitFlow(EmitGlobal(EmitOperation(EmitStack(EmitMemory(b, x),
    x), x), x), x, voids), x), x)

\* _simulate_and_build_ir: the blocks in the order of the text, each from an
\* empty operand stack, the variables carried over from the block before.
RECURSIVE EmitBody(_, _, _), EmitBlocks(_, _)
EmitBody(b, body, voids) ==
  IF body = <<>> THEN b ELSE EmitBody(Emit1(b, Head(body), voids), Tail(body), voids)
EmitBlocks(b, voids) ==
  IF b.rest = <<>> THEN b
  ELSE LET l == Head(b.rest).label
           c == EmitBody([b EXCEPT !.at = l, !.stack = <<>>, !.entry = l :> b.vars @@ @],
                         Head(b.rest).body, voids)
       IN EmitBlocks([c EXCEPT !.exit = l :> c.vars @@ @, !.rest = Tail(@)], voids)

\* The parameters are values 1 .. arity.
Simulate(code, arity, voids) ==
  LET blocks == Blocks(code)
      labels == [i \in DOMAIN blocks |-> blocks[i].label]
      set == {labels[i] : i \in DOMAIN labels}
      none == [l \in set |-> <<>>]
  IN EmitBlocks([rest |-> blocks, code |-> none, succs |-> none, order |-> labels, at |-> 0, stack |-> <<>>,
                 vars |-> [i \in 0 .. arity - 1 |-> i + 1], val |-> arity + 1,
                 new |-> 2 * FirstFall, entry |-> <<>>, exit |-> <<>>], voids)
=============================================================================
