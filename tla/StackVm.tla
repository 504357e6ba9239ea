-------------------------------- MODULE StackVm --------------------------------
(***************************************************************************)
(* The interpreter loop of the C VM (src/runtime/vm.c) on the code of      *)
(* BytecodeCompiler, and on the instructions BytecodeOpt puts in its       *)
(* place.                                                                  *)
(*                                                                         *)
(* An image is what vm_load_bytecode builds: code, one sequence for all    *)
(* functions; funcs, where each starts and ends; labels.  A machine state  *)
(* m is a record: pc, stack, frames (the array call_stack, whose entries   *)
(* above top stay as they were left), top (call_stack_top), cur            *)
(* (current_frame), globals, handlers, out, status.                        *)
(***************************************************************************)
EXTENDS BytecodeCompiler, SequencesExt

CONSTANTS
  MAX_STACK,       \* operands
  MAX_CALL_STACK,  \* frames; the program is given up at the limit
  Slots            \* variables of a frame

ASSUME VmAssumption ==
  /\ MAX_STACK \in Nat \ {0} /\ MAX_CALL_STACK \in Nat \ {0} /\ Slots \in Nat

\* vm_load_bytecode: the functions of order one after the other.  A label is an
\* instruction, a directive is none; end_pc is the index after the last
\* instruction of a function, that of the first instruction of the next one.
Image(order, compiled) ==
  LET text == [i \in DOMAIN order |->
                 SelectSeq(compiled[order[i]], LAMBDA ins : ins.op # "LINE")]
      start[i \in 1 .. Len(order) + 1] ==
        IF i = 1 THEN 1 ELSE start[i - 1] + Len(text[i - 1])
      code == FoldLeft(LAMBDA x, y : x \o y, <<>>, text)
      owner(p) == CHOOSE i \in DOMAIN order : start[i] <= p /\ p < start[i + 1]
  IN [code |-> code,
      funcs |-> [i \in DOMAIN order |->
                   [name |-> order[i], start |-> start[i], end |-> start[i + 1]]],
      labels |-> {[name |-> code[p].a[1], func |-> owner(p), pc |-> p] :
                    p \in {q \in DOMAIN code : code[q].op = "LABEL"}}]

\* vm_find_function_for_pc: both ends are included.
FunctionForPc(img, pc) ==
  LET fs == {i \in DOMAIN img.funcs : img.funcs[i].start <= pc /\ pc <= img.funcs[i].end}
  IN IF fs = {} THEN 0 ELSE CHOOSE i \in fs : \A j \in fs : i <= j

\* vm_find_label; 0 when there is none.
FindLabel(img, name, func) ==
  LET ls == {l \in img.labels : l.name = name /\ l.func = func}
  IN IF ls = {} THEN 0 ELSE (CHOOSE l \in ls : \A j \in ls : l.pc <= j.pc).pc
Target(img, pc, name) == FindLabel(img, name, FunctionForPc(img, pc))

\* The labels an instruction names, TRY_BEGIN apart.
LabelsOf(i) ==
  CASE i.op \in {"JUMP", "JUMP_IF_FALSE", "JUMP_IF_TRUE"} -> {i.a[1]}
    [] i.op = "SWITCH_JUMP_TABLE" -> {i.a[j] : j \in 3 .. Len(i.a)}
    [] OTHER -> {}
\* The second pass of the loader: a label that is not there ends the program.
Unresolved(img) ==
  {p \in DOMAIN img.code : \E l \in LabelsOf(img.code[p]) : Target(img, p, l) = 0}

Frame(ret) == [ret |-> ret, vars |-> [i \in 0 .. Slots |-> 0]]

\* vm_run, before the loop.
Boot(img) ==
  LET main == CHOOSE i \in DOMAIN img.funcs : img.funcs[i].name = "main"
  IN [pc |-> img.funcs[main].start, stack |-> <<>>, frames |-> <<Frame(0)>>, top |-> 1, cur |-> 1,
      globals |-> [x \in {} |-> 0], handlers |-> <<>>, out |-> <<>>,
      status |-> IF Unresolved(img) = {} THEN "running" ELSE "label not found"]

Stop(m, why) == [m EXCEPT !.status = why]
Peek(m, i) == m.stack[Len(m.stack) - i]
Drop(m, n) == [m EXCEPT !.stack = SubSeq(@, 1, Len(@) - n)]
Push(m, v) ==
  IF Len(m.stack) >= MAX_STACK THEN Stop(m, "stack overflow") ELSE [m EXCEPT !.stack = Append(@, v)]
Slot(m, i) == m.frames[m.cur].vars[i]
SetSlot(m, i, v) == [m EXCEPT !.frames[m.cur].vars[i] = v]

\* Instructions of two operands, and those whose second operand is a constant.
Binary == [ADD_I64 |-> "Add", SUB_I64 |-> "Sub", MUL_I64 |-> "Mult", MOD_I64 |-> "Mod",
           CMP_LT |-> "Lt", CMP_GT |-> "Gt", CMP_LE |-> "LtE", CMP_GE |-> "GtE",
           CMP_EQ |-> "Eq", CMP_NE |-> "NotEq"]
WithConst == [ADD_CONST_I64 |-> "Add", SUB_CONST_I64 |-> "Sub", MUL_CONST_I64 |-> "Mult",
              MOD_CONST_I64 |-> "Mod",
              CMP_LT_CONST |-> "Lt", CMP_GT_CONST |-> "Gt", CMP_LE_CONST |-> "LtE",
              CMP_GE_CONST |-> "GtE", CMP_EQ_CONST |-> "Eq", CMP_NE_CONST |-> "NotEq"]
\* LOAD2_ instructions: both operands are variables.
Load2 == [LOAD2_ADD_I64 |-> "Add", LOAD2_SUB_I64 |-> "Sub", LOAD2_MUL_I64 |-> "Mult",
          LOAD2_MOD_I64 |-> "Mod",
          LOAD2_CMP_LT |-> "Lt", LOAD2_CMP_GT |-> "Gt", LOAD2_CMP_LE |-> "LtE",
          LOAD2_CMP_GE |-> "GtE", LOAD2_CMP_EQ |-> "Eq", LOAD2_CMP_NE |-> "NotEq"]

\* How many operands an instruction needs.
Needs(i) ==
  CASE i.op = "SELECT" -> 3
    [] i.op \in DOMAIN Binary \cup {"AND", "OR", "ASSERT", "SWAP"} -> 2
    [] i.op \in DOMAIN WithConst
        \cup {"STORE", "STORE_GLOBAL", "POP", "RETURN", "BUILTIN_PRINTLN", "JUMP_IF_FALSE",
              "JUMP_IF_TRUE", "DUP", "NOT", "NEG", "LIST_GET", "FUSED_STORE_LOAD",
              "SWITCH_JUMP_TABLE"} -> 1
    [] i.op = "CALL" -> i.a[1]
    [] OTHER -> 0

\* CALL: every slot of the new frame is reset, then the arguments are popped.
DoCall(img, m, i) ==
  LET f == CHOOSE j \in DOMAIN img.funcs : img.funcs[j].name = i.s
      argc == i.a[1]
      args == [j \in 0 .. Slots |-> IF j < argc THEN Peek(m, argc - 1 - j) ELSE 0]
      frame == [ret |-> m.pc, vars |-> args]
  IN IF m.top >= MAX_CALL_STACK THEN Stop(m, "frames")
     ELSE [Drop(m, argc) EXCEPT
             !.frames = [j \in 1 .. (IF Len(@) > m.top THEN Len(@) ELSE m.top + 1) |->
                           IF j = m.top + 1 THEN frame ELSE @[j]],
             !.top = @ + 1, !.cur = m.top + 1, !.pc = img.funcs[f].start]

\* RETURN and RETURN_VOID, vs the values to push: from main they end the program.
DoReturn(m, vs) ==
  IF m.top <= 1 THEN Stop(m, "done")
  ELSE [m EXCEPT !.pc = m.frames[m.top].ret, !.top = @ - 1, !.cur = m.top - 1,
                 !.stack = @ \o vs]

\* vm_runtime_error: handlers are popped from the top until one matches, the
\* first tried with the type, the others with the type of a message that says
\* nothing.  The stacks go back, current_frame does not.
RECURSIVE DoRaise(_, _)
DoRaise(m, exc) ==
  IF m.handlers = <<>> THEN Stop(m, "uncaught")
  ELSE LET h == m.handlers[Len(m.handlers)]
           m1 == [m EXCEPT !.handlers = SubSeq(@, 1, Len(@) - 1)]
       IN IF h.exc \in {exc, ""}
          THEN [m1 EXCEPT !.stack = SubSeq(@, 1, h.stack), !.top = h.top, !.pc = h.pc]
          ELSE DoRaise(m1, "RuntimeError")

\* The multi-operand forms do what the single ones do, from left to right.  The
\* loads of FUSED_STORE_LOAD look at the top of the call stack, all others at
\* current_frame.
RECURSIVE PushAll(_, _), StoreConsts(_, _), LoadStores(_, _), StoreLoads(_, _)
PushAll(m, vs) == IF vs = <<>> THEN m ELSE PushAll(Push(m, Head(vs)), Tail(vs))
StoreConsts(m, a) ==
  IF a = <<>> THEN m ELSE StoreConsts(SetSlot(m, a[1], a[2]), SubSeq(a, 3, Len(a)))
LoadStores(m, a) ==
  IF a = <<>> THEN m
  ELSE LET m1 == Push(m, Slot(m, a[1]))
       IN IF Len(a) = 1 THEN m1
          ELSE LoadStores(SetSlot(Drop(m1, 1), a[2], Peek(m1, 0)), SubSeq(a, 3, Len(a)))
StoreLoads(m, a) ==
  IF a = <<>> THEN m
  ELSE LET m1 == SetSlot(Drop(m, 1), a[1], Peek(m, 0))
       IN IF Len(a) = 1 THEN m1
          ELSE StoreLoads(Push(m1, m1.frames[m.top].vars[a[2]]), SubSeq(a, 3, Len(a)))

\* One turn of the loop: i is the instruction, m the state with pc after it.
Execute(img, m, i) ==
  LET n == i.a[1]
      jump == [m EXCEPT !.pc = Target(img, m.pc - 1, n)]
  IN CASE i.op = "CONST_I64" -> PushAll(m, i.a)
       [] i.op = "LOAD" -> PushAll(m, [j \in DOMAIN i.a |-> Slot(m, i.a[j])])
       [] i.op = "STORE" -> SetSlot(Drop(m, 1), n, Peek(m, 0))
       [] i.op = "STORE_CONST_I64" -> StoreConsts(m, i.a)
       [] i.op = "FUSED_LOAD_STORE" -> LoadStores(m, i.a)
       [] i.op = "FUSED_STORE_LOAD" -> StoreLoads(m, i.a)
       [] i.op \in {"COPY_LOCAL", "COPY_LOCAL_REF"} -> SetSlot(m, i.a[2], Slot(m, n))
       [] i.op = "LOAD_GLOBAL" -> Push(m, IF i.s \in DOMAIN m.globals THEN m.globals[i.s] ELSE 0)
       [] i.op = "STORE_GLOBAL" -> [Drop(m, 1) EXCEPT !.globals = i.s :> Peek(m, 0) @@ @]
       [] i.op \in DOMAIN Binary -> Push(Drop(m, 2), Calc(Binary[i.op], Peek(m, 1), Peek(m, 0)))
       [] i.op = "ADD_CONST_I64" ->
            Push(Drop(m, 1), FoldLeft(LAMBDA x, y : x + y, Peek(m, 0), i.a))
       [] i.op \in DOMAIN WithConst \ {"ADD_CONST_I64"} ->
            Push(Drop(m, 1), Calc(WithConst[i.op], Peek(m, 0), n))
       [] i.op \in DOMAIN Load2 -> Push(m, Calc(Load2[i.op], Slot(m, n), Slot(m, i.a[2])))
       [] i.op = "AND" -> Push(Drop(m, 2), Truth(Peek(m, 1) # 0 /\ Peek(m, 0) # 0))
       [] i.op = "OR" -> Push(Drop(m, 2), Truth(Peek(m, 1) # 0 \/ Peek(m, 0) # 0))
       [] i.op = "NOT" -> Push(Drop(m, 1), Truth(Peek(m, 0) = 0))
       [] i.op = "NEG" -> Push(Drop(m, 1), -Peek(m, 0))
       [] i.op = "SELECT" -> Push(Drop(m, 3), IF Peek(m, 2) # 0 THEN Peek(m, 1) ELSE Peek(m, 0))
       [] i.op = "DUP" -> Push(m, Peek(m, 0))
       [] i.op = "SWAP" -> PushAll(Drop(m, 2), <<Peek(m, 0), Peek(m, 1)>>)
       [] i.op = "POP" -> Drop(m, 1)
       [] i.op = "INC_LOCAL" -> SetSlot(m, n, Slot(m, n) + 1)
       [] i.op = "DEC_LOCAL" -> SetSlot(m, n, Slot(m, n) - 1)
       [] i.op = "LABEL" -> m
       [] i.op = "JUMP" -> jump
       [] i.op = "JUMP_IF_FALSE" -> Drop(IF Peek(m, 0) = 0 THEN jump ELSE m, 1)
       [] i.op = "JUMP_IF_TRUE" -> Drop(IF Peek(m, 0) # 0 THEN jump ELSE m, 1)
       [] i.op = "SWITCH_JUMP_TABLE" ->
            [Drop(m, 1) EXCEPT !.pc =
               Target(img, m.pc - 1, IF Peek(m, 0) \in n .. i.a[2] THEN i.a[3 + Peek(m, 0) - n]
                                     ELSE i.a[Len(i.a)])]
       [] i.op = "LIST_GET" -> Push(Drop(m, 1), i.a[Peek(m, 0) + 1])
       [] i.op = "CALL" -> DoCall(img, m, i)
       [] i.op = "RETURN" -> DoReturn(Drop(m, 1), <<Peek(m, 0)>>)
       [] i.op = "RETURN_VOID" -> DoReturn(m, <<>>)
       [] i.op = "BUILTIN_PRINTLN" -> [Drop(m, 1) EXCEPT !.out = Append(@, Peek(m, 0))]
       [] i.op = "ASSERT" -> IF Peek(m, 0) = 0 THEN Stop(m, "exit") ELSE Drop(m, 2)
       [] i.op = "TRY_BEGIN" ->
            IF Target(img, m.pc - 1, n) = 0 THEN Stop(m, "handler label not found")
            ELSE [m EXCEPT !.handlers = Append(@, [exc |-> i.s, pc |-> Target(img, m.pc - 1, n),
                                                   stack |-> Len(m.stack), top |-> m.top])]
       [] i.op = "TRY_END" ->
            [m EXCEPT !.handlers = IF @ = <<>> THEN @ ELSE SubSeq(@, 1, Len(@) - 1)]
       [] i.op = "RAISE" -> DoRaise(m, i.s)

Step(img, m) ==
  IF m.pc \notin DOMAIN img.code THEN Stop(m, "off the code")
  ELSE LET i == img.code[m.pc]
       IN IF Len(m.stack) < Needs(i) THEN Stop(m, "stack underflow")
          ELSE Execute(img, [m EXCEPT !.pc = @ + 1], i)
=============================================================================
