-------------------------- MODULE WasmInstructions --------------------------
(***************************************************************************)
(* _compile_instruction, continued: containers, structures, locals and     *)
(* globals, calls and control, and the dispatch on the opcode.             *)
(***************************************************************************)
EXTENDS WasmOpcodes

(* A string that goes into a container is packed into one i64.              *)
PackString == <<Code(P, L), Pop(2), Note(L)>>
IsString(w) == EndsIn(w.track, I \o P) /\ EndsIn(w.ext, <<"str", "str">>)
(* The element on top, ready for a container that lies below it.            *)
Element(w) ==
  IF IsString(w) THEN PackString
  ELSE SecondToI32(w) \o (IF Top(w) = "i32" THEN <<Code(I, L), Retype(1, "i64")>> ELSE <<>>)

(* A mutant of Sets: the set that SET_ADD returns is not remembered. *)
SetsForgotten(w, op) ==
  CASE op = "SET_NEW" -> <<Call("set_new"), Source("set")>>
    [] op = "SET_ADD" -> Element(w) \o <<Call("set_add")>>
    [] op = "SET_REMOVE" -> Element(w) \o <<Call("set_remove"), Source("set")>>
    [] op = "SET_CONTAINS" -> Element(w) \o <<Call("set_contains"), Source("bool")>>

Sets(w, op) ==
  CASE op = "SET_NEW" -> <<Call("set_new"), Source("set")>>
    [] op = "SET_ADD" -> Element(w) \o <<Call("set_add"), Source("set")>>
    [] op = "SET_REMOVE" -> Element(w) \o <<Call("set_remove"), Source("set")>>
    [] op = "SET_CONTAINS" -> Element(w) \o <<Call("set_contains"), Source("bool")>>

(* CONTAINS looks for the kind of the container at the second mark, then at *)
(* the last i32 source.                                                     *)
HasElement(w) ==
  LET texts == EndsIn(w.track, P \o P) /\ EndsIn(w.ext, [i \in 1..4 |-> "str"])
      kind == IF Nth(w.ext, 2) \in {"list", "set"} THEN Nth(w.ext, 2) ELSE w.last
      test == IF kind = "set" THEN "set_contains" ELSE "list_contains"
      top == IF IsString(w) THEN PackString
             ELSE IF Top(w) = "i32" THEN <<Code(I, L), Retype(1, "i64")>> ELSE <<>>
      ready == Then(w, top)
  IN IF texts THEN Then(w, <<Call("str_contains"), Source("bool")>>)
     ELSE IF Len(w.track) < 2 THEN w
     ELSE Then(ready, SecondToI32(ready) \o <<Call(test), Source("bool")>>)

NewList(op) ==
  <<Call("list_new"), Source("list")>>
    \o (CASE op = "LIST_NEW" -> <<>>
          [] op = "LIST_NEW_I64" -> <<Code(<<>>, L), Note(L), Call("list_append")>>
          [] op = "LIST_NEW_STR" ->
               <<Code(<<>>, P), Note(P)>> \o PackString \o <<Call("list_append")>>)
ListAppend(w) == Element(w) \o <<Call("list_append"), Source("list")>>
ListGet(w) ==
  IF EndsIn(w.track, P \o L) THEN <<Call("str_get")>> ELSE SecondToI32(w) \o <<Call("list_get")>>

(* LIST_SET with a string: the value is packed, its two entries popped; then *)
(* the slice that drops two more entries makes a plain list of the stack,    *)
(* and an i32 is appended to it.                                             *)
ListSet(w) ==
  LET string == EndsIn(w.track, I \o L \o P)
      packed == Then(w, <<Code(P, L), Pop(2)>>)
      sliced == [packed EXCEPT !.linked = FALSE, !.track = Keep(@, 2)]
  IN Then(IF string THEN Then(sliced, <<Note(I)>>) ELSE Then(w, ThirdToI32(w)),
          <<Call("list_set"), Source("list")>>)
ListPop(w) == TopToI32(w) \o <<Call("list_pop"), Source("list")>>

---------------------------------------------------------------------------
(* Structures: eight bytes a field; a string field holds a packed string.   *)

StoreNewField(w, t) ==
  CASE t = "str" -> Then(w, <<Code(P, <<>>), Pop(2)>>)
    [] t \in {"f64", "float"} -> Then(w, <<Code(F, <<>>), Pop(1)>>)
    [] t \in {"i32", "bool"} -> Then(w, <<Code(I, <<>>), Pop(1)>>)
    [] OTHER -> Then(w, (IF Top(w) = "i32" THEN <<Code(I, L), Retype(1, "i64")>> ELSE <<>>)
                          \o <<Code(L, <<>>), Pop(1)>>)
StructNew(w) ==   \* the fields from the last to the first, then the pointer
  LET order == Reverse([i \in 1..Cardinality(DOMAIN Fields) |-> Fields[ToString(i - 1)]])
  IN Then(FoldLeft(StoreNewField, w, order), <<Code(<<>>, I), Note(I), Mark(1, "obj")>>)

StructGet(w, t) ==
  LET pointer == TopToI32(w) \o <<Code(I, <<>>), Pop(1)>>
  IN IF Nth(w.ext, 1) # "obj" THEN TopToI32(w) \o <<Code(I, L), Pop(1), Note(L)>>
     ELSE pointer \o
       (CASE t = "str" -> <<Code(<<>>, P), Note(P), PushMarks(<<"str", "str">>)>>
          [] t \in {"f64", "float"} -> <<Code(<<>>, F), Note(F)>>
          [] t \in {"i32", "bool"} -> <<Code(<<>>, I), Note(I)>>
          [] OTHER -> <<Code(<<>>, L), Note(L)>>)

StructSet(w, t) ==   \* the field's type is known from the topmost mark of a structure
  LET known == "obj" \in ToSet(w.ext)
      value == CASE known /\ t = "str" -> <<Code(P, <<>>), Pop(1), PopMarks(1), Pop(1), PopMarks(1)>>
                 [] known /\ t \in {"f64", "float"} -> <<Code(F, <<>>), Pop(1), PopMarks(1)>>
                 [] OTHER -> (IF Top(w) = "i32" THEN <<Code(I, L), Retype(1, "i64")>> ELSE <<>>)
                               \o <<Code(L, <<>>), Pop(1), PopMarks(1)>>
  IN value \o <<Code(I, I), PadMarks>> \o (IF known THEN <<Mark(1, "obj")>> ELSE <<>>)

---------------------------------------------------------------------------
(* Locals and globals. *)

Load(t) ==
  IF t = "str" THEN <<Code(<<>>, P), Note(P), PadMarks>> \o MarkString
  ELSE <<Code(<<>>, ValueOf(t)), Note(ValueOf(t))>>
         \o (CASE t \in {"list", "variadic"} -> <<Source("list"), Mark(1, "list")>>
               [] t = "set" -> <<Source("set"), Mark(1, "set")>>
               [] t = "bool" -> <<Source("bool")>>
               [] t = "struct:0" -> <<Mark(1, "obj")>>
               [] OTHER -> <<>>)

(* A value whose tracked width is not the declared one is widened or cut.   *)
Fit(w, declared) ==
  CASE declared = "i64" /\ Top(w) = "i32" -> <<Code(I, L), Retype(1, "i64")>>
    [] declared = "i32" /\ Top(w) = "i64" -> <<Code(L, I), Retype(1, "i32")>>
    [] OTHER -> <<>>
Store(w, t) ==
  CASE t = "str" /\ Top(w) = "i64" -> <<Code(L, <<>>), Pop(1)>>
    [] t = "str" /\ Top(w) # "i64" -> <<Code(P, <<>>), Pop(2)>>
    [] OTHER -> Fit(w, MapType(t)) \o <<Code(ValueOf(t), <<>>), Pop(1)>>

StoreConst(op, t) ==   \* the constant goes straight into the local
  LET c == CASE op = "STORE_CONST_I64" -> L [] op = "STORE_CONST_F64" -> F
             [] op = "STORE_CONST_BOOL" -> I [] op = "STORE_CONST_STR" -> P
  IN <<Code(<<>>, c), Code(ValueOf(t), <<>>)>>

(* The pairs are copied; a string that is loaded last gets no marks.        *)
FusedLoadStore(t) ==
  <<Code(<<>>, ValueOf(t)), Code(ValueOf(t), <<>>), Code(<<>>, ValueOf(t)), Note(ValueOf(t))>>
StepLocal(t) == <<Code(<<>>, ValueOf(t)), Code(L, L), Code(ValueOf(t), <<>>)>>

(* Globals are kept under their WebAssembly type: a string global is loaded *)
(* and stored by its first slot alone, and no list is remembered as one.    *)
LoadGlobal(t) == <<Code(<<>>, <<MapType(t)>>), Note(<<MapType(t)>>)>>
StoreGlobal(w, t) == Fit(w, MapType(t)) \o <<Code(<<MapType(t)>>, <<>>), Pop(1)>>

Load2(w, op) ==
  CASE op = "LOAD2_ADD_I64" -> Then(w, <<Code(<<>>, L \o L), Code(L \o L, L), Note(L)>>)
    [] op = "LOAD2_MUL_I64" -> Then(w, <<Code(<<>>, L \o L), Code(L \o L, L), Note(L)>>)
    [] op = "LOAD2_DIV_I64" ->
         Then(w, <<Code(<<>>, L \o L), Code(L \o L, F \o F), Code(F \o F, F), Note(F)>>)
    [] op = "LOAD2_DIV_F64" -> DivFloats(Then(w, <<Code(<<>>, F \o F), Note(F \o F)>>))
    [] op \in {"LOAD2_CMP_LT", "LOAD2_CMP_GT"} ->
         Then(w, <<Code(<<>>, L \o L), Code(L \o L, I), Note(I)>>)

---------------------------------------------------------------------------
(* Calls. *)

(* builtin_map: import, results, parameters.                                *)
BuiltinMap ==
  [fopen |-> [import |-> "file_open", gives |-> I, takes |-> P \o P],
   fread |-> [import |-> "file_read", gives |-> P, takes |-> P],
   fwrite |-> [import |-> "file_write", gives |-> <<>>, takes |-> I \o P],
   fclose |-> [import |-> "file_close", gives |-> <<>>, takes |-> I]]
  @@ [n \in DOMAIN WebImports |->
        [import |-> n, gives |-> WebImports[n][2], takes |-> WebImports[n][1]]]

(* An i64 where a string is expected is unpacked when it is marked, or when *)
(* the call has fewer arguments than the import has parameters.             *)
CallBuiltin(w, name, argCount) ==
  LET b == BuiltinMap[name]
      unpack == {i \in 1..Len(w.track) : \/ Len(b.takes) > argCount
                                         \/ i <= Len(w.ext) /\ w.ext[i] = "str"}
      call == Marshal(b.takes, w.track, unpack)
      ready == Emit(TypePop(w, Len(call.pops)), call.pops, call.leaves)
      called == Emit(ready, Imports[b.import][1], Imports[b.import][2])
  IN [TypeAppend(called, b.gives) EXCEPT !.calls = @ \cup {b.import}]

(* The loop that packs the rest of the arguments of a variadic function, n   *)
(* still to take: a string counts as two.  Result: the state, and how many   *)
(* values were packed.                                                       *)
TakeRest(w, n) ==
  LET Take(r, i) ==
        LET text == EndsIn(r.w.ext, <<"str", "str">>) /\ Top(r.w) = "i32"
        IN IF r.left <= 0 \/ r.w.track = <<>> THEN r
           ELSE [w |-> Then(r.w, IF text THEN <<Code(P, <<>>), Pop(2)>>
                                 ELSE <<Code(<<Top(r.w)>>, <<>>), Pop(1)>>),
                 left |-> r.left - (IF text THEN 2 ELSE 1), packed |-> r.packed + 1]
  IN FoldLeft(Take, [w |-> w, left |-> n, packed |-> 0], [i \in 1..n |-> i])
PackRest(w, n) ==
  LET rest == TakeRest(w, n)
      each == <<Code(<<>>, L), Note(L), Call("list_append")>>
  IN Then(rest.w, <<Call("list_new")>> \o FlattenSeq([i \in 1..rest.packed |-> each])
                    \o <<Mark(1, "list")>>)

(* A user's function: only the last argument is brought to its parameter's   *)
(* type.                                                                     *)
CallUser(w0, name, argCount) ==
  LET f == Functions[name]
      n == Len(f.params)
      variadic == n > 0 /\ Last(f.params) = "variadic"
      w == IF variadic /\ argCount >= n - 1 THEN PackRest(w0, argCount - (n - 1)) ELSE w0
      t == IF n > 0 THEN Last(f.params) ELSE "str"
      to == MapType(t)
      converts == /\ t # "str" /\ Top(w) # to
                  /\ <<Top(w), to>> \in {<<"i32", "i64">>, <<"i64", "i32">>, <<"f64", "i64">>,
                                         <<"i64", "f64">>}
      fit == IF converts THEN <<Code(<<Top(w)>>, <<to>>), Retype(1, to)>> ELSE <<>>
      takes == FlattenSeq([i \in 1..n |-> ValueOf(f.params[i])])
      gives == IF f.returns = "void" THEN <<>> ELSE ValueOf(f.returns)
      source == IF f.returns \in {"bool", "list", "set"} THEN f.returns ELSE "none"
  IN Then(w, fit \o <<Pop(Len(takes)), Code(takes, gives), Note(gives)>>
                 \o (IF f.returns = "void" THEN <<>> ELSE <<Source(source)>>))

---------------------------------------------------------------------------
(* The stack and control. *)

PopValue(w) ==
  IF w.track = <<>> THEN <<>>
  ELSE <<Pop(1), Drop>> \o
         (IF Nth(w.ext, 1) = "str" /\ Len(w.track) > 1 THEN <<Pop(1), Drop>> ELSE <<>>)

(* Only DUP emits code; the others reorder the tracked types.               *)
Shuffle(w, op) ==
  LET a == Nth(w.track, 3)  b == Nth(w.track, 2)  c == Nth(w.track, 1)
  IN CASE op = "DUP" -> <<Code(<<c>>, <<c, c>>), Note(<<c>>)>>
       [] op = "DUP2" -> <<Note(<<b, c>>)>>
       [] op = "SWAP" -> <<Pop(2), Note(<<c, b>>)>>
       [] op = "ROT" -> <<Pop(3), Note(<<b, c, a>>)>>
       [] op = "OVER" -> <<Note(<<b>>)>>

JumpIf(w) == TopToI32(w) \o <<Code(I, <<>>), Pop(1)>>
SwitchTable == <<Pop(1), Code(L, I), Code(I, <<>>)>>

(* A return leaves the tracked types as they are: the second branch for it,  *)
(* which clears them, comes after this one and is never reached.             *)
Return(w) == [w EXCEPT !.real = <<>>]
Raise(w, caught) == Then(w, (IF caught THEN <<>> ELSE Error) \o <<Reset>>)

Truth(w) ==
  CASE Top(w) \in {"i64", "f64"} -> <<Code(<<Top(w)>>, I), Pop(1), Note(I)>>
    [] OTHER -> <<>>
(* The message, a string or the i64 sentinel for none, lies below the       *)
(* condition; its marks are popped once more than its types.                *)
AssertTop(w) ==
  LET c == Then(w, Truth(w) \o <<Code(I, <<>>), Pop(1)>>)
  IN Then(c, CASE EndsIn(c.track, P) -> <<Code(P, <<>>), Pop(2), PopMarks(2)>>
               [] Top(c) = "i64" -> <<Drop, Pop(1), PopMarks(1)>>
               [] OTHER -> <<>>)
Exit(w) ==
  (IF Top(w) \in {"i64", "f64"} THEN <<Code(<<Top(w)>>, I), Retype(1, "i32")>> ELSE <<>>)
    \o <<Code(I, <<>>), Pop(1)>>
---------------------------------------------------------------------------
(* The dispatch.  An instruction f has an opcode, an argument and, for a    *)
(* call, the number of arguments; caught says whether a try around it       *)
(* catches what it raises.  An opcode no branch knows (POW, STR_EQ,         *)
(* LIST_NEW_F64, the dictionaries, ...) emits nothing.                      *)

Whole == {"LOAD2_ADD_I64", "LOAD2_MUL_I64", "LOAD2_DIV_I64", "LOAD2_DIV_F64", "LOAD2_CMP_LT",
          "LOAD2_CMP_GT", "DIV_F64", "ADD_STR", "CONTAINS", "LIST_SET", "STRUCT_NEW", "CALL",
          "ASSERT", "RETURN", "RETURN_VOID", "RAISE"}
Translated(w, f, caught) ==
  CASE f.op \in {"RETURN", "RETURN_VOID"} -> Return(w)
    [] f.op = "RAISE" -> Raise(w, caught)
    [] f.op = "DIV_F64" -> DivFloats(w)
    [] f.op = "ADD_STR" -> Concat(w)
    [] f.op = "CONTAINS" -> HasElement(w)
    [] f.op = "LIST_SET" -> ListSet(w)
    [] f.op = "STRUCT_NEW" -> StructNew(w)
    [] f.op = "ASSERT" -> AssertTop(w)
    [] f.op = "CALL" /\ f.arg \in DOMAIN BuiltinMap -> CallBuiltin(w, f.arg, f.count)
    [] f.op = "CALL" /\ f.arg \notin DOMAIN BuiltinMap -> CallUser(w, f.arg, f.count)
    [] OTHER -> Load2(w, f.op)

Steps(w, f, caught) ==
  LET op == f.op
      in(S) == op \in S
  IN CASE in({"ADD_CONST_I64", "ADD_CONST_F64", "ADD_F64", "ADD_I64"}) -> Add(w, op)
       [] in({"SUB_CONST_I64", "SUB_CONST_F64", "SUB_F64", "SUB_I64"}) -> Sub(w, op)
       [] in({"MUL_CONST_I64", "MUL_CONST_F64", "MUL_F64", "MUL_I64"}) -> Mul(w, op)
       [] in({"MOD_I64", "MOD_CONST_I64"}) -> Mod(w, op)
       [] in({"DIV_CONST_I64", "DIV_CONST_F64"}) -> DivConst(w, op, f.arg, caught)
       [] op = "DIV_I64" -> DivInts(w)
       [] in({"AND_I64", "OR_I64", "XOR_I64", "SHL_I64", "SHR_I64"}) -> Bits(w, op)
       [] in({"NEG", "CONST_BOOL", "CONST_F64", "CONST_I64", "CONST_STR"}) -> Constants(w, op)
       [] in({"CMP_EQ", "CMP_EQ_CONST"}) -> Equality(w, op)
       [] in({"CMP_NE", "CMP_NE_CONST"}) -> Inequality(w, op)
       [] in({"CMP_LT", "CMP_LE", "CMP_GT", "CMP_GE", "CMP_LT_CONST", "CMP_LE_CONST",
              "CMP_GT_CONST", "CMP_GE_CONST"}) -> Ordering(w, op)
       [] in({"AND", "OR"}) -> AndOr(w)
       [] op = "NOT" -> Not(w)
       [] in({"STR_UPPER", "STR_LOWER", "STR_STRIP", "STR_REPLACE", "STR_SPLIT", "STR_JOIN"}) ->
            Strings(op)
       [] op = "BUILTIN_LEN" -> Length(w)
       [] in({"BUILTIN_PRINT", "BUILTIN_PRINTLN"}) -> Printing(w, op)
       [] op = "BUILTIN_STR" -> AsString(w)
       [] in({"BUILTIN_SQRT", "BUILTIN_PI", "BUILTIN_ROUND", "BUILTIN_FLOOR", "BUILTIN_CEIL"}) ->
            Rounding(op)
       [] in({"TO_INT", "TO_FLOAT", "TO_BOOL"}) -> Convert(w, op)
       [] in({"ENCODE", "DECODE"}) -> Encoding(w, op)
       [] in({"FORK", "WAIT"}) -> Processes(w, op)
       [] in({"SET_NEW", "SET_ADD", "SET_REMOVE", "SET_CONTAINS"}) -> Sets(w, op)
       [] in({"LIST_NEW", "LIST_NEW_I64", "LIST_NEW_STR"}) -> NewList(op)
       [] op = "LIST_APPEND" -> ListAppend(w)
       [] op = "LIST_GET" -> ListGet(w)
       [] op = "LIST_POP" -> ListPop(w)
       [] op = "STRUCT_GET" -> StructGet(w, Fields[f.arg])
       [] op = "STRUCT_SET" -> StructSet(w, Fields[f.arg])
       [] op = "LOAD" -> Load(LocalTypes[f.arg])
       [] op = "STORE" -> Store(w, LocalTypes[f.arg])
       [] in({"STORE_CONST_I64", "STORE_CONST_F64", "STORE_CONST_BOOL", "STORE_CONST_STR"}) ->
            StoreConst(op, LocalTypes[f.arg])
       [] op = "FUSED_LOAD_STORE" -> FusedLoadStore(LocalTypes[f.arg])
       [] in({"INC_LOCAL", "DEC_LOCAL"}) -> StepLocal(LocalTypes[f.arg])
       [] op = "LOAD_GLOBAL" -> LoadGlobal(LocalTypes[f.arg])
       [] op = "STORE_GLOBAL" -> StoreGlobal(w, LocalTypes[f.arg])
       [] op = "POP" -> PopValue(w)
       [] in({"DUP", "DUP2", "SWAP", "ROT", "OVER"}) -> Shuffle(w, op)
       [] in({"JUMP_IF_TRUE", "JUMP_IF_FALSE"}) -> JumpIf(w)
       [] op = "SWITCH_JUMP_TABLE" -> SwitchTable
       [] op = "EXIT" -> Exit(w)
       [] OTHER -> <<>>

Translate(w, f, caught) ==
  IF f.op \in Whole THEN Translated(w, f, caught) ELSE Then(w, Steps(w, f, caught))
=============================================================================
