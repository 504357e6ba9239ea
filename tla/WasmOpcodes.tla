---------------------------- MODULE WasmOpcodes ----------------------------
(***************************************************************************)
(* _compile_instruction: the translation of each bytecode instruction, as  *)
(* the elementary steps of WasmStack, chosen from the tracked types.       *)
(*                                                                         *)
(* An instruction is a record with its opcode op and its argument arg: the *)
(* kind of the local or global it names, the index of a field, the name of *)
(* a function.  Constants, addresses, indentation and comments are left    *)
(* out: no choice depends on them.                                         *)
(***************************************************************************)
EXTENDS WasmStack

CONSTANTS
  Fields,      \* the declared field types of the one struct, by field index "0", "1", ...
  LocalTypes,  \* the declared type of the local (and of the global) of each kind
  Functions    \* [name -> [params |-> declared types, returns |-> declared type]]

(* _map_type_to_wasm *)
MapType(t) ==
  CASE t \in {"i32", "i64", "f64"} -> t
    [] t \in {"str", "bool", "list", "set", "int", "variadic", "struct:0"} -> "i32"
    [] OTHER -> "i64"

ValueOf(t) == IF t = "str" THEN P ELSE <<MapType(t)>>   \* a value of declared type t

---------------------------------------------------------------------------
(* Arithmetic. *)

Top(w) == Nth(w.track, 1)
Second(w) == Nth(w.track, 2)

(* if len(type_stack) >= n: pop n;  type_stack.append(t) *)
Shrink(w, n, t) == (IF Len(w.track) >= n THEN <<Pop(n)>> ELSE <<>>) \o <<Note(<<t>>)>>

IntConst(w) == LET t == IF Top(w) = "f64" THEN F ELSE L IN <<Code(t, t), Pop(1), Note(t)>>
FloatConst(w) ==
  (IF Top(w) = "i64" THEN <<Code(L, F), Retype(1, "f64")>> ELSE <<>>)
    \o <<Code(F, F), Pop(1), Note(F)>>
IntPair(w) == BothTo(w, "f64", "i64") \o <<Code(L \o L, L)>> \o Shrink(w, 2, "i64")
FloatPair(w) == BothTo(w, "i64", "f64") \o <<Code(F \o F, F)>> \o Shrink(w, 2, "f64")

Add(w, op) ==
  CASE op = "ADD_CONST_I64" -> IntConst(w)
    [] op = "ADD_CONST_F64" -> FloatConst(w)
    [] op = "ADD_F64" -> <<Code(F \o F, F)>> \o Shrink(w, 2, "f64")
    [] op = "ADD_I64" -> IntPair(w)
Sub(w, op) ==
  CASE op = "SUB_CONST_I64" -> IntConst(w)
    [] op = "SUB_CONST_F64" -> FloatConst(w)
    [] op = "SUB_F64" -> FloatPair(w)
    [] op = "SUB_I64" -> IntPair(w)
Mul(w, op) ==
  CASE op = "MUL_CONST_I64" -> IntConst(w)
    [] op = "MUL_CONST_F64" -> FloatConst(w)
    [] op = "MUL_F64" -> FloatPair(w)
    [] op = "MUL_I64" -> IntPair(w)
Mod(w, op) ==
  IF op = "MOD_I64" THEN IntPair(w)
  ELSE (IF Top(w) = "f64" THEN <<Code(F, L), Retype(1, "i64")>> ELSE <<>>)
         \o <<Code(L, L), Pop(1), Note(L)>>

(* Division.  A constant zero divisor raises at once: to the handler of the *)
(* innermost try that catches it, else through runtime_error.               *)
Error == <<Code(<<>>, P \o P \o P), Code(P \o P \o P, <<>>)>>   \* call $runtime_error
DivConst(w, op, arg, caught) ==
  CASE op = "DIV_CONST_F64" /\ arg = "zero" /\ caught -> <<Drop, Pop(1), Reset>>
    [] op = "DIV_CONST_F64" /\ arg = "zero" /\ ~caught ->
         <<Drop, Pop(1)>> \o Error \o <<Code(<<>>, F), Note(F)>>
    [] op = "DIV_CONST_F64" /\ arg # "zero" -> FloatConst(w)
    [] op = "DIV_CONST_I64" -> FloatConst(w)
(* A float divisor is compared with zero first, both operands parked.       *)
DivFloats(w) ==
  LET c == Then(w, BothTo(w, "i64", "f64"))
      guard == IF EndsIn(c.track, F \o F)
               THEN <<Code(F \o F, <<>>), Pop(2), Code(<<>>, F \o F), Note(F \o F)>> ELSE <<>>
  IN Then(c, guard \o <<Code(F \o F, F)>> \o Shrink(w, 2, "f64"))
DivInts(w) == BothTo(w, "i64", "f64") \o <<Code(F \o F, F)>> \o Shrink(w, 2, "f64")

Bits(w, op) ==
  <<Code(L \o L, L)>> \o Shrink(w, 2, IF op \in {"SHL_I64", "SHR_I64"} THEN "i32" ELSE "i64")

Constants(w, op) ==
  CASE op = "NEG" -> IF Top(w) \in {"i64", "f64"} THEN <<Code(<<Top(w)>>, <<Top(w)>>)>> ELSE <<>>
    [] op = "CONST_BOOL" -> <<Code(<<>>, I), Note(I)>>
    [] op = "CONST_F64" -> <<Code(<<>>, F), Note(F)>>
    [] op = "CONST_I64" -> <<Code(<<>>, L), Note(L)>>
    [] op = "CONST_STR" -> <<Code(<<>>, P), Note(P)>> \o MarkString

---------------------------------------------------------------------------
(* Comparisons and logic. *)

Compare(w) ==
  (IF Len(w.track) >= 2 /\ "f64" \in {Top(w), Second(w)}
   THEN BothTo(w, "i64", "f64") \o <<Code(F \o F, I)>> ELSE <<Code(L \o L, I)>>)
    \o Shrink(w, 2, "i32")
CompareConst(w) ==
  LET t == IF Top(w) = "f64" THEN F ELSE L IN <<Code(t, I), Pop(1), Note(I)>>
Equality(w, op) ==
  (IF op = "CMP_EQ" THEN Compare(w) ELSE CompareConst(w)) \o <<Source("bool")>>
Ordering(w, op) ==
  IF op \in {"CMP_GE", "CMP_GT", "CMP_LT", "CMP_LE"} THEN Compare(w) ELSE CompareConst(w)
Inequality(w, op) == IF op = "CMP_NE" THEN Compare(w) ELSE CompareConst(w)
AndOr(w) ==
  (IF EndsIn(w.track, L \o L) THEN <<Code(L \o L, P), Retype(1, "i32"), Retype(2, "i32")>>
                              ELSE <<>>) \o <<Code(P, I)>> \o Shrink(w, 2, "i32")
Not(w) == TopToI32(w) \o <<Code(I, I), Pop(1), Note(I)>>

---------------------------------------------------------------------------
(* Strings. *)

(* After _emit_call has replaced the operands by the result, four entries   *)
(* are popped again and the result is noted once more.                      *)
Concat(w) ==
  LET c == Then(BothToText(w), <<Call("str_concat")>>)
  IN Then(c, (IF Len(c.track) >= 4 THEN <<Pop(4)>> ELSE <<>>) \o <<Note(P)>> \o MarkString)

Strings(op) ==
  CASE op = "STR_UPPER" -> <<Call("str_upper")>> \o MarkString
    [] op = "STR_LOWER" -> <<Call("str_lower")>> \o MarkString
    [] op = "STR_STRIP" -> <<Call("str_strip")>> \o MarkString
    [] op = "STR_REPLACE" -> <<Call("str_replace")>> \o MarkString
    [] op = "STR_SPLIT" -> <<Call("str_split"), Source("list")>>
    [] op = "STR_JOIN" -> <<Call("str_join")>> \o MarkString

(* BUILTIN_LEN: a tracked container first, then a pair of i32s as a string. *)
Length(w) ==
  LET ofContainer == TopToI32(w) \o
        <<Call(IF w.last = "set" THEN "set_len" ELSE "list_len"), Source("none")>>
  IN IF EndsIn(w.track, P) /\ w.last \notin {"list", "set"}
     THEN <<Code(P, L), Pop(2), Note(L), Source("none")>> ELSE ofContainer

(* The conversion of an i32 that is no string, by its remembered source.    *)
Shown(w) ==
  CASE w.last = "list" -> <<Call("list_to_str"), Source("none")>>
    [] w.last = "set" -> <<Call("set_to_str"), Source("none")>>
    [] OTHER -> <<Call("bool_to_str"), Source("none")>>
Printing(w, op) ==
  LET text == CASE EndsIn(w.track, P) -> <<>>
                [] Top(w) = "i64" -> <<Call("i64_to_str")>>
                [] Top(w) = "f64" -> <<Call("f64_to_str")>>
                [] OTHER -> Shown(w)
  IN IF op = "BUILTIN_PRINTLN" THEN text \o <<Call("println")>>
     ELSE LET p == Then(w, <<Call("print")>>)    \* and two more entries if there are
          IN <<Call("print")>> \o (IF Len(p.track) >= 2 THEN <<Pop(2)>> ELSE <<>>)

(* BUILTIN_STR notes its result again after _emit_call has.                 *)
AsString(w) ==
  LET again == <<Note(P)>> \o MarkString
  IN CASE EndsIn(w.track, P) /\ w.last = "none" -> <<>>
       [] Top(w) = "i64" -> <<Call("i64_to_str")>> \o again
       [] Top(w) = "f64" -> <<Call("f64_to_str")>> \o again
       [] OTHER -> Shown(w) \o again

Rounding(op) ==
  CASE op = "BUILTIN_SQRT" -> <<Call("sqrt")>>
    [] op = "BUILTIN_PI" -> <<Code(<<>>, F), Note(F)>>
    [] op = "BUILTIN_ROUND" -> <<Call("round_f64"), Code(F, L), Pop(1), Note(L)>>
    [] op = "BUILTIN_FLOOR" -> <<Call("floor_f64")>>
    [] op = "BUILTIN_CEIL" -> <<Call("ceil_f64")>>

Convert(w, op) ==
  LET t == Top(w)
      to(ins, out) == <<Code(ins, <<out>>), Retype(1, out)>>
  IN CASE op = "TO_INT" /\ EndsIn(w.track, P) -> <<Call("str_to_i64")>>
       [] op = "TO_INT" /\ t = "f64" -> to(F, "i64")
       [] op = "TO_INT" /\ t = "i32" /\ ~EndsIn(w.track, P) -> to(I, "i64")
       [] op = "TO_FLOAT" /\ EndsIn(w.track, P) -> <<Call("str_to_f64")>>
       [] op = "TO_FLOAT" /\ t = "i64" -> to(L, "f64")
       [] op = "TO_FLOAT" /\ t = "i32" /\ ~EndsIn(w.track, P) -> to(I, "f64")
       [] op = "TO_BOOL" /\ EndsIn(w.track, P) -> <<Code(P, I), Pop(2), Note(I)>>
       [] op = "TO_BOOL" /\ t \in {"i64", "f64"} -> to(<<t>>, "i32")
       [] OTHER -> <<>>

(* The encoding is dropped, and two marks more than the two types.          *)
Encoding(w, op) ==
  (IF Len(w.track) >= 4 THEN <<Drop, Drop, Pop(2), PopMarks(2)>> ELSE <<>>)
    \o (IF op = "DECODE" THEN <<PadMarks>> \o MarkString ELSE <<>>)

Processes(w, op) ==
  IF op = "FORK" THEN <<Code(<<>>, L), Note(L)>>
  ELSE (IF Top(w) = "i32" THEN <<Code(I, L), Retype(1, "i64")>> ELSE <<>>)
         \o <<Code(L, L), Pop(1), Note(L)>>
=============================================================================
