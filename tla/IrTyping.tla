------------------------------ MODULE IrTyping ------------------------------
(***************************************************************************)
(* _translate_instruction of the IR builder, as far as types go: the       *)
(* operand stack it keeps while it walks the bytecode, by the type of each *)
(* value.  The type picks the machine instruction, the runtime function    *)
(* and the register class of everything derived from the value.  IrBuilder *)
(* models the values themselves, for integer programs.                     *)
(*                                                                         *)
(* A type is a sequence: <<"INT64">>, ..., <<"LIST">> \o element type.     *)
(***************************************************************************)
EXTENDS Integers, Sequences, FiniteSets

CONSTANTS
  IrFields,     \* [field index -> type] of the one struct
  IrLocals,     \* [kind -> type of the local of that kind]
  IrReturns     \* [function -> type, or <<"VOID">>]

Int64 == <<"INT64">>
Float64 == <<"FLOAT64">>
Bool == <<"BOOL">>
String == <<"STRING">>
Struct == <<"STRUCT">>
Set == <<"SET">>
ListOf(t) == <<"LIST">> \o t
Void == <<"VOID">>
IsList(t) == t # <<>> /\ Head(t) = "LIST"

(* _pop: the empty stack yields an integer constant. *)
Operand(s, i) == IF Len(s) >= i THEN s[Len(s) + 1 - i] ELSE Int64
Dropped(s, n) == SubSeq(s, 1, Len(s) - n)

(* An instruction that pops n operands; a result is pushed unless void.     *)
Result(s, n, t) == IF t = Void THEN Dropped(s, n) ELSE Append(Dropped(s, n), t)

---------------------------------------------------------------------------
(* Constants, arithmetic and comparisons. *)

IrConstants ==
  [CONST_I64 |-> Int64, CONST_F64 |-> Float64, CONST_BOOL |-> Bool, CONST_STR |-> String,
   CONST_BYTES |-> String]

IntArithmetic == {"ADD_I64", "SUB_I64", "MUL_I64", "DIV_I64", "MOD_I64", "AND_I64", "OR_I64",
                  "XOR_I64", "SHL_I64", "SHR_I64"}
FloatArithmetic == {"ADD_F64", "SUB_F64", "MUL_F64", "DIV_F64"}
IntConstants == {"ADD_CONST_I64", "SUB_CONST_I64", "MUL_CONST_I64", "DIV_CONST_I64",
                 "MOD_CONST_I64"}
FloatConstants == {"ADD_CONST_F64", "SUB_CONST_F64", "MUL_CONST_F64", "DIV_CONST_F64"}

(* Of the integer opcodes only those with a constant look at their operand. *)
Arithmetic(s, op) == Result(s, 2, IF op \in FloatArithmetic THEN Float64 ELSE Int64)
ConstArithmetic(s, op) ==
  Result(s, 1, IF op \in IntConstants /\ Operand(s, 1) # Float64 THEN Int64 ELSE Float64)

Load2Arithmetic ==
  [LOAD2_ADD_I64 |-> Int64, LOAD2_SUB_I64 |-> Int64, LOAD2_MUL_I64 |-> Int64,
   LOAD2_DIV_I64 |-> Int64, LOAD2_MOD_I64 |-> Int64, LOAD2_ADD_F64 |-> Float64,
   LOAD2_SUB_F64 |-> Float64, LOAD2_MUL_F64 |-> Float64, LOAD2_DIV_F64 |-> Float64,
   LOAD2_AND_I64 |-> Bool, LOAD2_OR_I64 |-> Bool, LOAD2_XOR_I64 |-> Int64,
   LOAD2_SHL_I64 |-> Int64, LOAD2_SHR_I64 |-> Int64]

Math1 == [BUILTIN_SQRT |-> Float64, BUILTIN_SIN |-> Float64, BUILTIN_COS |-> Float64,
          BUILTIN_TAN |-> Float64, BUILTIN_ABS |-> Int64, BUILTIN_FLOOR |-> Int64,
          BUILTIN_CEIL |-> Int64, BUILTIN_ROUND |-> Float64, BUILTIN_MIN |-> Int64,
          BUILTIN_MAX |-> Int64, BUILTIN_POW |-> Float64]
Math2 == [MIN |-> Int64, MAX |-> Int64, POW |-> Float64]

Conversion == [TO_INT |-> Int64, TO_FLOAT |-> Float64, TO_BOOL |-> Bool, BUILTIN_STR |-> String,
               NOT |-> Bool]

---------------------------------------------------------------------------
(* Builtins called with a fixed number of operands. *)

StringCalls ==
  [ADD_STR |-> <<2, String>>, STR_EQ |-> <<2, Bool>>, MUL_STR |-> <<2, String>>,
   ENCODE |-> <<2, String>>, DECODE |-> <<2, String>>, STR_STRIP |-> <<1, String>>,
   STR_LOWER |-> <<1, String>>, STR_UPPER |-> <<1, String>>, STR_REPLACE |-> <<3, String>>,
   STR_SPLIT |-> <<2, ListOf(String)>>, STR_JOIN |-> <<2, String>>]

FileCalls ==
  [FILE_OPEN |-> <<2, Int64>>, FILE_WRITE |-> <<2, Int64>>, FILE_READ |-> <<2, String>>,
   FILE_CLOSE |-> <<1, Void>>, FILE_EXISTS |-> <<1, Bool>>, FILE_ISFILE |-> <<1, Bool>>,
   FILE_ISDIR |-> <<1, Bool>>, FILE_LISTDIR |-> <<1, ListOf(String)>>, FILE_MKDIR |-> <<1, Void>>,
   FILE_MAKEDIRS |-> <<1, Void>>, FILE_REMOVE |-> <<1, Void>>, FILE_RMDIR |-> <<1, Void>>,
   FILE_RENAME |-> <<2, Void>>, FILE_GETSIZE |-> <<1, Int64>>, FILE_GETCWD |-> <<0, String>>,
   FILE_CHDIR |-> <<1, Void>>, FILE_ABSPATH |-> <<1, String>>, FILE_BASENAME |-> <<1, String>>,
   FILE_DIRNAME |-> <<1, String>>, FILE_JOIN |-> <<1, String>>]

SocketCalls ==
  [SOCKET_CREATE |-> <<2, Int64>>, SOCKET_CONNECT |-> <<3, Void>>, SOCKET_BIND |-> <<3, Void>>,
   SOCKET_LISTEN |-> <<2, Void>>, SOCKET_ACCEPT |-> <<1, Int64>>, SOCKET_SEND |-> <<2, Int64>>,
   SOCKET_SENDALL |-> <<2, Void>>, SOCKET_RECV |-> <<2, String>>, SOCKET_CLOSE |-> <<1, Void>>,
   SOCKET_SETSOCKOPT |-> <<4, Void>>]

Statements ==   \* and the calls of the runtime that return nothing
  [BUILTIN_PRINT |-> <<1, Void>>, BUILTIN_PRINTLN |-> <<1, Void>>, ASSERT |-> <<2, Void>>,
   EXIT |-> <<1, Void>>, SLEEP |-> <<1, Void>>, LIST_PRINT |-> <<1, Void>>,
   SET_PRINT |-> <<1, Void>>, STORE |-> <<1, Void>>, STORE_GLOBAL |-> <<1, Void>>,
   POP |-> <<1, Void>>, JUMP_IF_TRUE |-> <<1, Void>>, JUMP_IF_FALSE |-> <<1, Void>>,
   DEREF_SET |-> <<2, Void>>]

Processes2 == [FORK |-> <<0, Int64>>, JOIN |-> <<1, Int64>>, WAIT |-> <<0, Void>>,
               GETPID |-> <<0, Int64>>]

(* Sets and dictionaries; a set or dictionary that is changed is pushed back. *)
SetCalls ==
  [SET_NEW |-> <<0, Set>>, SET_CONTAINS |-> <<2, Bool>>, SET_LEN |-> <<1, Int64>>,
   SET_ADD |-> <<1, Void>>, SET_REMOVE |-> <<1, Void>>]
DictCalls ==
  [DICT_NEW |-> <<0, Int64>>, DICT_GET |-> <<2, Int64>>, DICT_CONTAINS |-> <<2, Bool>>,
   DICT_SET |-> <<2, Void>>]

OtherCalls ==
  [BUILTIN_LEN |-> <<1, Int64>>, LIST_LEN |-> <<1, Int64>>, BUILTIN_PI |-> <<0, Float64>>,
   CONTAINS |-> <<2, Bool>>, SELECT |-> <<3, Int64>>]

FixedCalls ==
  LET tables == {StringCalls, FileCalls, SocketCalls, Statements, Processes2, SetCalls, DictCalls,
                 OtherCalls}
  IN [op \in UNION {DOMAIN t : t \in tables} |-> (CHOOSE t \in tables : op \in DOMAIN t)[op]]

---------------------------------------------------------------------------
(* Lists.  A list of integers that receives something else becomes a list   *)
(* of that: the value's type is changed in place.                           *)

NewLists ==
  [LIST_NEW |-> Int64, LIST_NEW_I64 |-> Int64, LIST_NEW_F64 |-> Float64, LIST_NEW_STR |-> String,
   LIST_NEW_BOOL |-> Bool]
Receive(list, value) == IF list = ListOf(Int64) /\ value # Int64 THEN ListOf(value) ELSE list

IrListAppend(s) == Append(Dropped(s, 2), Receive(Operand(s, 2), Operand(s, 1)))
IrListGet(s) ==
  LET list == Operand(s, 2)
  IN Result(s, 2, CASE IsList(list) -> Tail(list) [] list = String -> String [] OTHER -> Int64)
IrListSet(s) == Append(Dropped(s, 3), Receive(Operand(s, 3), Operand(s, 1)))
IrListPop(s) ==
  LET list == Operand(s, 1)
  IN Dropped(s, 1) \o <<list, IF IsList(list) THEN Tail(list) ELSE Int64>>

---------------------------------------------------------------------------
(* Structures and references to their fields and elements. *)

FieldType(s, index) == IF Operand(s, 1) = Struct THEN IrFields[index] ELSE Int64
IrStructGet(s, index) == Result(s, 1, FieldType(s, index))
IrStructSet(s) == Append(Dropped(s, 2), Operand(s, 2))

(* A mutant of IrStructNew: the fields are taken until the stack is empty.   *)
StructTakesAll(s) == <<Struct>>

IrStructNew(s) == Result(s, Cardinality(DOMAIN IrFields), Struct)

AddrField(s, index) == Result(s, 1, <<"PTR">> \o FieldType(s, index))
AddrElem(s) ==
  Result(s, 2, <<"PTR">> \o (IF IsList(Operand(s, 2)) THEN Tail(Operand(s, 2)) ELSE Int64))
Deref(s) ==
  LET p == Operand(s, 1) IN Result(s, 1, IF Head(p) = "PTR" THEN Tail(p) ELSE Int64)
AddrLocal(s, kind) == Append(s, <<"PTR">> \o IrLocals[kind])

IrShuffle(s, op) ==
  LET b == Operand(s, 2)  c == Operand(s, 1)
  IN IF op = "DUP" THEN Append(s, c) ELSE Dropped(s, 2) \o <<c, b>>

---------------------------------------------------------------------------
(* The dispatch.  An opcode no branch knows becomes a call of a runtime     *)
(* function of its name, with at most two operands and an integer result.   *)

IrTranslate(s, f) ==
  LET op == f.op
  IN CASE op \in DOMAIN IrConstants -> Append(s, IrConstants[op])
       [] op \in IntArithmetic \cup FloatArithmetic -> Arithmetic(s, op)
       [] op \in IntConstants \cup FloatConstants -> ConstArithmetic(s, op)
       [] op \in DOMAIN Math1 -> Result(s, 1, Math1[op])
       [] op \in DOMAIN Math2 -> Result(s, 2, Math2[op])
       [] op = "NEG" -> Result(s, 1, IF Operand(s, 1) = Float64 THEN Float64 ELSE Int64)
       [] op \in DOMAIN Conversion -> Result(s, 1, Conversion[op])
       [] op \in {"CMP_EQ", "CMP_NE", "CMP_LT", "CMP_LE", "CMP_GT", "CMP_GE", "AND", "OR"} ->
            Result(s, 2, Bool)
       [] op \in {"CMP_EQ_CONST", "CMP_NE_CONST", "CMP_LT_CONST", "CMP_LE_CONST", "CMP_GT_CONST",
                  "CMP_GE_CONST"} -> Result(s, 1, Bool)
       [] op \in DOMAIN FixedCalls -> Result(s, FixedCalls[op][1], FixedCalls[op][2])
       [] op \in DOMAIN NewLists -> Append(s, ListOf(NewLists[op]))
       [] op = "LIST_APPEND" -> IrListAppend(s)
       [] op = "LIST_GET" -> IrListGet(s)
       [] op = "LIST_SET" -> IrListSet(s)
       [] op = "LIST_POP" -> IrListPop(s)
       [] op = "STRUCT_NEW" -> IrStructNew(s)
       [] op = "STRUCT_GET" -> IrStructGet(s, f.arg)
       [] op = "STRUCT_SET" -> IrStructSet(s)
       [] op \in {"LOAD", "LOAD_GLOBAL", "FUSED_LOAD_STORE"} -> Append(s, IrLocals[f.arg])
       [] op \in {"STORE_CONST_I64", "STORE_CONST_F64", "STORE_CONST_BOOL", "STORE_CONST_STR",
                  "INC_LOCAL", "DEC_LOCAL"} -> s
       [] op \in DOMAIN Load2Arithmetic -> Append(s, Load2Arithmetic[op])
       [] op \in {"LOAD2_CMP_LT", "LOAD2_CMP_GT"} -> Append(s, Bool)
       [] op = "CALL" -> Result(s, f.count, IrReturns[f.arg])
       [] op \in {"DUP", "SWAP"} -> IrShuffle(s, op)
       [] op = "ADDR_FIELD" -> AddrField(s, f.arg)
       [] op = "ADDR_ELEM" -> AddrElem(s)
       [] op = "ADDR_LOCAL" -> AddrLocal(s, f.arg)
       [] op = "DEREF" -> Deref(s)
       [] op \in {"RETURN", "RETURN_VOID", "RAISE"} -> <<>>
       [] OTHER -> Result(s, IF Len(s) < 2 THEN Len(s) ELSE 2, Int64)

(* How many operands the branch for f looks at or pops; for an opcode no    *)
(* branch knows the most it may take.                                       *)
IrArity(f) ==
  CASE f.op \in DOMAIN FixedCalls -> FixedCalls[f.op][1]
    [] f.op = "CALL" -> f.count
    [] f.op = "STRUCT_NEW" -> Cardinality(DOMAIN IrFields)
    [] f.op \in DOMAIN IrConstants \cup DOMAIN NewLists \cup DOMAIN Load2Arithmetic
                 \cup {"LOAD", "LOAD_GLOBAL", "FUSED_LOAD_STORE", "STORE_CONST_I64",
                      "STORE_CONST_F64", "STORE_CONST_BOOL", "STORE_CONST_STR", "INC_LOCAL",
                      "DEC_LOCAL", "LOAD2_CMP_LT", "LOAD2_CMP_GT", "ADDR_LOCAL"} -> 0
    [] f.op \in IntConstants \cup FloatConstants \cup DOMAIN Math1 \cup DOMAIN Conversion
                 \cup {"NEG", "CMP_EQ_CONST", "CMP_NE_CONST", "CMP_LT_CONST", "CMP_LE_CONST",
                      "CMP_GT_CONST", "CMP_GE_CONST", "LIST_POP", "STRUCT_GET", "DUP",
                      "ADDR_FIELD", "DEREF"} -> 1
    [] f.op = "LIST_SET" -> 3
    [] OTHER -> 2
=============================================================================
