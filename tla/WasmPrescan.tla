---------------------------- MODULE WasmPrescan ----------------------------
(***************************************************************************)
(* _compile_function of the WebAssembly back end, before any code is       *)
(* emitted: a scan of the bytecode that follows the types on the operand   *)
(* stack roughly, to learn what the locals hold, and the declaration of    *)
(* the locals from it.                                                     *)
(*                                                                         *)
(* A scan is a record:                                                     *)
(*   sim      type_stack_sim       marks  value_type_tracker, by position; *)
(*            an entry outlives the value it was made for                  *)
(*   inferred local_inferred_types, "none" where there is no entry         *)
(*   consts   explicit_const_locals                                        *)
(* Late locals are those whose index is not a key of the table of declared *)
(* locals: the index counts the parameters, the keys of the table do not,  *)
(* so in a function with n parameters the last n locals are late.          *)
(***************************************************************************)
EXTENDS Integers, Sequences, FiniteSets, TLC

CONSTANTS
  Kinds,        \* there is one local of each kind
  Declared,     \* [kind -> type in the .local line]
  Late,         \* the kinds whose local is late
  StructTypes,  \* [field index -> declared type] of the one struct
  Callees,      \* [function -> [params |-> number, gives |-> types, text |-> a string]]
  MAX_SIM       \* positions the scan is followed to

NoScan == [sim |-> <<>>, marks |-> [i \in 1..MAX_SIM |-> "none"],
           inferred |-> [k \in Kinds |-> "none"], consts |-> {}]

Less(a, b) == IF a < b THEN a ELSE b
At(g, i) == IF Len(g.sim) >= i THEN g.sim[Len(g.sim) + 1 - i] ELSE "none"
MarkAt(g, i) == IF Len(g.sim) >= i THEN g.marks[Len(g.sim) + 1 - i] ELSE "none"
Discard(g, n) == [g EXCEPT !.sim = SubSeq(@, 1, Len(@) - Less(n, Len(@)))]
Need(g, n) == IF Len(g.sim) >= n THEN Discard(g, n) ELSE g    \* pops all or none
Push1(g, t) == [g EXCEPT !.sim = Append(@, t)]
PushMarked(g, m) == [Push1(g, "i32") EXCEPT !.marks[Len(g.sim) + 1] = m]
PushText(g) == PushMarked(PushMarked(g, "str"), "str")
Pair(g) == At(g, 1) = "i32" /\ At(g, 2) = "i32"
Text(g) == Pair(g) /\ MarkAt(g, 1) = "str"

---------------------------------------------------------------------------
(* One operator per group of branches of the scan. *)

ScanStruct(g, op, field) ==
  LET known == MarkAt(g, 1) = "struct:0"
      p == Discard(g, 1)
      t == StructTypes[field]
  IN CASE op = "STRUCT_NEW" -> PushMarked(Discard(g, Cardinality(DOMAIN StructTypes)), "struct:0")
       [] op = "STRUCT_GET" /\ known /\ t = "str" -> PushText(p)
       [] op = "STRUCT_GET" /\ ~(known /\ t = "str") ->
            Push1(p, CASE known /\ t = "float" -> "f64" [] known /\ t = "bool" -> "i32"
                       [] OTHER -> "i64")
       [] op = "STRUCT_SET" -> Push1(Need(g, 2), "i32")

ScanConst(g, op) ==
  CASE op = "CONST_STR" -> PushText(g)
    [] op = "CONST_I64" -> Push1(g, "i64")
    [] op = "CONST_F64" -> Push1(g, "f64")
    [] op \in {"FORK", "LIST_LEN"} -> Push1(g, "i64")
    [] op \in {"LOAD2_ADD_I64", "LOAD2_MUL_I64"} -> Push1(g, "i64")
    [] op \in {"LOAD2_DIV_I64", "LOAD2_DIV_F64"} -> Push1(g, "f64")
    [] op \in {"LOAD2_CMP_LT", "LOAD2_CMP_GT"} -> Push1(g, "i32")

PushLocal(g, t) == IF t = "str" THEN PushText(g) ELSE Push1(g, t)
ScanLoad(g, k) == PushLocal(g, IF g.inferred[k] = "none" THEN "i64" ELSE g.inferred[k])

(* A mutant of ScanStore: every local learns from the scan, declared or not. *)
StoreLearns(g, k) ==
  CASE g.sim = <<>> -> g
    [] Text(g) -> [Discard(g, 2) EXCEPT !.inferred[k] = IF k \in g.consts THEN @ ELSE "str"]
    [] OTHER -> [Discard(g, 1) EXCEPT !.inferred[k] = IF k \in g.consts THEN @ ELSE At(g, 1)]

(* A pair whose upper position is marked is a string, whoever declared the  *)
(* local; otherwise only a late local gets the type on top.                 *)
ScanStore(g, k) ==
  LET learns == k \notin g.consts
  IN CASE g.sim = <<>> -> g
       [] Text(g) -> [Discard(g, 2) EXCEPT !.inferred[k] = IF learns THEN "str" ELSE @]
       [] OTHER -> [Discard(g, 1) EXCEPT !.inferred[k] = IF learns /\ k \in Late THEN At(g, 1) ELSE @]
ScanStoreConst(g, op, k) ==
  LET t == CASE op = "STORE_CONST_I64" -> "i64" [] op = "STORE_CONST_F64" -> "f64"
             [] op = "STORE_CONST_BOOL" -> "i32"
  IN [g EXCEPT !.inferred[k] = t, !.consts = @ \cup {k}]

ScanList(g, op) ==
  CASE op \in {"LIST_NEW", "LIST_NEW_I64", "LIST_NEW_STR"} -> PushMarked(g, "list")
    [] op = "LIST_APPEND" -> PushMarked(Need(g, 2), "list")
    [] op = "LIST_SET" -> Push1(Need(g, 3), "i32")
    [] op = "LIST_POP" -> Push1(Push1(Discard(g, 1), "i32"), "i64")
    [] op = "LIST_GET" /\ MarkAt(g, 3) = "str" -> PushText(Discard(g, 3))
    [] op = "LIST_GET" /\ MarkAt(g, 3) # "str" -> Push1(g, "i64")   \* nothing popped

ScanSet(g, op) ==
  LET packed == IF Text(g) /\ Len(g.sim) >= 3 THEN Push1(Discard(g, 2), "i64") ELSE g
  IN CASE op = "SET_NEW" -> PushMarked(g, "set")
       [] op \in {"SET_ADD", "SET_REMOVE"} -> PushMarked(Need(packed, 2), "set")
       [] op = "SET_CONTAINS" -> PushMarked(Need(packed, 2), "bool")
       [] op = "CONTAINS" ->
            PushMarked(Need(g, IF \A i \in 1..4 : At(g, i) = "i32" THEN 4 ELSE 2), "bool")

ScanText(g, op) ==
  CASE op = "STR_SPLIT" -> PushMarked(Discard(g, 4), "list")
    [] op = "STR_JOIN" -> PushText(Discard(g, 3))
    [] op = "ADD_STR" -> PushText(Discard(g, 4))
    [] op = "BUILTIN_LEN" -> Push1(Discard(g, IF Pair(g) THEN 2 ELSE 1), "i64")
    [] op = "BUILTIN_STR" -> IF Pair(g) \/ g.sim = <<>> THEN g ELSE PushText(Discard(g, 1))

ScanConvert(g, op) ==
  LET to == IF op = "TO_INT" THEN "i64" ELSE "f64"
      from == IF op = "TO_INT" THEN "f64" ELSE "i64"
  IN CASE op = "TO_BOOL" -> PushMarked(Discard(g, 1), "bool")
       [] op # "TO_BOOL" /\ At(g, 1) = from -> Push1(Discard(g, 1), to)
       [] op # "TO_BOOL" /\ Pair(g) -> Push1(Discard(g, 2), to)
       [] OTHER -> g

ScanCompare(g, op) ==
  LET n == CASE op \in {"CMP_LT_CONST", "CMP_EQ_CONST", "NOT"} -> 1
             [] op = "CMP_EQ" -> IF Len(g.sim) >= 2 THEN 2 ELSE 0
             [] OTHER -> 2
  IN PushMarked(Discard(g, n), "bool")

ScanSystem(g, op) ==
  CASE op = "FILE_OPEN" -> Push1(Discard(g, 4), "i32")
    [] op = "FILE_READ" -> PushText(Need(g, 2))
    [] op = "FILE_WRITE" -> Discard(g, 3)
    [] op \in {"FILE_CLOSE", "SOCKET_CLOSE", "POP", "SWITCH_JUMP_TABLE"} -> Discard(g, 1)
    [] op = "SOCKET_CREATE" -> Push1(Discard(g, 4), "i64")
    [] op = "SOCKET_CONNECT" -> Push1(Discard(g, 3), "i32")
    [] op \in {"SOCKET_ACCEPT", "JOIN"} -> Push1(Discard(g, 1), "i64")
    [] op = "SOCKET_SEND" -> Push1(Discard(g, 3), "i64")
    [] op = "SOCKET_RECV" -> PushText(Discard(g, 2))
    [] op = "DUP" -> IF g.sim = <<>> THEN g ELSE Push1(g, At(g, 1))

(* As many entries are popped as there are parameters, two-slot ones too.   *)
ScanCall(g, name) ==
  LET c == Callees[name]
      p == Discard(g, c.params)
  IN IF c.text THEN PushText(p) ELSE [p EXCEPT !.sim = @ \o c.gives]

(* FUSED_LOAD_STORE from, to, from: nothing is pushed for an unknown local. *)
ScanFused(g, k) ==
  CASE g.inferred[k] = "none" -> g
    [] g.inferred[k] = "str" -> Push1(Push1(g, "i32"), "i32")
    [] OTHER -> Push1(g, g.inferred[k])

ScanArith(g, op) ==
  LET float == op \in {"ADD_F64", "SUB_F64", "MUL_F64", "DIV_I64", "DIV_F64", "DIV_CONST_I64"}
      t == IF float THEN "f64" ELSE "i64"
  IN CASE op = "ADD_CONST_I64" ->
            IF g.sim = <<>> \/ At(g, 1) = "f64" THEN g ELSE Push1(Discard(g, 1), "i64")
       [] op \in {"MUL_CONST_I64", "MUL_I64", "MUL_F64"} ->
            IF At(g, 1) = "f64" THEN g ELSE Push1(Need(g, 2), t)
       [] op \in {"DIV_CONST_I64", "MOD_CONST_I64"} -> Push1(Discard(g, 1), t)
       [] op = "MOD_I64" -> Push1(Discard(g, 2), t)
       [] op \in {"ADD_I64", "ADD_F64", "SUB_CONST_I64", "SUB_I64", "SUB_F64", "DIV_I64",
                  "DIV_F64"} -> Push1(Need(g, 2), t)

---------------------------------------------------------------------------
(* The scan of one instruction.  An opcode that has no branch (printing,    *)
(* globals, rounding, booleans, ...) leaves everything as it is.            *)
Foresee(g, f) ==
  LET op == f.op
      in(S) == op \in S
  IN CASE in({"STRUCT_NEW", "STRUCT_SET"}) -> ScanStruct(g, op, "0")
       [] op = "STRUCT_GET" -> ScanStruct(g, op, f.arg)
       [] in({"CONST_STR", "CONST_I64", "CONST_F64", "FORK", "LIST_LEN", "LOAD2_ADD_I64", "LOAD2_MUL_I64",
              "LOAD2_DIV_I64", "LOAD2_DIV_F64", "LOAD2_CMP_LT", "LOAD2_CMP_GT"}) -> ScanConst(g, op)
       [] op = "LOAD" -> ScanLoad(g, f.arg)
       [] op = "STORE" -> ScanStore(g, f.arg)
       [] in({"STORE_CONST_I64", "STORE_CONST_F64", "STORE_CONST_BOOL"}) ->
            ScanStoreConst(g, op, f.arg)
       [] in({"LIST_NEW", "LIST_NEW_I64", "LIST_NEW_STR", "LIST_APPEND", "LIST_SET", "LIST_POP",
              "LIST_GET"}) -> ScanList(g, op)
       [] in({"SET_NEW", "SET_ADD", "SET_REMOVE", "SET_CONTAINS", "CONTAINS"}) -> ScanSet(g, op)
       [] in({"STR_SPLIT", "STR_JOIN", "ADD_STR", "BUILTIN_LEN", "BUILTIN_STR"}) -> ScanText(g, op)
       [] in({"TO_INT", "TO_FLOAT", "TO_BOOL"}) -> ScanConvert(g, op)
       [] in({"CMP_EQ", "CMP_NE", "CMP_LT", "CMP_LT_CONST", "CMP_EQ_CONST", "AND", "OR", "NOT"}) ->
            ScanCompare(g, op)
       [] in({"FILE_OPEN", "FILE_READ", "FILE_WRITE", "FILE_CLOSE", "SOCKET_CLOSE", "POP",
              "SWITCH_JUMP_TABLE", "SOCKET_CREATE", "SOCKET_CONNECT", "SOCKET_ACCEPT", "JOIN",
              "SOCKET_SEND", "SOCKET_RECV", "DUP"}) -> ScanSystem(g, op)
       [] op = "CALL" -> ScanCall(g, f.arg)
       [] op = "FUSED_LOAD_STORE" -> ScanFused(g, f.arg)
       [] in({"ADD_CONST_I64", "ADD_I64", "ADD_F64", "SUB_CONST_I64", "SUB_I64", "SUB_F64",
              "MUL_CONST_I64", "MUL_I64", "MUL_F64", "DIV_CONST_I64", "DIV_I64", "DIV_F64",
              "MOD_CONST_I64", "MOD_I64"}) -> ScanArith(g, op)
       [] OTHER -> g

---------------------------------------------------------------------------
(* What the scan leads to: local_vars, which decides whether a store takes  *)
(* a string, and the declaration, for which the inferred type goes first.   *)

LocalVars(g) ==
  [k \in Kinds |-> IF Declared[k] = "i64" /\ g.inferred[k] \in {"i32", "str"}
                   THEN g.inferred[k] ELSE Declared[k]]
WasmOf(t) ==
  CASE t \in {"i32", "i64", "f64"} -> t
    [] t \in {"str", "bool", "list", "set", "struct:0"} -> "i32"
    [] OTHER -> "i64"
DeclaredAs(g) ==
  [k \in Kinds |-> WasmOf(IF g.inferred[k] = "none" THEN LocalVars(g)[k] ELSE g.inferred[k])]
=============================================================================
