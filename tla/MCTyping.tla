------------------------------ MODULE MCTyping ------------------------------
(***************************************************************************)
(* OperandTyping on one instruction of each sort the compiler emits, for   *)
(* operands of every kind the virtual machine accepts there.               *)
(***************************************************************************)
EXTENDS OperandTyping

MCFields == [i \in {"0", "1"} |-> IF i = "0" THEN "str" ELSE "bool"]
MCLocalTypes ==
  [int |-> "i64", float |-> "f64", bool |-> "bool", str |-> "str", list |-> "list",
   names |-> "list", set |-> "set", obj |-> "struct:0"]
MCFunctions ==
  [greet |-> [params |-> <<"str", "i64">>, returns |-> "str"],
   scale |-> [params |-> <<"f64">>, returns |-> "f64"],
   member |-> [params |-> <<"list", "i64">>, returns |-> "bool"],
   sum |-> [params |-> <<"variadic">>, returns |-> "i64"]]
MCIrFields == [i \in {"0", "1"} |-> IF i = "0" THEN <<"STRING">> ELSE <<"BOOL">>]
MCIrLocals ==
  [int |-> <<"INT64">>, float |-> <<"FLOAT64">>, bool |-> <<"BOOL">>, str |-> <<"STRING">>,
   list |-> <<"LIST", "INT64">>, names |-> <<"LIST", "STRING">>, set |-> <<"SET">>,
   obj |-> <<"STRUCT">>]
MCCallees ==
  [greet |-> [params |-> 2, gives |-> <<>>, text |-> TRUE],
   scale |-> [params |-> 1, gives |-> F, text |-> FALSE],
   member |-> [params |-> 2, gives |-> I, text |-> FALSE],
   sum |-> [params |-> 1, gives |-> L, text |-> FALSE]]
    @@ [n \in DOMAIN BuiltinMap |->
          [params |-> Len(BuiltinMap[n].takes), gives |-> BuiltinMap[n].gives,
           text |-> BuiltinMap[n].gives = P]]
MCIrReturns ==
  [n \in DOMAIN BuiltinMap |->
     CASE BuiltinMap[n].gives = P -> <<"STRING">> [] BuiltinMap[n].gives = I -> <<"INT64">>
       [] OTHER -> <<"VOID">>]
    @@ [greet |-> <<"STRING">>, scale |-> <<"FLOAT64">>, member |-> <<"BOOL">>,
        sum |-> <<"INT64">>]

---------------------------------------------------------------------------
Form(op, arg, ins, outs) == [op |-> op, arg |-> arg, ins |-> ins, outs |-> outs, count |-> Len(ins)]
Gives(ops, ins, outs) == {Form(op, "none", ins, outs) : op \in ops}
Named == DOMAIN MCLocalTypes
Lists == {"list", "names"}
N == <<"int">>  R == <<"float">>  B == <<"bool">>  T == <<"str">>

Values ==
  Gives({"CONST_I64"}, <<>>, N) \cup Gives({"CONST_F64", "BUILTIN_PI"}, <<>>, R)
    \cup Gives({"CONST_BOOL"}, <<>>, B) \cup Gives({"CONST_STR"}, <<>>, T)
    \cup Gives({"LIST_NEW", "LIST_NEW_I64"}, <<>>, <<"list">>)
    \cup Gives({"LIST_NEW_STR"}, <<>>, <<"names">>) \cup Gives({"SET_NEW"}, <<>>, <<"set">>)
    \cup Gives({"STRUCT_NEW"}, T \o B, <<"obj">>) \cup Gives({"FORK"}, <<>>, N)
Locals ==
  {Form("LOAD", k, <<>>, <<k>>) : k \in Named} \cup {Form("STORE", k, <<k>>, <<>>) : k \in Named}
    \cup {Form("STORE_CONST_I64", "int", <<>>, <<>>), Form("STORE_CONST_F64", "float", <<>>, <<>>),
          Form("STORE_CONST_BOOL", "bool", <<>>, <<>>), Form("STORE_CONST_STR", "str", <<>>, <<>>),
          Form("INC_LOCAL", "int", <<>>, <<>>)}
    \cup {Form("FUSED_LOAD_STORE", k, <<>>, <<k>>) : k \in {"int", "str"}}
    \cup {Form("LOAD_GLOBAL", k, <<>>, <<k>>) : k \in {"int", "str"}}
    \cup {Form("STORE_GLOBAL", k, <<k>>, <<>>) : k \in {"int", "bool", "str"}}
    \cup Gives({"LOAD2_ADD_I64"}, <<>>, N) \cup Gives({"LOAD2_DIV_F64"}, <<>>, R)
    \cup Gives({"LOAD2_DIV_I64"}, <<>>, R)
    \cup Gives({"LOAD2_CMP_LT"}, <<>>, B)
Numbers ==
  Gives({"ADD_I64", "SUB_I64", "MUL_I64", "MOD_I64", "AND_I64", "SHL_I64"}, N \o N, N)
    \cup Gives({"ADD_F64", "SUB_F64", "MUL_F64", "DIV_F64"}, R \o R, R)
    \cup Gives({"DIV_I64"}, N \o N, R) \cup Gives({"DIV_F64"}, R \o N, R)
    \cup Gives({"ADD_CONST_I64", "SUB_CONST_I64", "MUL_CONST_I64", "MOD_CONST_I64"}, N, N)
    \cup Gives({"ADD_CONST_I64", "MUL_CONST_F64"}, R, R)
    \cup Gives({"DIV_CONST_I64"}, N, R)
    \cup {Form("DIV_CONST_F64", d, R, R) : d \in {"zero", "other"}}
    \cup Gives({"POW"}, N \o N, N) \cup Gives({"SELECT"}, B \o N \o N, N)
    \cup Gives({"SELECT"}, B \o T \o T, T) \cup Gives({"MIN"}, N \o N, N) \cup Gives({"MIN"}, R \o R, R)
    \cup Gives({"BUILTIN_ABS"}, R, R)
    \cup Gives({"NEG", "BUILTIN_ABS"}, N, N) \cup Gives({"NEG", "BUILTIN_SQRT"}, R, R)
    \cup Gives({"BUILTIN_FLOOR", "BUILTIN_ROUND"}, R, N)
    \cup Gives({"CMP_LT", "CMP_EQ"}, N \o N, B) \cup Gives({"CMP_LT"}, R \o R, B)
    \cup Gives({"CMP_EQ"}, B \o B, B)
    \cup Gives({"CMP_LT_CONST", "CMP_EQ_CONST"}, N, B)
    \cup Gives({"AND"}, B \o B, B) \cup Gives({"NOT"}, B, B)
Conversions ==
  UNION {Gives({"TO_INT"}, <<k>>, N) \cup Gives({"TO_FLOAT"}, <<k>>, R)
         \cup Gives({"TO_BOOL"}, <<k>>, B) : k \in {"int", "float", "bool", "str"}}
    \cup UNION {Gives({"BUILTIN_STR"}, <<k>>, T) : k \in {"int", "str", "set"}}
Texts ==
  Gives({"ADD_STR"}, T \o T, T) \cup Gives({"STR_UPPER"}, T, T)
    \cup Gives({"STR_REPLACE"}, T \o T \o T, T) \cup Gives({"STR_SPLIT"}, T \o T, <<"names">>)
    \cup Gives({"STR_JOIN"}, T \o <<"names">>, T) \cup Gives({"STR_EQ"}, T \o T, B)
    \cup Gives({"ENCODE"}, T \o T, T) \cup Gives({"MUL_STR"}, T \o N, T)
    \cup Gives({"FILE_EXISTS"}, T, B)
Containers ==
  UNION {Gives({"BUILTIN_LEN"}, <<k>>, N) : k \in {"str", "list", "names", "set"}}
    \cup Gives({"LIST_APPEND"}, <<"list", "int">>, <<"list">>)
    \cup Gives({"LIST_APPEND"}, <<"names", "str">>, <<"names">>)
    \cup Gives({"LIST_APPEND"}, <<"list", "str">>, <<"names">>)
    \cup Gives({"LIST_GET"}, <<"list", "int">>, N) \cup Gives({"LIST_GET"}, <<"names", "int">>, T)
    \cup Gives({"LIST_GET"}, T \o N, T)
    \cup Gives({"LIST_SET"}, <<"list", "int", "int">>, <<"list">>)
    \cup Gives({"LIST_SET"}, <<"names", "int", "str">>, <<"names">>)
    \cup Gives({"LIST_POP"}, <<"list">>, <<"list", "int">>)
    \cup {Form("SET_ADD", "none", <<"set", k>>, <<"set">>) : k \in {"int", "str", "bool"}}
    \cup {Form("SET_CONTAINS", "none", <<"set", k>>, B) : k \in {"int", "str"}}
    \cup {Form("CONTAINS", "none", ins, B) :
            ins \in {<<"list", "int">>, <<"names", "str">>, <<"set", "int">>, T \o T}}
    \cup {Form("STRUCT_GET", "0", <<"obj">>, T), Form("STRUCT_GET", "1", <<"obj">>, B),
          Form("STRUCT_SET", "0", <<"obj", "str">>, <<"obj">>),
          Form("STRUCT_SET", "1", <<"obj", "bool">>, <<"obj">>)}
References ==
  {Form("ADDR_LOCAL", "int", <<>>, <<"ref">>)} \cup Gives({"ADDR_ELEM"}, <<"list", "int">>, <<"ref">>)
    \cup Gives({"DEREF"}, <<"ref">>, N) \cup Gives({"DEREF_SET"}, <<"ref", "int">>, <<>>)
Dictionaries ==
  Gives({"DICT_NEW"}, <<>>, <<"dict">>) \cup Gives({"DICT_SET"}, <<"dict", "str", "int">>, <<"dict">>)
    \cup UNION {Gives({"DICT_GET"}, <<"dict", "str">>, v) : v \in {N, T}}
Sockets ==
  Gives({"SOCKET_CREATE"}, T \o T, <<"node">>) \cup Gives({"SOCKET_RECV"}, <<"node", "int">>, T)
    \cup Gives({"SOCKET_SEND"}, <<"node", "str">>, N) \cup Gives({"SOCKET_CLOSE"}, <<"node">>, <<>>)
Files ==   \* as the machine executes them; the WebAssembly translator has no branch for them
  Gives({"FILE_OPEN"}, T \o T, <<"node">>) \cup Gives({"FILE_READ"}, <<"node", "int">>, T)
    \cup Gives({"FILE_WRITE"}, <<"node", "str">>, N) \cup Gives({"FILE_CLOSE"}, <<"node">>, <<>>)
    \cup Gives({"FILE_LISTDIR"}, T, <<"names">>) \cup Gives({"FILE_MKDIR"}, T, <<>>)
    \cup Gives({"FILE_RENAME"}, T \o T, <<>>) \cup Gives({"FILE_GETSIZE"}, T, N)
    \cup Gives({"FILE_BASENAME"}, T, T) \cup Gives({"FILE_JOIN"}, <<"names">>, T)
Commands ==
  UNION {Gives({"BUILTIN_PRINTLN", "BUILTIN_PRINT"}, <<k>>, <<>>) :
           k \in {"int", "float", "bool", "str", "list", "set"}}
    \cup UNION {Gives({"POP"}, <<k>>, <<>>) : k \in Named}
    \cup UNION {Gives({"DUP"}, <<k>>, <<k, k>>) : k \in {"int", "float", "bool", "str"}}
    \cup Gives({"SWAP"}, N \o R, R \o N)
    \cup Gives({"JUMP_IF_FALSE", "RETURN"}, B, <<>>) \cup Gives({"RETURN"}, N, <<>>)
    \cup Gives({"RAISE", "RETURN_VOID"}, <<>>, <<>>) \cup Gives({"EXIT"}, N, <<>>)
    \cup Gives({"ASSERT"}, T \o B, <<>>) \cup Gives({"WAIT"}, N, N)
Calls ==
  {Form("CALL", "greet", T \o N, T), Form("CALL", "scale", R, R), Form("CALL", "scale", N, R),
   Form("CALL", "member", <<"list", "int">>, B), Form("CALL", "sum", N \o N, N),
   Form("CALL", "sum", T \o N, N),
   Form("CALL", "dom_create", T, <<"node">>), Form("CALL", "dom_append", <<"node", "node">>, <<>>),
   Form("CALL", "dom_set_text", <<"node", "str">>, <<>>),
   Form("CALL", "dom_get_text", <<"node">>, T),
   Form("CALL", "dom_set_style", <<"node", "str", "str">>, <<>>),
   Form("CALL", "fopen", T \o T, <<"node">>), Form("CALL", "fread", <<"node", "int">>, T),
   Form("CALL", "fwrite", <<"node", "str">>, <<>>), Form("CALL", "fclose", <<"node">>, <<>>)}

MCForms == Values \cup Locals \cup Numbers \cup Conversions \cup Texts \cup Containers
             \cup Files \cup Commands \cup Calls \cup References \cup Dictionaries \cup Sockets
(* The scan keeps the most state: one instruction of those it treats alike. *)
MCScanned ==
  {f \in MCForms : f.op \notin {"STORE_CONST_I64", "STORE_CONST_BOOL", "SET_NEW", "SET_ADD",
                                "SET_CONTAINS", "LIST_NEW_STR", "LIST_NEW_I64", "STR_SPLIT",
                                "TO_BOOL", "FORK"}}
=============================================================================
