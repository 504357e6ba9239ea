--------------------------- MODULE OperandTyping ---------------------------
(***************************************************************************)
(* Straight-line bytecode, instruction by instruction, seen by one of the  *)
(* three parts of the program that follow the operand stack by type        *)
(* without running it: the WebAssembly translator ("wasm"), its scan for   *)
(* the types of the locals ("scan") and the IR builder of the native back  *)
(* end ("ir").                                                             *)
(*                                                                         *)
(* A form is a bytecode instruction with the kinds of the operands it      *)
(* takes and of the results it leaves, as the virtual machine executes it; *)
(* src is the stack of kinds, the truth the three are compared with.       *)
(* Forms without result are statements: they find nothing else on the      *)
(* stack.  A step after which a part is known to be out of step (Drifts    *)
(* and below, each with its reason) ends the run.                          *)
(***************************************************************************)
EXTENDS WasmInstructions

CONSTANTS
  Forms,        \* the instructions considered
  Scanned,      \* those of them considered for the scan
  Late,         \* the kinds whose local the scan takes for undeclared
  IrFields, IrLocals, IrReturns, Callees,
  MAX_DEPTH, SCAN_DEPTH, MAX_SIM   \* bounds of src, for the scan, and of the scan's stack

VARIABLES subject, src, operands, wasm, scan, ir, lost
vars == <<subject, src, operands, wasm, scan, ir, lost>>

Ir == INSTANCE IrTyping
Scan == INSTANCE WasmPrescan WITH
          Declared <- LocalTypes, StructTypes <- Fields, Kinds <- DOMAIN LocalTypes

(* How a value of each kind lies on the WebAssembly stack, and its IR type. *)
WasmKind(k) ==
  CASE k = "int" -> L [] k = "float" -> F [] k = "str" -> P [] OTHER -> I
IrKind(k) ==
  CASE k = "int" -> Ir!Int64 [] k = "float" -> Ir!Float64 [] k = "bool" -> Ir!Bool
    [] k = "str" -> Ir!String [] k = "list" -> Ir!ListOf(Ir!Int64)
    [] k = "names" -> Ir!ListOf(Ir!String) [] k = "set" -> Ir!Set [] k = "obj" -> Ir!Struct
    [] k \in {"node", "dict"} -> Ir!Int64 [] k = "ref" -> <<"PTR", "INT64">>
OnWasm(kinds) == FlattenSeq([i \in 1..Len(kinds) |-> WasmKind(kinds[i])])
OnIr(kinds) == [i \in 1..Len(kinds) |-> IrKind(kinds[i])]

---------------------------------------------------------------------------
(* Where the WebAssembly translator leaves the path. *)

(* Opcodes that no branch translates.                                       *)
Untranslated == {"POW", "STR_EQ", "MUL_STR", "FILE_EXISTS", "SELECT", "MIN", "DICT_NEW", "DICT_GET",
                 "DICT_SET", "ADDR_LOCAL", "ADDR_ELEM", "DEREF", "DEREF_SET", "SOCKET_CREATE",
                 "SOCKET_RECV", "SOCKET_SEND", "SOCKET_CLOSE", "FILE_OPEN", "FILE_READ",
                 "FILE_WRITE", "FILE_CLOSE", "FILE_LISTDIR", "FILE_MKDIR", "FILE_RENAME",
                 "FILE_GETSIZE", "FILE_BASENAME", "FILE_JOIN"}
(* Opcodes whose branch tracks something else than it emits, whatever the   *)
(* operands: the result noted twice, or not noted, or nothing emitted.      *)
Mistracked == {"ADD_STR", "BUILTIN_PRINT", "BUILTIN_SQRT", "BUILTIN_ROUND", "BUILTIN_FLOOR",
               "SHL_I64", "SWAP", "RETURN", "ENCODE"}
(* Branches that are right for other operands only.                         *)
ForOthers(f) ==
  \/ f.op = "BUILTIN_STR" /\ f.ins # <<"str">>
  \/ f.op \in {"DUP", "LOAD_GLOBAL", "STORE_GLOBAL"} /\ "str" \in ToSet(f.ins \o f.outs)
  \/ f.op = "CMP_EQ" /\ "bool" \in ToSet(f.ins)
  \/ f.op = "LIST_SET" /\ Last(f.ins) = "str"
  \/ f.op = "LIST_GET" /\ f.ins = <<"names", "int">>
  \/ f.op = "STRUCT_GET" /\ f.outs = <<"str">>
  \/ f.op = "CALL" /\ f.arg = "fread"

(* Branches that rely on the marks of their operands, which the results of  *)
(* calls and of STR_GET, and new containers, do not have; on the last i32   *)
(* source, which most instructions leave as it was; or that take any two    *)
(* i32s for a string.                                                       *)
Marks(k) ==
  CASE k = "str" -> <<"str", "str">> [] k \in {"list", "names"} -> <<"list">>
    [] k = "set" -> <<"set">> [] k = "obj" -> <<"obj">> [] OTHER -> <<"any">>
Marked(w, kinds) ==
  LET marks == FlattenSeq([i \in 1..Len(kinds) |-> Marks(kinds[i])])
  IN \A i \in 1..Len(marks) : marks[i] = "any" \/ Nth(w.ext, Len(marks) + 1 - i) = marks[i]
Misjudged(f, w) ==
  \/ /\ f.op \in {"POP", "LIST_APPEND", "SET_ADD", "SET_CONTAINS", "CONTAINS"} \/ f.arg = "sum"
     /\ \E i \in 1..Len(f.ins) : f.ins[i] = "str" /\ ~Marked(w, SubSeq(f.ins, i, Len(f.ins)))
  \/ /\ f.op = "CONTAINS" /\ f.ins # <<"str", "str">>
     /\ Nth(w.ext, 2) \notin {"list", "set"} /\ (w.last = "set") # (f.ins[1] = "set")
  \/ f.op = "STRUCT_GET" /\ ~Marked(w, f.ins)
  \/ f.op = "STRUCT_SET" /\ (~Marked(w, f.ins) \/ Len(src) > 2)
  \/ f.op = "BUILTIN_LEN" /\ f.ins = <<"str">> /\ w.last \in {"list", "set"}
  \/ f.op = "BUILTIN_STR" /\ f.ins = <<"str">> /\ w.last # "none"
  \/ f.op = "BUILTIN_PRINTLN" /\ f.ins = <<"bool">> /\ w.last \in {"list", "set"}
  \/ f.op \in {"TO_INT", "TO_FLOAT", "TO_BOOL"} /\ f.ins = <<"bool">> /\ EndsIn(w.track, P)
  \/ f.op = "LIST_GET" /\ f.ins = <<"list", "int">> /\ EndsIn(w.track, P \o L)

WasmDrifts(f) == f.op \in Untranslated \cup Mistracked \/ ForOthers(f) \/ Misjudged(f, wasm)

(* The scan has no branch for many opcodes, and some of its branches pop as  *)
(* many entries as there are operands where a string has two: it is lost    *)
(* once it takes the top of the stack wrongly for a string, or for none.    *)
ScanDrifts(g, kinds) == Scan!Text(g) # EndsIn(kinds, <<"str">>)

(* The machine divides integers into a float, rounds to an integer and goes *)
(* by the operands of these; the IR builder goes by the opcode alone.       *)
IrDrifts(f) ==
  \/ f.op \in {"DIV_I64", "DIV_CONST_I64", "LOAD2_DIV_I64", "BUILTIN_ROUND", "POW"}
  \/ f.op \in {"BUILTIN_ABS", "MIN"} /\ Last(f.ins) = "float"
  \/ f.op \in {"DICT_GET", "SELECT"} /\ f.outs = <<"str">>

(* By itself: on its operands and nothing below them, with as many operands *)
(* as the builder takes, the form has the results it should.                *)
IrAlone(f) ==
  /\ Ir!IrTranslate(OnIr(f.ins), f) = OnIr(f.outs)
  /\ f.outs # <<>> => Ir!IrArity(f) \in 0 .. Len(f.ins)

(* The forms considered: kinds are named by strings, and the IR builder is  *)
(* right about each by itself.                                              *)
ASSUME FormsAssumption ==
  \A f \in Forms :
    /\ f.ins \in Seq(STRING) /\ f.outs \in Seq(STRING)
    /\ IrDrifts(f) \/ IrAlone(f)

(* The locals: each kind's is declared with a type the compiler writes in a  *)
(* .local line, a string's with str, and what is stored is of its kind.     *)
ASSUME LocalsAssumption ==
  /\ \A k \in DOMAIN LocalTypes :
       /\ LocalTypes[k] \in {"i64", "f64", "bool", "str", "list", "set", "struct:0"}
       /\ k = "str" => LocalTypes[k] = "str"
  /\ \A f \in Scanned :
       /\ f.op \in {"STORE", "STORE_CONST_I64", "STORE_CONST_F64", "STORE_CONST_BOOL"} =>
            f.arg \in DOMAIN LocalTypes
       /\ f.op = "STORE" => f.ins = <<f.arg>> /\ f.outs = <<>>
       /\ f.op = "STORE_CONST_I64" => LocalTypes[f.arg] = "i64"
       /\ f.op = "STORE_CONST_F64" => LocalTypes[f.arg] = "f64"
       /\ f.op = "STORE_CONST_BOOL" => LocalTypes[f.arg] = "bool"

---------------------------------------------------------------------------
Init ==
  /\ subject \in {"wasm", "scan", "ir"}
  /\ src = <<>> /\ operands = <<>>
  /\ wasm = Fresh /\ scan = Scan!NoScan /\ ir = <<>>
  /\ lost = FALSE

(* The machine's side of an instruction. *)
Execute(f) ==
  /\ ~lost
  /\ IF f.outs = <<>> THEN src = f.ins ELSE EndsIn(src, f.ins)
  /\ src' = Keep(src, Len(f.ins)) \o f.outs
  /\ Len(src') <= MAX_DEPTH

WasmStep(f, caught) ==
  /\ subject = "wasm"
  /\ caught => f.op = "RAISE"
  /\ Execute(f)
  /\ wasm' = Translate([wasm EXCEPT !.calls = {}], f, caught)
  /\ lost' = WasmDrifts(f)
  /\ operands' = f.ins
  /\ UNCHANGED <<subject, scan, ir>>

ScanStep(f) ==
  /\ subject = "scan"
  /\ Execute(f)
  /\ Len(src') <= SCAN_DEPTH
  /\ Len(scan.sim) + 2 <= MAX_SIM
  /\ scan' = Scan!Foresee(scan, f)
  /\ lost' = ScanDrifts(scan', src')
  /\ UNCHANGED <<subject, operands, wasm, ir>>

IrStep(f) ==
  /\ subject = "ir"
  /\ Execute(f)
  /\ ir' = Ir!IrTranslate(ir, f)
  /\ lost' = IrDrifts(f)
  /\ UNCHANGED <<subject, operands, wasm, scan>>

Next ==
  \/ \E f \in Forms, caught \in BOOLEAN : WasmStep(f, caught)
  \/ \E f \in Scanned : ScanStep(f)
  \/ \E f \in Forms : IrStep(f)

Spec == Init /\ [][Next]_vars

---------------------------------------------------------------------------
(* The types the WebAssembly translator keeps are those of the values its   *)
(* code leaves on the stack, which are those of the program's values, every *)
(* instruction it emitted found operands of its types, and the marks stay   *)
(* beside the types.                                                        *)
InStep ==
  subject = "wasm" /\ ~lost =>
    /\ wasm.ok
    /\ wasm.track = OnWasm(src) /\ wasm.real = wasm.track
    /\ Len(wasm.ext) = Len(wasm.track)

(* A value is given to the runtime functions of its own kind: what an i32   *)
(* stands for is known from marks and the last source alone.                *)
Serves ==
  [list_len |-> {"list", "names"}, set_len |-> {"set"}, list_contains |-> {"list", "names"},
   set_contains |-> {"set"}, str_contains |-> {"str"}, list_to_str |-> {"list", "names"},
   set_to_str |-> {"set"}, bool_to_str |-> {"bool"}, str_get |-> {"str"},
   list_get |-> {"list", "names"}, str_to_i64 |-> {"str"}, str_to_f64 |-> {"str"}]
RightHelper ==
  subject = "wasm" /\ ~lost =>
    \A h \in wasm.calls \cap DOMAIN Serves : Serves[h] \cap ToSet(operands) # {}

(* The IR builder's stack has the types of the program's values.            *)
IrTyped == subject = "ir" /\ ~lost => ir = OnIr(src)

(* Whatever the scan makes of the code before, a local it finds in the      *)
(* table of declared types is declared with, and used as, that type.  (A    *)
(* late local is not: the scan's guess goes over its .local line.)          *)
DeclaredFits ==
  subject = "scan" /\ ~lost =>
    \A k \in DOMAIN LocalTypes \ Late :
      /\ Scan!LocalVars(scan)[k] = LocalTypes[k]
      /\ Scan!DeclaredAs(scan)[k] = MapType(LocalTypes[k])
=============================================================================
