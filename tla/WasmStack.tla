----------------------------- MODULE WasmStack -----------------------------
(***************************************************************************)
(* The bookkeeping of the WebAssembly back end.  While it walks the        *)
(* bytecode the translator keeps no values, only types: the list           *)
(* type_stack of the WebAssembly types it believes are on the operand      *)
(* stack, the parallel list extended_type_stack that says what an i32      *)
(* stands for, and _last_i32_source, the source of the last i32 it saw.    *)
(* Every conversion it emits is chosen from these.                         *)
(*                                                                         *)
(* A translator state is a record:                                         *)
(*   real   the types the code emitted so far really leaves on the stack   *)
(*   track  type_stack              ext   extended_type_stack              *)
(*   linked whether track is still a TypeStack, which keeps ext beside it  *)
(*   last   _last_i32_source        calls runtime functions called since   *)
(*   ok     no emitted instruction lacked operands of its types, and no    *)
(*          list operation of the translator itself raised                 *)
(*                                                                         *)
(* The translation of an instruction is a sequence of elementary steps.    *)
(***************************************************************************)
EXTENDS Integers, Sequences, SequencesExt, FiniteSets, TLC

I == <<"i32">>
L == <<"i64">>
F == <<"f64">>
P == <<"i32", "i32">>        \* a string: pointer and length

Fresh == [real |-> <<>>, track |-> <<>>, ext |-> <<>>, linked |-> TRUE,
          last |-> "none", calls |-> {}, ok |-> TRUE]

Keep(s, n) == SubSeq(s, 1, Len(s) - n)
Nth(s, i) == IF Len(s) >= i THEN s[Len(s) + 1 - i] ELSE "none"   \* s[-i]
EndsIn(s, t) == Len(s) >= Len(t) /\ SubSeq(s, Len(s) - Len(t) + 1, Len(s)) = t
Nones(n) == [j \in 1..n |-> "none"]

---------------------------------------------------------------------------
(* The runtime functions the module imports, by declared signature. *)

WebImports ==
  [dom_create |-> <<P, I>>, dom_get_body |-> <<<<>>, I>>, dom_set_text |-> <<I \o P, <<>>>>,
   dom_get_text |-> <<I, P>>, dom_set_attr |-> <<I \o P, <<>>>>, dom_get_attr |-> <<I \o P, P>>,
   dom_append |-> <<P, <<>>>>, dom_clone |-> <<P, I>>, dom_parent |-> <<I, I>>,
   dom_add_class |-> <<I \o P, <<>>>>, dom_has_class |-> <<I \o P, I>>,
   dom_set_style |-> <<I \o P \o P, <<>>>>, dom_get_style |-> <<I \o P, P>>,
   dom_get_value |-> <<I, P>>, dom_focus |-> <<I, <<>>>>, dom_query |-> <<P, I>>]

RuntimeImports ==
  [print |-> <<P, <<>>>>, println |-> <<P, <<>>>>, runtime_error |-> <<P \o P \o P, <<>>>>,
   fork |-> <<<<>>, L>>, wait |-> <<L, L>>, exit_process |-> <<I, <<>>>>,
   str_concat |-> <<P \o P, P>>, str_to_i64 |-> <<P, L>>, str_to_f64 |-> <<P, F>>,
   i64_to_str |-> <<L, P>>, f64_to_str |-> <<F, P>>, bool_to_str |-> <<L, P>>,
   list_to_str |-> <<I, P>>, set_to_str |-> <<I, P>>,
   str_upper |-> <<P, P>>, str_lower |-> <<P, P>>, str_strip |-> <<P, P>>,
   str_replace |-> <<P \o P \o P, P>>, str_get |-> <<P \o L, P>>, str_contains |-> <<P \o P, I>>,
   str_join |-> <<P \o I, P>>, str_split |-> <<P \o P, I>>,
   sqrt |-> <<F, F>>, round_f64 |-> <<F, F>>, floor_f64 |-> <<F, F>>, ceil_f64 |-> <<F, F>>,
   list_new |-> <<<<>>, I>>, list_append |-> <<I \o L, I>>, list_get |-> <<I \o L, L>>,
   list_set |-> <<I \o L \o L, I>>, list_len |-> <<I, L>>, list_pop |-> <<I, I \o L>>,
   list_contains |-> <<I \o L, I>>, set_new |-> <<<<>>, I>>, set_add |-> <<I \o L, I>>,
   set_remove |-> <<I \o L, I>>, set_contains |-> <<I \o L, I>>, set_len |-> <<I, L>>,
   file_open |-> <<P \o P, I>>, file_read |-> <<I, P>>, file_write |-> <<I \o P, <<>>>>,
   file_close |-> <<I, <<>>>>]

Imports == WebImports @@ RuntimeImports

---------------------------------------------------------------------------
(* What _emit_call believes of them: sig gives the operands it prepares (a  *)
(* name without an entry, or with an empty one, gets none prepared), rets   *)
(* the results it notes (none for a name without an entry).                 *)

Sig(name) ==
  CASE name \in {"str_concat", "str_contains", "str_split", "file_open"} -> P \o P
    [] name = "str_replace" -> P \o P \o P
    [] name \in {"i64_to_str", "bool_to_str"} -> L
    [] name \in {"f64_to_str", "sqrt", "round_f64", "floor_f64", "ceil_f64"} -> F
    [] name \in {"list_to_str", "set_to_str", "list_len", "list_pop", "set_len", "file_read"} -> I
    [] name \in {"list_append", "list_get", "list_contains", "set_add", "set_remove",
                 "set_contains"} -> I \o L
    [] name = "list_set" -> I \o L \o L
    [] name \in {"str_upper", "str_lower", "str_strip", "str_to_i64", "str_to_f64", "print",
                 "println"} -> P
    [] name = "str_join" -> P \o I
    [] name = "str_get" -> P \o L
    [] name = "file_write" -> I \o P
    [] OTHER -> <<>>

Rets(name) ==
  CASE name \in {"str_concat", "i64_to_str", "f64_to_str", "bool_to_str", "list_to_str",
                 "set_to_str", "str_upper", "str_lower", "str_strip", "str_replace", "str_join",
                 "str_get", "file_read"} -> P
    [] name \in {"str_contains", "list_new", "list_append", "list_set", "list_contains",
                 "set_new", "set_add", "set_remove", "set_contains", "str_split",
                 "file_open"} -> I
    [] name \in {"str_to_i64", "list_get", "list_len", "set_len"} -> L
    [] name = "str_to_f64" -> F
    [] name = "list_pop" -> I \o L
    [] OTHER -> <<>>

(* The loop that saves the operands of a call in temporaries and pushes     *)
(* them back converted: what it pops of the tracked stack and what it       *)
(* leaves instead.  An i64 where two i32 parameters are expected is taken   *)
(* for a packed string, at the positions in "unpack", and fills both.       *)
Marshal(params, track, unpack) ==
  LET Serve(i, m) ==
        LET packed == i \in unpack /\ EndsIn(m.params, P) /\ track[i] = "i64"
            width == IF packed THEN 2 ELSE 1
            last == SubSeq(m.params, Len(m.params) + 1 - width, Len(m.params))
        IN IF m.params = <<>> THEN m
           ELSE [params |-> Keep(m.params, width),
                 pops |-> <<track[i]>> \o m.pops, leaves |-> last \o m.leaves]
  IN FoldRightDomain(Serve, track, [params |-> params, pops |-> <<>>, leaves |-> <<>>])

---------------------------------------------------------------------------
(* Elementary steps. *)

Code(ins, outs) == [do |-> "code", ins |-> ins, outs |-> outs]   \* emit
Pop(n) == [do |-> "pop", n |-> n]                \* type_stack.pop(), n times
Note(types) == [do |-> "note", types |-> types]  \* type_stack.append for each
Retype(i, t) == [do |-> "retype", i |-> i, t |-> t]              \* type_stack[-i] = t
Mark(i, m) == [do |-> "mark", i |-> i, m |-> m]  \* extended_type_stack[-i] = m
PopMarks(n) == [do |-> "pop_marks", n |-> n]     \* extended_type_stack.pop()
PushMarks(ms) == [do |-> "push_marks", ms |-> ms]  \* extended_type_stack.append(m)
PadMarks == [do |-> "pad_marks"]       \* append None until both lists are as long
Drop == [do |-> "drop"]                \* emit "drop": an operand of any type
Reset == [do |-> "reset"]              \* new, empty lists; what follows is unreachable
Source(s) == [do |-> "source", s |-> s]          \* _last_i32_source = s
Call(name) == [do |-> "call", name |-> name]     \* _emit_call
MarkString == <<Mark(2, "str"), Mark(1, "str")>>

(* Emitting an instruction (or a run of them) of the given type. *)
Emit(w, ins, outs) ==
  IF EndsIn(w.real, ins) THEN [w EXCEPT !.real = Keep(@, Len(ins)) \o outs]
                         ELSE [w EXCEPT !.ok = FALSE]

(* TypeStack: pop, append and item assignment, each with its effect on the  *)
(* parallel list.  Assigning past the end of the parallel list raises.      *)
TypePop(w, n) ==
  [w EXCEPT !.track = Keep(@, n), !.ext = IF w.linked THEN Keep(@, n) ELSE @]
TypeAppend(w, types) ==
  [w EXCEPT !.track = @ \o types,
            !.ext = IF w.linked THEN @ \o Nones(Len(types)) ELSE @]
SetMark(w, i, m) ==
  IF i > Len(w.ext) THEN w ELSE [w EXCEPT !.ext[Len(w.ext) + 1 - i] = m]
TypeAssign(w, i, t) ==
  IF i > Len(w.track) \/ (w.linked /\ i > Len(w.ext)) THEN [w EXCEPT !.ok = FALSE]
  ELSE [SetMark(w, i, IF w.linked THEN "none" ELSE Nth(w.ext, i))
          EXCEPT !.track[Len(w.track) + 1 - i] = t]

EmitCall(w, name, call) ==
  LET prepared == Emit(TypePop(w, Len(call.pops)), call.pops, call.leaves)
      called == Emit(prepared, Imports[name][1], Imports[name][2])
  IN [TypeAppend(called, Rets(name)) EXCEPT !.calls = @ \cup {name}]

Do(w, s) ==
  CASE s.do = "code" -> Emit(w, s.ins, s.outs)
    [] s.do = "pop" -> TypePop(w, s.n)
    [] s.do = "note" -> TypeAppend(w, s.types)
    [] s.do = "retype" -> TypeAssign(w, s.i, s.t)
    [] s.do = "mark" -> SetMark(w, s.i, s.m)
    [] s.do = "pop_marks" -> [w EXCEPT !.ext = Keep(@, s.n)]
    [] s.do = "push_marks" -> [w EXCEPT !.ext = @ \o s.ms]
    [] s.do = "pad_marks" -> [w EXCEPT !.ext = @ \o Nones(Len(w.track) - Len(@))]
    [] s.do = "drop" -> IF w.real = <<>> THEN [w EXCEPT !.ok = FALSE] ELSE [w EXCEPT !.real = Front(@)]
    [] s.do = "reset" -> [w EXCEPT !.real = <<>>, !.track = <<>>, !.ext = <<>>, !.linked = TRUE]
    [] s.do = "source" -> [w EXCEPT !.last = s.s]
    [] s.do = "call" -> EmitCall(w, s.name, Marshal(Sig(s.name), w.track, 1..Len(w.track)))

Then(w, steps) == FoldLeft(Do, w, steps)

---------------------------------------------------------------------------
(* Helpers that bring an operand to a type. *)

Temp(t) == IF t \in {"i64", "f64"} THEN t ELSE "i32"   \* the local a type is parked in

TopToI32(w) == IF Nth(w.track, 1) = "i64" THEN <<Code(L, I), Retype(1, "i32")>> ELSE <<>>

SecondToI32(w) ==
  LET over == <<Temp(Nth(w.track, 1))>>
  IN IF Nth(w.track, 2) = "i64"
     THEN <<Code(L \o over, I \o over), Retype(2, "i32")>> ELSE <<>>

(* The third operand: the two above it are parked, the lower of the two in  *)
(* an i32 temporary even when it is an i64.                                 *)
ThirdToI32(w) ==
  LET first == <<Temp(Nth(w.track, 1))>>
      second == IF Nth(w.track, 2) = "f64" THEN F ELSE I
      above == <<Nth(w.track, 2), Nth(w.track, 1)>>
  IN IF Nth(w.track, 3) # "i64" THEN <<>>
     ELSE <<Code(L \o second \o first, I \o second \o first), Pop(3), Note(I), Note(above)>>

(* A mutant of BothTo: the lower operand is left as it is. *)
UpperTo(w, from, to) ==
  IF Len(w.track) >= 2 /\ Nth(w.track, 1) = from
  THEN <<Code(<<from>>, <<to>>), Retype(1, to)>> ELSE <<>>

(* Both operands of a floating-point instruction, or of an integer one: the *)
(* lower is converted with the upper parked in a temporary.                 *)
BothTo(w, from, to) ==
  LET top == IF Nth(w.track, 1) = from THEN <<Code(<<from>>, <<to>>), Retype(1, to)>> ELSE <<>>
      below == IF Nth(w.track, 2) = from
               THEN <<Code(<<from, to>>, <<to, to>>), Pop(1), Retype(1, to), Note(<<to>>)>>
               ELSE <<>>
  IN IF Len(w.track) >= 2 THEN top \o below ELSE <<>>

(* _normalize_top_operand_to_string_pair, with the pop and the two appends  *)
(* it makes after _emit_call has already replaced the operand.              *)
ToText(w) ==
  LET top == Nth(w.track, 1)
      converted(name) == <<Call(name), Pop(1), Note(P)>>
  IN CASE EndsIn(w.track, P) -> <<Source("none")>>
       [] top = "i64" -> converted("i64_to_str")
       [] top = "f64" -> converted("f64_to_str")
       [] top = "i32" /\ w.last = "list" -> converted("list_to_str") \o <<Source("none")>>
       [] top = "i32" /\ w.last = "set" -> converted("set_to_str") \o <<Source("none")>>
       [] top = "i32" /\ w.last \notin {"list", "set"} ->
            converted("bool_to_str") \o <<Source("none")>>
       [] OTHER -> <<>>

(* _normalize_two_operands_for_concat: the top first; then it is parked,    *)
(* one slot or two, and the operand below is normalised.                    *)
BothToText(w) ==
  LET first == Then(w, ToText(w))
      size == IF EndsIn(first.track, P) THEN 2 ELSE 1
      parked == SubSeq(first.track, Len(first.track) + 1 - size, Len(first.track))
      lower == Then(first, <<Code(parked, <<>>), Pop(size)>>)
  IN Then(Then(lower, ToText(lower)), <<Code(<<>>, parked), Note(parked)>>)
=============================================================================
