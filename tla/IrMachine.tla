------------------------------- MODULE IrMachine -------------------------------
(***************************************************************************)
(* What the code of src/src/optimizer/codegen.py does for the instructions *)
(* of the IR, registers aside: a value keeps what it was given.            *)
(*                                                                         *)
(* A machine state m is a record: frames, each with its function f, block  *)
(* at, index i, the values vals it has computed, and dest, the value the   *)
(* caller waits for; globals; handlers; out; status.                       *)
(***************************************************************************)
EXTENDS Passes, Bitwise

CONSTANT MAX_FRAMES

ASSUME MachineAssumption == MAX_FRAMES \in Nat \ {0}

\* The labels a function jumps to; the linker wants all of them.
Wanted(fn) ==
  UNION {{Last(fn.code[l][i].t) : i \in {j \in DOMAIN fn.code[l] :
            fn.code[l][j].op \in {"JUMP", "BRANCH", "TRY_BEGIN"}}} : l \in DOMAIN fn.code}
Links(module) == \A f \in DOMAIN module : Wanted(module[f]) \subseteq DOMAIN module[f].code

Frame(fn, f, args, dest) ==
  [f |-> f, at |-> Head(fn.order), i |-> 1, vals |-> [v \in 1 .. Len(args) |-> args[v]], dest |-> dest]
Start(module) ==
  [frames |-> <<Frame(module["main"], "main", <<>>, 0)>>, globals |-> <<>>, handlers |-> <<>>,
   out |-> <<>>, status |-> IF Links(module) THEN "running" ELSE "link"]

Top(m) == m.frames[Len(m.frames)]
Stop(m, why) == [m EXCEPT !.status = why]
\* The result of the instruction, and on to the next one.
Result(m, r, v) ==
  [m EXCEPT !.frames[Len(m.frames)] =
     [@ EXCEPT !.i = @ + 1, !.vals = IF r = 0 THEN @ ELSE r :> v @@ @]]

\* _emit_phi_copies, for every block it is called from.
MovesInto(ps) ==
  [from \in UNION {{ps[i].t[j] : j \in DOMAIN ps[i].t} : i \in DOMAIN ps} |-> MovesFrom(ps, from)]
Emitted(ir) == [moves |-> [l \in DOMAIN ir.code |-> MovesInto(Phis(ir.code[l]))]] @@ ir

\* Mutant: the copies one after the other, each sees the ones before.
RECURSIVE CopiesInOrder(_, _)
CopiesInOrder(moves, vals) ==
  IF moves = <<>> THEN vals
  ELSE CopiesInOrder(Tail(moves), IF Head(moves).from \in DOMAIN vals
                                  THEN Head(moves).to :> vals[Head(moves).from] @@ vals ELSE vals)

\* _emit_parallel_int_moves: all at once.  What nothing was computed for stays
\* undefined.
Copies(moves, vals) ==
  LET set == {moves[i].to : i \in DOMAIN moves}
      src(v) == moves[CHOOSE i \in DOMAIN moves : moves[i].to = v].from
  IN [v \in (DOMAIN vals \ set) \cup {w \in set : src(w) \in DOMAIN vals} |->
        IF v \in set THEN vals[src(v)] ELSE vals[v]]

\* To block l of the same function.
Goto(module, m, l, copy) ==
  LET t == Top(m) IN
  IF l = NoBlock THEN Stop(m, "off the code")
  ELSE [m EXCEPT !.frames[Len(m.frames)] =
          [t EXCEPT !.at = l, !.i = 1,
                    !.vals = IF copy /\ t.at \in DOMAIN module[t.f].moves[l]
                             THEN Copies(module[t.f].moves[l][t.at], @) ELSE @]]

\* _emit_epilogue: v is the value in rax.
Leave(m, v) ==
  IF Len(m.frames) = 1 THEN Stop(m, "done")
  ELSE Result([m EXCEPT !.frames = Front(@)], Top(m).dest, v)

\* Mutant: the newest handler, whatever it expects.
CatchAny(m, exc) ==
  LET h == Last(m.handlers)
  IN IF m.handlers = <<>> THEN Stop(m, "uncaught")
     ELSE [m EXCEPT !.frames = Append(SubSeq(@, 1, h.depth - 1), [h.frame EXCEPT !.at = h.to, !.i = 1])]

\* runtime_exception_push and _setjmp; runtime_exception_raise: longjmp to the
\* newest handler that matches, which stays until TRY_END pops it.
Catch(m, exc) ==
  LET hs == {i \in DOMAIN m.handlers : m.handlers[i].exc \in {exc, ""}}
      h == m.handlers[CHOOSE i \in hs : \A j \in hs : j <= i]
  IN IF hs = {} THEN Stop(m, "uncaught")
     ELSE [m EXCEPT !.frames = Append(SubSeq(@, 1, h.depth - 1), [h.frame EXCEPT !.at = h.to, !.i = 1])]

\* _emit_binop: and and or are bitwise.
Arith(op, x, y) ==
  CASE op = "AND" -> x & y
    [] op = "OR" -> x | y
    [] op = "SHL" -> x * 2 ^ y
    [] OTHER -> Calc(CalcOf[op], x, y)

\* _emit_instruction, x the instruction, v(i) its operands.
Perform(module, m, x) ==
  LET t == Top(m)
      fn == module[t.f]
      v(i) == t.vals[x.a[i]]
      args == [i \in DOMAIN x.a |-> v(i)]
  IN CASE x.op \in {"PHI", "NOP"} -> Result(m, 0, 0)
       [] x.op \in ConstOps -> Result(m, x.r, x.n)
       [] x.op \in DOMAIN CalcOf \cup {"AND", "OR", "SHL"} ->
            Result(m, x.r, Arith(x.op, v(1), v(2)))
       [] x.op = "NOT" -> Result(m, x.r, Truth(v(1) = 0))
       [] x.op = "NEG" -> Result(m, x.r, -v(1))
       [] x.op = "SELECT" -> Result(m, x.r, IF v(1) # 0 THEN v(2) ELSE v(3))
       [] x.op = "LIST_GET" -> Result(m, x.r, x.t[v(1) + 1])
       [] x.op = "LOAD_GLOBAL" -> Result(m, x.r, IF x.s \in DOMAIN m.globals THEN m.globals[x.s] ELSE 0)
       [] x.op = "STORE_GLOBAL" -> Result([m EXCEPT !.globals = x.s :> v(1) @@ @], 0, 0)
       [] x.op = "PRINTLN" -> Result([m EXCEPT !.out = Append(@, v(1))], 0, 0)
       [] x.op = "ASSERT" -> IF v(1) = 0 THEN Stop(m, "exit") ELSE Result(m, 0, 0)
       [] x.op = "JUMP" -> Goto(module, m, x.t[1], TRUE)
       [] x.op = "BRANCH" -> Goto(module, m, IF v(1) = 0 THEN Last(x.t) ELSE Behind(fn.order, t.at), TRUE)
       [] x.op = "CALL" ->
            IF Len(m.frames) = MAX_FRAMES THEN Stop(m, "frames")
            ELSE [m EXCEPT !.frames = Append(@, Frame(module[x.s], x.s, args, x.r))]
       [] x.op = "RETURN" -> Leave(m, v(1))
       [] x.op = "RETURN_VOID" -> Leave(m, 0)
       [] x.op = "TRY_BEGIN" ->
            Goto(module, [m EXCEPT !.handlers = Append(@, [exc |-> x.s, to |-> Last(x.t), frame |-> t,
                                                           depth |-> Len(m.frames)])],
                 Behind(fn.order, t.at), FALSE)
       [] x.op = "TRY_END" ->
            Result([m EXCEPT !.handlers = IF @ = <<>> THEN @ ELSE Front(@)], 0, 0)
       [] x.op = "RAISE" -> Catch(m, x.s)

\* One instruction.  A block that ends without a jump is the last one.
Advance(module, m) ==
  LET t == Top(m)
      is == module[t.f].code[t.at]
      x == is[t.i]
  IN IF t.i > Len(is) THEN Stop(m, "off the code")
     ELSE IF x.op # "PHI" /\ \E i \in DOMAIN x.a : x.a[i] \notin DOMAIN t.vals THEN Stop(m, "undefined")
     ELSE Perform(module, m, x)
=============================================================================
