--------------------------------- MODULE Native ---------------------------------
(***************************************************************************)
(* One program, the tree walk and the native back end: the optimized       *)
(* bytecode of compiler.py is made into IR by ir_builder.py, the passes go *)
(* over the IR, and what codegen.py emits for it has to do what the tree   *)
(* walk promises.                                                          *)
(***************************************************************************)
EXTENDS IrMachine, BytecodeOpt
W == INSTANCE TreeWalk

CONSTANTS
  Inputs,     \* [prog, optimize, spread], as in Engines
  Fuel,       \* iterations the tree walk may take
  MAX_ROUNDS  \* OptimizerConfig.max_iterations

ASSUME NativeAssumption == Fuel \in Nat /\ MAX_ROUNDS \in Nat

VARIABLES
  input,    \* the program and what is done to it; <<>> once it is compiled
  bytecode, \* function name :> optimized bytecode
  module,   \* the IR, function name :> IR
  passes,   \* [todo, pure, dirty, round]: what run_passes has before it
  m,        \* the state of the machine; its status is that of the whole run
  promise   \* what the tree walk shows of the program
vars == <<input, bytecode, module, passes, m, promise>>

Voids(prog) == {f \in DOMAIN prog.funcs : prog.funcs[f].void}
Init ==
  /\ input \in {<<in>> : in \in Inputs}
  /\ bytecode = <<>> /\ module = <<>> /\ passes = <<>>
  /\ m = [status |-> "source"] /\ promise = <<>>

\* compiler.py and bytecode_opt.py on each of the programs.
Bytecodes ==
  [in \in Inputs |->
     [f \in DOMAIN in.prog.funcs |->
        [code |-> Optimize(CompileFunction(in.prog, f, in.spread).out),
         arity |-> Len(in.prog.funcs[f].args), voids |-> Voids(in.prog)]]]
Promises == [in \in Inputs |-> W!Observed(in.prog, Fuel)]

Compile ==
  /\ m.status = "source"
  /\ bytecode' = Bytecodes[input[1]]
  /\ promise' = Promises[input[1]]
  /\ m' = [status |-> "bytecode"]
  /\ input' = <<>>
  /\ UNCHANGED <<module, passes>>

\* _parse_one_function, the passes of the builder over every function: blocks and
\* edges, the phi nodes, and what is left to repoint.
Build ==
  /\ m.status = "bytecode"
  /\ module' = [f \in DOMAIN bytecode |->
                  BuildEdges(Simulate(bytecode[f].code, bytecode[f].arity, bytecode[f].voids))]
  /\ m' = [status |-> "blocks"]
  /\ UNCHANGED <<input, bytecode, passes, promise>>
InsertPhis ==
  /\ m.status = "blocks"
  /\ module' = [f \in DOMAIN module |-> Rounds(module[f], 10)]
  /\ m' = [status |-> "phis"]
  /\ UNCHANGED <<input, bytecode, passes, promise>>
Finish ==
  /\ m.status = "phis"
  /\ module' = [f \in DOMAIN module |-> IrOf(Settle(module[f]), bytecode[f].arity)]
  /\ m' = [status |-> "ir"]
  /\ passes' = [todo |-> Basic, pure |-> MarkPurity(module'), dirty |-> FALSE, round |-> 1]
  /\ bytecode' = <<>>
  /\ UNCHANGED <<input, promise>>

\* The next pass, over every function.
Pass ==
  /\ m.status = "ir" /\ passes.todo # <<>>
  /\ module' = [f \in DOMAIN module |-> Applied(Head(passes.todo), module[f], passes.pure)]
  /\ passes' = [passes EXCEPT !.todo = Tail(@), !.dirty = @ \/ module' # module]
  /\ UNCHANGED <<input, bytecode, m, promise>>

\* The end of a round: another one when this one changed something.
Round ==
  /\ m.status = "ir" /\ passes.todo = <<>>
  /\ passes.dirty /\ passes.round < MAX_ROUNDS
  /\ passes' = [todo |-> Basic, pure |-> MarkPurity(module), dirty |-> FALSE,
                round |-> passes.round + 1]
  /\ UNCHANGED <<input, bytecode, module, m, promise>>

\* Nothing is left to do but the last clean-up.
Finished ==
  /\ m.status = "ir" /\ passes.todo = <<>>
  /\ ~passes.dirty \/ passes.round = MAX_ROUNDS
Final == RemoveUnused([f \in DOMAIN module |-> Dce(module[f], passes.pure)])
Generate ==
  /\ Finished
  /\ LET last == Final IN module' = [f \in DOMAIN last |-> Emitted(last[f])]
  /\ m' = Start(module')
  /\ passes' = <<>>
  /\ UNCHANGED <<input, bytecode, promise>>

Turn ==
  /\ m.status = "running"
  /\ m' = Advance(module, m)
  /\ UNCHANGED <<input, bytecode, module, passes, promise>>

Next == Compile \/ Build \/ InsertPhis \/ Finish \/ Pass \/ Round \/ Generate \/ Turn
Spec == Init /\ [][Next]_vars

-----------------------------------------------------------------------------
\* The blocks of fn that are reached from ls without going through block l.
RECURSIVE ReachedWithout(_, _, _)
ReachedWithout(fn, l, ls) ==
  LET more == UNION {{fn.succs[k][i] : i \in DOMAIN fn.succs[k]} : k \in ls \ {l}}
  IN IF more \subseteq ls THEN ls ELSE ReachedWithout(fn, l, ls \cup more)
\* A value is used only where its definition has been passed on every way from
\* the entry; what a phi node reads, at the end of the block it comes from.
UsesReached ==
  m.status = "ir" => \A f \in DOMAIN module :
    LET fn == module[f]
        entry == Head(fn.order)
        from == [l \in DOMAIN fn.code |-> ReachedWithout(fn, l, {entry})]
        live == Reachable(fn, {entry})
        home == [v \in DOMAIN Definitions(fn) |->
                   CHOOSE l \in DOMAIN fn.code : \E i \in DOMAIN fn.code[l] : fn.code[l][i].r = v]
        dominates(v, l) == v \in 1 .. fn.arity \/ (v \in DOMAIN home /\ l \notin from[home[v]] \ {home[v]})
    IN \A l \in live : \A i \in DOMAIN fn.code[l] :
         LET x == fn.code[l][i] IN
         IF x.op = "PHI"
         THEN \A j \in DOMAIN x.a : x.t[j] \in live => dominates(x.a[j], x.t[j])
         ELSE \A j \in DOMAIN x.a :
                /\ dominates(x.a[j], l)
                /\ \A k \in i .. Len(fn.code[l]) : fn.code[l][k].r # x.a[j]

\* Every way into a block with phi nodes brings each of them a value.
PhisCovered ==
  m.status = "ir" => \A f \in DOMAIN module : \A l \in DOMAIN module[f].code :
    LET ps == Phis(module[f].code[l]) IN
    \A i \in DOMAIN ps : \A p \in Reachable(module[f], {Head(module[f].order)}) :
      (\E j \in DOMAIN module[f].succs[p] : module[f].succs[p][j] = l) =>
        \E j \in DOMAIN ps[i].t : ps[i].t[j] = p
\* Both: what makes each use of a value read the one definition meant for it.
SsaForm == UsesReached /\ PhisCovered

\* The block a branch goes to when it is not taken is the one behind it: that is
\* where codegen.py lets it fall through to.
FallsThrough ==
  m.status = "ir" => \A f \in DOMAIN module : \A l \in DOMAIN module[f].code :
    LET term == Terminator(module[f].code[l]) IN
    term.op \in {"BRANCH", "TRY_BEGIN"} /\ Len(term.t) = 2 => term.t[1] = Behind(module[f].order, l)

Compiling == {"source", "bytecode", "blocks", "phis", "ir"}
\* The program never prints what the tree walk does not, nor in another order.
OutputPromised ==
  m.status \notin Compiling =>
  /\ Len(m.out) <= Len(promise.out)
  /\ m.out = SubSeq(promise.out, 1, Len(m.out))

\* When it stops it has printed everything, and stops for the same reason.
SameEnd ==
  m.status \notin Compiling \cup {"running"} =>
    /\ m.out = promise.out
    /\ promise.end.kind = CASE m.status = "done" -> "return"
                            [] m.status = "uncaught" -> "raise"
                            [] m.status = "exit" -> "exit"
                            [] OTHER -> m.status

\* The passes stop because nothing is left to do, not because the rounds are
\* used up: none undoes what another has done.
Settles == m.status = "ir" /\ passes.round = MAX_ROUNDS => ~passes.dirty
=============================================================================
