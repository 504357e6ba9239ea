-------------------------------- MODULE Engines --------------------------------
(***************************************************************************)
(* One program, two engines: the tree walk of runtime.py says what the     *)
(* program means, the code of compiler.py on the interpreter of vm.c has   *)
(* to do it, as it comes from the compiler and after the bytecode          *)
(* optimizer.                                                              *)
(***************************************************************************)
EXTENDS StackVm, BytecodeOpt
W == INSTANCE TreeWalk

CONSTANTS
  Inputs,  \* [prog, optimize, spread]: a program, [globals |-> Decls, funcs |->
           \* name :> Func], whether it is optimized, and how it is laid out
  Fuel     \* iterations the tree walk may take

ASSUME EnginesAssumption == Fuel \in Nat

VARIABLES
  input,    \* the program and what is done to it; <<>> once it is loaded
  img,      \* what the loader made of the bytecode
  m,        \* the state of the C VM
  promise   \* what the tree walk shows of the program
vars == <<input, img, m, promise>>

\* The functions in the order of the source: main comes last.
Order == <<"f", "main">>
\* compiler.py and bytecode_opt.py on each of the programs, as the loader has it.
Compiled(in) ==
  [f \in DOMAIN in.prog.funcs |->
     LET code == CompileFunction(in.prog, f, in.spread).out
     IN IF in.optimize THEN Optimize(code) ELSE code]
Images == [in \in Inputs |-> Image(Order, Compiled(in))]
Promises == [in \in Inputs |-> W!Observed(in.prog, Fuel)]

Init ==
  /\ input \in {<<in>> : in \in Inputs}
  /\ img = <<>> /\ m = [status |-> "source"] /\ promise = <<>>

Load ==
  /\ m.status = "source"
  /\ img' = Images[input[1]]
  /\ m' = Boot(img')
  /\ promise' = Promises[input[1]]
  /\ input' = <<>>

Turn ==
  /\ m.status = "running"
  /\ m' = Step(img, m)
  /\ UNCHANGED <<input, img, promise>>

Next == Load \/ Turn

\* The interpreter loop goes on while it can; nobody has to start a program.
Spec == Init /\ [][Next]_vars /\ WF_vars(Turn)

-----------------------------------------------------------------------------
\* The machine has a frame to run in and stays inside its stacks.
TypeOK ==
  m.status # "source" =>
  /\ m.pc \in 1 .. Len(img.code) + 1
  /\ m.top \in 1 .. MAX_CALL_STACK /\ m.cur \in DOMAIN m.frames
  /\ Len(m.stack) <= MAX_STACK
  /\ \A i \in DOMAIN m.handlers : m.handlers[i].pc \in DOMAIN img.code

\* The compiler never writes code the machine gives up on: every label is there,
\* no instruction misses an operand, control stays in the code.
CodeSound == TypeOK /\ m.status \in {"source", "running", "done", "uncaught", "exit"}

\* Between two statements of main the operand stack is empty, whatever break,
\* continue or except block led there.
LabelsBalanced ==
  (m.status = "running" /\ m.top = 1 /\ m.pc \in DOMAIN img.code /\ img.code[m.pc].op = "LABEL")
    => m.stack = <<>>

\* The compiled program never prints what the tree walk does not, nor in
\* another order.
OutputPromised ==
  m.status # "source" =>
  /\ Len(m.out) <= Len(promise.out)
  /\ m.out = SubSeq(promise.out, 1, Len(m.out))

\* When it stops it has printed everything, and stops for the same reason.
SameEnd ==
  m.status \notin {"source", "running"} =>
    /\ m.out = promise.out
    /\ promise.end.kind = CASE m.status = "done" -> "return"
                            [] m.status = "uncaught" -> "raise"
                            [] m.status = "exit" -> "exit"
                            [] OTHER -> m.status

\* Every program of the family ends, jumps and loops included.
Terminates == m.status = "running" ~> m.status # "running"
=============================================================================
