------------------------------ MODULE MCRegisters ------------------------------
(* Instances for Registers: the functions of programs of MCPrograms, behind   *)
(* two rounds of the passes.                                                  *)
EXTENDS Registers, MCPrograms

RegisterPrograms ==
  {Program("main", o, i, Println(Id("x")), Id("g")) :
     o \in {"while", "for", "if"}, i \in {"while", "for", "if", "try"}}
   \cup {Pair(k, s, t) : k \in {"while", "for"}, s \in Pool, t \in Pool}
   \cup {Body(k, <<Println(Bin("Add", Id("y"), Id(v))), s>>, <<Println(Id("x"))>>) :
           k \in {"while", "for"}, v \in {"x", "y"}, s \in Pool}
\* Two variables that change places, in a loop.
SwapBody == <<Decl("t", Id("x")), Var("x", Id("y")), Var("y", Id("t"))>>
SwapProgram == Body("for", SwapBody, <<Println(Id("x")), Println(Id("y"))>>)

MCInputs ==
  [prog : {p \in RegisterPrograms \cup {SwapProgram} : Agrees(p)}, optimize : {TRUE}, spread : {TRUE}]
FewRegs == {"rdi", "rsi", "rdx", "rbx", "rcx"}
MCFiles == {FewRegs, FewRegs \cup {"rax", "r10", "r12"}}
MCCallerSaved == {"rdi", "rsi", "rdx", "rcx", "rax", "r10", "r11"}
MCCalleeSaved == {"rbx", "r12"}
MCArgRegs == <<"rdi", "rsi">>
MCScratch == <<"reg", "r11">>
=============================================================================
