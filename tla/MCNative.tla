------------------------------- MODULE MCNative -------------------------------
(* Instances for Native: those of the programs of MCPrograms on which the IR   *)
(* builder and the program agree.                                              *)
EXTENDS Native, MCPrograms

Optimized(progs) == [prog : progs, optimize : {TRUE}, spread : {TRUE}]

NestKinds == (Kinds \ {"else"}) \cup {"other"}
NestInputs ==
  {Program(q[1], q[2], q[3], q[4], Id("g")) :
     q \in {p \in {"main", "f"} \X NestKinds \X NestKinds \X Leaves :
              /\ Fits(p[1], p[2], p[3], p[4])
              /\ p[1] = "f" => p[4].type \in {"raise", "return", "var"} /\ <<p[2], p[3]>> # <<"for", "and">>}}
PairInputs ==
  {Pair(q[1], q[2], q[3]) : q \in {"while", "for"} \X Pool \X Pool}

\* A variable that follows another through a loop, and products the passes rewrite.
Lag == <<Println(Id("x")), Var("x", Id("y")), Inc("y")>>
Times(n) == <<Println(Bin("Mult", Id("x"), Const(n))), Inc("x")>>
BodyInputs ==
  {Body("for", Lag, <<>>)}
    \cup {Body(q[1], q[2], <<Println(Id("x"))>>) :
            q \in {"none", "while", "for"} \X {Times(n) : n \in {0, 1, 2, 8}}}

\* A variable that follows another one; both are read after the loop.
CarryInputs ==
  Optimized({Body("for", <<Var("x", Id("y")), Inc("y")>>, <<Println(Id("x")), Println(Id("y"))>>)})

MCInputs == Optimized({p \in NestInputs \cup PairInputs \cup BodyInputs : Agrees(p)})
=============================================================================
