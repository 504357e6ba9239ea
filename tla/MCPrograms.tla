------------------------------ MODULE MCPrograms ------------------------------
(* The programs the engines are compared on: two statements around a third, *)
(* in main or in f, and pairs of statements in one.                         *)
EXTENDS FrSyntax

one == Const(1)
Inc(x) == Var(x, Bin("Add", Id(x), one))

\* The statement in the middle.
Leaves ==
  {Println(Id("x")), Inc("x"), Var("x", Bin("Sub", CallE("f", <<Id("x")>>), one)),
   Inc("g"), Call("f", <<one>>, "int"), AssertThat(Bin("Eq", Id("x"), Const(0))),
   Break(1), Break(2), Continue(1), Continue(2), Raise("E"), Raise("F"), Return(Const(7))}

Kinds == {"if", "else", "elif", "while", "for", "down", "for_in", "switch", "try", "and"}

\* One statement of each kind around s; i is a name no other statement uses.
Around(kind, i, s) ==
  LET zero == Bin("Eq", Id("x"), Const(0))
      small == Bin("Lt", Id("x"), Const(2))
  IN CASE kind = "if" -> <<If(zero, s, <<>>, <<>>)>>
       [] kind = "else" -> <<If(zero, <<Inc("x")>>, <<>>, s)>>
       [] kind = "other" -> <<If(zero, <<Println(Const(4))>>, <<>>, s)>>
       [] kind = "elif" ->
            <<If(zero, s, <<Elif(small, <<Println(Const(4))>> \o s), Elif(Id("x"), s)>>,
                 <<Println(Const(5))>>)>>
       [] kind = "while" ->
            <<Decl(i, Const(0)), While(Bin("Lt", Id(i), Const(2)), <<Inc(i)>> \o s \o <<Inc("x")>>)>>
       [] kind = "for" -> <<For(i, Const(0), Const(2), 1, s \o <<Inc("g"), Println(Id(i))>>)>>
       [] kind = "down" -> <<For(i, Const(2), Const(0), -1, s \o <<Inc("x"), Println(Id(i))>>)>>
       [] kind = "for_in" -> <<ForIn(i, <<6, 8>>, s \o <<Inc("x"), Println(Id(i))>>)>>
       [] kind = "switch" ->
            <<Switch(Id("x"), <<Case(<<0, 3>>, s), Case(<<1>>, <<Inc("x")>> \o s)>>, <<Println(Const(3))>>)>>
       [] kind = "try" -> <<Try(s \o <<Println(Const(2))>>, "E", <<Println(Const(9))>>)>>
       [] kind = "and" ->
            <<If(BoolOp("And", <<BoolOp("Or", <<zero, Id("g")>>), small>>), s, <<>>, <<Inc("g")>>)>>

Loops == {"while", "for", "down", "for_in"}

\* What the two engines are known to do differently stays out: leaving a try
\* other than through its end, and variables after an exception that crossed a call.
Level(o, i) == Cardinality({k \in {1, 2} : <<o, i>>[k] \in Loops})
Fits(host, o, i, s) ==
  /\ s.type \in {"break", "continue"} =>
       /\ s.level <= Level(o, i)
       /\ i # "try" /\ (o = "try" => i \in Loops /\ s.level = 1)
  /\ s.type = "return" => "try" \notin {o, i} /\ host = "f"
  /\ host = "f" => s.type # "call" /\ (s.type = "var" => s.value.op # "call" /\ s.value.left.op # "call")
  /\ (o = "try" /\ i = "try") => s.type # "raise"

Helper == Func(<<"a">>, FALSE,
  <<If(Id("a"), <<Return(Bin("Add", Id("a"), Id("g")))>>, <<>>, <<>>), Return(Const(2))>>)

\* x is 0 from the start, or the value of a global which is.
Program(host, o, i, s, start) ==
  LET nest == Around(o, "i", Around(i, "j", <<s>>))
      body == <<Decl("x", start)>> \o nest
      f == IF host = "main" THEN Helper
           ELSE Func(<<"x">>, FALSE, nest \o <<Println(Id("x")), Return(Id("x"))>>)
      main == IF host = "main" THEN body \o <<Println(Id("x")), Println(Id("g"))>>
              ELSE <<Println(Bin("Add", one, CallE("f", <<Const(0)>>))),
                     Call("f", <<one>>, "int"),
                     Try(<<Call("f", <<Const(2)>>, "int")>>, "F", <<>>), Println(Const(0))>>
  IN [globals |-> <<Decl("g", Const(0))>>, funcs |-> [main |-> Func(<<>>, TRUE, main), f |-> f]]

Nests ==
  {Program(q[1], q[2], q[3], q[4], Const(0)) :
     q \in {p \in {"main", "f"} \X Kinds \X Kinds \X Leaves : Fits(p[1], p[2], p[3], p[4])}}
\* Pairs of statements the optimizer has rules for, in the body of each kind.
Pool ==
  LET less == Bin("Lt", Id("x"), Id("y"))
      cases == [k \in 1 .. 6 |-> Case(<<k - 1>>, <<Var("y", Bin("Add", Id("y"), Const(k)))>>)]
  IN {Var("y", Id("x")), Var("y", Bin("Mult", Id("x"), Id("y"))), Var("y", Un("USub", Id("x"))),
      Var("y", Const(5)), Inc("x"), Var("y", Bin("Sub", Id("y"), one)),
      If(Un("Not", less), <<Var("y", one)>>, <<>>, <<Var("y", Const(4))>>),
      If(Un("Not", Id("g")), <<Println(Id("x"))>>, <<>>, <<>>),
      Println(CallE("f", <<Id("x"), Id("x"), Id("y")>>)),
      Switch(Id("x"), cases, <<Println(Id("y"))>>),
      For("k", Const(0), Const(2), 1, <<Var("y", Bin("Add", Id("y"), Id("k")))>>),
      Println(Bin("Add", Bin("Mod", Id("x"), Const(3)), Id("y")))}

Body(kind, scope, after) ==
  LET nest == IF kind = "none" THEN scope ELSE Around(kind, "i", scope)
      f == Func(<<"a", "b", "c">>, FALSE,
             <<Return(Bin("Sub", Bin("Add", Id("a"), Id("b")), Bin("Mult", Id("c"), Const(2))))>>)
      main == <<Decl("x", Const(2)), Decl("y", Const(1))>> \o nest
                \o after
  IN [globals |-> <<Decl("g", Const(0))>>, funcs |-> [main |-> Func(<<>>, TRUE, main), f |-> f]]
Pair(kind, s, t) == Body(kind, <<s, t>>, <<Println(Id("x")), Println(Id("y"))>>)

-----------------------------------------------------------------------------
\* The programs in which the IR builder enters no block with a value that was
\* computed on another way.
Arms(n) ==
  CASE n.type = "if" -> <<n.scope>> \o [k \in DOMAIN n.elifs |-> n.elifs[k].scope] \o <<n.else>>
    [] n.type \in {"while", "for", "for_in"} -> <<n.scope>>
    [] n.type = "switch" -> [k \in DOMAIN n.cases |-> n.cases[k].body] \o <<n.default>>
    [] n.type = "try" -> <<n.try_scope, n.except_scope>>
    [] OTHER -> <<>>

\* The locals a scope assigns.
RECURSIVE Writes(_), Agree(_, _)
Writes(scope) ==
  UNION {LET n == scope[i] IN
           {n.name : k \in {1} \cap (IF n.type = "var" /\ n.name # "g" THEN {1} ELSE {})}
             \cup {n.var : k \in {1} \cap (IF n.type \in {"for", "for_in"} THEN {1} ELSE {})}
             \cup UNION {Writes(Arms(n)[k]) : k \in DOMAIN Arms(n)} : i \in DOMAIN scope}
\* The scopes on which the builder and the program agree: only the last of
\* several arms assigns, nothing does in a try, and nothing leaves a loop or
\* comes back to its head from elsewhere.
Agree(scope, loop) ==
  \A i \in DOMAIN scope :
    LET n == scope[i]
        arms == Arms(n)
        loops == n.type \in {"while", "for", "for_in"}
    IN /\ \A k \in DOMAIN arms : Agree(arms[k], IF loops THEN n.type ELSE loop)
       /\ n.type \notin {"switch", "break", "continue"}
       /\ n.type = "return" => loop = ""
       /\ n.type = "try" => Writes(n.try_scope) = {}
       /\ n.type = "if" /\ n.elifs \o n.else # <<>> =>
            \A k \in 1 .. Len(arms) - 1 : Writes(arms[k]) = {}
       /\ n.type = "if" /\ loop \in {"for", "for_in"} =>
            Writes(n.scope \o n.else) \cap Writes(SubSeq(scope, i + 1, Len(scope))) = {}

Agrees(prog) == \A f \in DOMAIN prog.funcs : Agree(prog.funcs[f].scope, "")
=============================================================================
