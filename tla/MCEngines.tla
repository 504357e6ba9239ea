------------------------------- MODULE MCEngines -------------------------------
(* Instances for Engines. *)
EXTENDS Engines, MCPrograms

\* Two that become SELECT on one line stay out: the optimizer writes their
\* condition twice.
Selects(s) == s.type = "if" /\ s.else # <<>>
PairInputs ==
  {[prog |-> Pair(q[1], q[2], q[3]), optimize |-> TRUE, spread |-> q[4]] :
     q \in {p \in {"none", "while", "for", "else", "try"} \X Pool \X Pool \X BOOLEAN :
              p[4] \/ ~(Selects(p[2]) /\ Selects(p[3]))}}

MCInputs == [prog : Nests, optimize : {FALSE}, spread : {TRUE}] \cup PairInputs
=============================================================================
