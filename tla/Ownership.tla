------------------------------ MODULE Ownership ------------------------------
(***************************************************************************)
(* What src/doc/memory_and_pointers.md promises of native heap objects,    *)
(* without counts, lists or call stack: an object is owned by the scope    *)
(* that created it, by the places that refer to it and by the callers it   *)
(* was handed to; it is reclaimed after its last owner is gone, never      *)
(* before, and then it is reclaimed.                                       *)
(***************************************************************************)
EXTENDS Integers, FiniteSets

CONSTANTS Obj, Nil, Global, Index, Scope

VARIABLES
  live,    \* objects in use
  cell,    \* what each global, field or element refers to
  scope,   \* what each function scope owns
  given    \* references handed out that no place holds

vars == <<live, cell, scope, given>>

Place == Global \cup (Obj \X Index)
Usable == Global \cup (live \X Index)
Owned(o) ==
  \/ \E p \in Place : cell[p] = o
  \/ \E d \in Scope : o \in scope[d]
  \/ given[o] > 0

\* A new owner may take over the reference of one scope.
TakeOver(v) ==
  \/ UNCHANGED scope
  \/ \E d \in Scope : v \in scope[d] /\ scope' = [scope EXCEPT ![d] = @ \ {v}]

Create(o, d) ==
  /\ o \notin live
  /\ live' = live \cup {o}
  /\ scope' = [scope EXCEPT ![d] = @ \cup {o}]
  /\ UNCHANGED <<cell, given>>

Put(p, v) ==
  /\ p \in Usable /\ v \in live \cup {Nil}
  /\ cell' = [cell EXCEPT ![p] = v]
  /\ TakeOver(v)
  /\ UNCHANGED <<live, given>>

Hand(v) ==
  /\ v \in live
  /\ given' = [given EXCEPT ![v] = @ + 1]
  /\ TakeOver(v)
  /\ \/ UNCHANGED cell
     \/ \E p \in Usable : cell[p] = v /\ cell' = [cell EXCEPT ![p] = Nil]
  /\ UNCHANGED live

CloseScope(d) ==
  /\ scope' = [scope EXCEPT ![d] = {}]
  /\ UNCHANGED <<live, cell, given>>

\* What o referred to loses an owner.  A raw cell does not give its references
\* back: they are lost.
Reclaim(o) ==
  /\ o \in live /\ ~Owned(o)
  /\ live' = live \ {o}
  /\ cell' = [p \in Place |-> IF p \in {o} \X Index THEN Nil ELSE cell[p]]
  /\ \E lost \in SUBSET ({o} \X Index) :
       given' = [x \in Obj |->
                  given[x] + IF x \in live' THEN Cardinality({p \in lost : cell[p] = x}) ELSE 0]
  /\ UNCHANGED scope

Init ==
  /\ live = {}
  /\ cell = [p \in Place |-> Nil]
  /\ scope = [d \in Scope |-> {}]
  /\ given = [o \in Obj |-> 0]

Next ==
  \/ \E o \in Obj, d \in Scope : Create(o, d)
  \/ \E p \in Place, v \in Obj \cup {Nil} : Put(p, v)
  \/ \E o \in Obj : Hand(o) \/ Reclaim(o)
  \/ \E d \in Scope : CloseScope(d)

Spec == Init /\ [][Next]_vars /\ \A o \in Obj : WF_vars(Reclaim(o))
==============================================================================
