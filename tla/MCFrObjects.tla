----------------------------- MODULE MCFrObjects -----------------------------
(* Instances of FrObjects for TLC, and a sentence of                       *)
(* src/doc/memory_and_pointers.md that the runtime does not keep.          *)
EXTENDS FrObjects, TLC

Symmetry == Permutations(Obj) \cup Permutations(Global) \cup Permutations(Index)

\* "Stores into globals, lists and reference-typed struct fields ... retain the
\* value ... freed if no other owner remains": at rest, no global or field is
\* left referring to a freed object.
StoreRetains ==
  Ready => \A p \in Global \cup (live \X Index) : cell[p] # Nil => cell[p] \in live
==============================================================================
