------------------------ MODULE StructuredExceptions ------------------------
(***************************************************************************)
(* try and raise as the language means them, read from the Python VM       *)
(* (src/src/runtime.py), whose try statement is Python's own: a raised     *)
(* exception goes to the innermost try body that is running and names its  *)
(* type; an except block, or a try that was left, catches nothing.         *)
(*                                                                         *)
(* The position of a program is the sequence of try statements it is in,   *)
(* outermost first, over all the functions on its call stack.              *)
(***************************************************************************)
EXTENDS Integers, FiniteSets, Sequences, SequencesExt

CONSTANTS
  Exc,                      \* exception types
  MaxFrames,                \* bound: depth of the call stack
  MAX_EXCEPTION_HANDLERS    \* try statements a program can be in at once

ASSUME StructuredAssumption ==
  MaxFrames \in Nat \ {0} /\ MAX_EXCEPTION_HANDLERS \in Nat

VARIABLES
  depth,     \* frames on the call stack
  tries,     \* the try statements the program is in
  outcome    \* "running", or how the program ended

position == <<depth, tries, outcome>>

Try == [frame : 1 .. MaxFrames, exc : Exc, phase : {"body", "except"}]
Running == outcome = "running"
InBody(e) == [frame |-> depth, exc |-> e, phase |-> "body"]
\* The current function is inside one of its own try statements.
Inside == tries # <<>> /\ Last(tries).frame = depth

\* The try bodies an exception of type e can go to, and going to one of them.
Catchers(e) == {k \in DOMAIN tries : tries[k].exc = e /\ tries[k].phase = "body"}
CatchAt(k) ==
  /\ depth' = tries[k].frame
  /\ tries' = [SubSeq(tries, 1, k) EXCEPT ![k].phase = "except"]
  /\ UNCHANGED outcome

End(how) == outcome' = how /\ UNCHANGED <<depth, tries>>

EnterTry(e) ==
  /\ Running /\ Len(tries) < MAX_EXCEPTION_HANDLERS
  /\ tries' = Append(tries, InBody(e))
  /\ UNCHANGED <<depth, outcome>>

\* A back end may give up on a program that is in too many try statements.
TooDeep == Running /\ Len(tries) >= MAX_EXCEPTION_HANDLERS /\ End("too deep")

\* The end of a try body or of an except block.
LeaveTry ==
  /\ Running /\ Inside
  /\ tries' = Front(tries)
  /\ UNCHANGED <<depth, outcome>>

Call ==
  /\ Running /\ depth < MaxFrames
  /\ depth' = depth + 1
  /\ UNCHANGED <<tries, outcome>>

\* The try statements of the frame go with it.
Return ==
  /\ Running
  /\ IF depth = 1 THEN End("returned")
     ELSE /\ depth' = depth - 1
          /\ \E n \in 0 .. Len(tries) :
               /\ \A k \in DOMAIN tries : k <= n <=> tries[k].frame < depth
               /\ tries' = SubSeq(tries, 1, n)
          /\ UNCHANGED outcome

Raise(e) ==
  /\ Running
  /\ IF Catchers(e) = {} THEN End("uncaught")
     ELSE CatchAt(CHOOSE k \in Catchers(e) : \A j \in Catchers(e) : j <= k)

Ended == ~Running /\ UNCHANGED position

Init == depth = 1 /\ tries = <<>> /\ outcome = "running"

Next ==
  \/ \E e \in Exc : EnterTry(e) \/ Raise(e)
  \/ TooDeep \/ LeaveTry \/ Call \/ Return \/ Ended

StructuredSpec == Init /\ [][Next]_position
==============================================================================
