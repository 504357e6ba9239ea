-------------------------- MODULE NativeExceptions --------------------------
(***************************************************************************)
(* Exceptions of natively compiled programs: the stack of handlers of      *)
(* src/runtime/fr_rt.c, and the calls that src/src/optimizer/codegen.py    *)
(* compiles TRY_BEGIN, TRY_END and RAISE to.  A handler stays on the stack *)
(* when it catches; the TRY_END that ends the except block takes it off.   *)
(*                                                                         *)
(* Scopes are left to FrObjects: its Raise is the unwinding done here.     *)
(***************************************************************************)
EXTENDS StructuredExceptions

CONSTANTS
  Matched,       \* an exception goes to the innermost try body, or to none
  ReturnInTry    \* programs return from inside a try statement

ASSUME NativeAssumption == Matched \in BOOLEAN /\ ReturnInTry \in BOOLEAN

VARIABLE
  handlers   \* exception_handlers[0 .. exception_handler_count - 1]

nativeVars == <<position, handlers>>

HandlerSet == [exc : Exc, frame : 1 .. MaxFrames, at : Seq(Try), returned : BOOLEAN]
\* The jump buffer remembers where the program was, and its frame.
Handler(e) == [exc |-> e, frame |-> depth, at |-> tries, returned |-> FALSE]

Pop == IF handlers = <<>> THEN handlers ELSE Front(handlers)

\* Mutant: the limit is not looked at.
TryBeginUnchecked(e) ==
  /\ Running
  /\ tries' = Append(tries, InBody(e))
  /\ handlers' = Append(handlers, Handler(e))
  /\ UNCHANGED <<depth, outcome>>

\* TRY_BEGIN: runtime_exception_push, then _setjmp.
TryBegin(e) ==
  \/ /\ Len(handlers) < MAX_EXCEPTION_HANDLERS
     /\ EnterTry(e)
     /\ handlers' = Append(handlers, Handler(e))
  \/ /\ Running /\ Len(handlers) >= MAX_EXCEPTION_HANDLERS
     /\ End("too deep")
     /\ UNCHANGED handlers

\* Mutant: the end of an except block does not pop.
TryEndOfBody ==
  LeaveTry /\ handlers' = IF Last(tries).phase = "body" THEN Pop ELSE handlers

\* TRY_END: runtime_exception_pop.
TryEnd == LeaveTry /\ handlers' = Pop

NativeCall == Call /\ UNCHANGED handlers

\* RETURN does not look at handlers; jump buffers of the frame are now stale.
NativeReturn ==
  /\ ReturnInTry \/ ~Inside
  /\ Return
  /\ handlers' = [i \in DOMAIN handlers |->
       IF handlers[i].frame = depth THEN [handlers[i] EXCEPT !.returned = TRUE]
       ELSE handlers[i]]

Matching(e) == {i \in DOMAIN handlers : handlers[i].exc = e}

\* longjmp: the program continues in the except block of the try, as it was
\* when the handler was pushed; in a frame that returned, anywhere.
LongJump(h) ==
  \/ /\ ~h.returned
     /\ depth' = h.frame
     /\ tries' = Append(h.at, [frame |-> h.frame, exc |-> h.exc, phase |-> "except"])
     /\ UNCHANGED outcome
  \/ h.returned /\ End("lost")

\* Mutant: the handlers are searched from the bottom.
OldestHandler(e) == handlers[CHOOSE i \in Matching(e) : \A j \in Matching(e) : j >= i]

\* The loop of runtime_exception_raise and runtime_error_at, from the top.
NewestHandler(e) == handlers[CHOOSE i \in Matching(e) : \A j \in Matching(e) : j <= i]

NativeRaise(e) ==
  /\ Running
  /\ Matched /\ Matching(e) # {} => Last(tries).exc = e /\ Last(tries).phase = "body"
  /\ IF Matching(e) = {} THEN End("uncaught") ELSE LongJump(NewestHandler(e))
  /\ UNCHANGED handlers

NativeEnded == Ended /\ UNCHANGED handlers

NativeInit == Init /\ handlers = <<>>

NativeNext ==
  \/ \E e \in Exc : TryBegin(e) \/ NativeRaise(e)
  \/ TryEnd \/ NativeCall \/ NativeReturn \/ NativeEnded

NativeSpec == NativeInit /\ [][NativeNext]_nativeVars

------------------------------------------------------------------------------
TypeOK ==
  /\ depth \in 1 .. MaxFrames
  /\ outcome \in {"running", "returned", "uncaught", "too deep", "lost"}
  /\ tries \in Seq(Try) /\ Len(tries) <= MAX_EXCEPTION_HANDLERS
  /\ handlers \in Seq(HandlerSet)
  /\ Len(handlers) <= MAX_EXCEPTION_HANDLERS

\* The handlers on the stack are those of the try statements the program is
\* in, in their order, each with a jump buffer into a frame that is still there:
\* an exception never goes back to a try that has ended.
HandlersMatch ==
  Running =>
    /\ Len(handlers) = Len(tries)
    /\ \A i \in DOMAIN handlers :
         /\ handlers[i].exc = tries[i].exc /\ handlers[i].frame = tries[i].frame
         /\ handlers[i].at = SubSeq(tries, 1, i - 1)
         /\ ~handlers[i].returned

==============================================================================
