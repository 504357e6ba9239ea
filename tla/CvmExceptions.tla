---------------------------- MODULE CvmExceptions ----------------------------
(***************************************************************************)
(* Exceptions of the C VM (src/runtime/vm.c): the stack of handlers of     *)
(* TRY_BEGIN and TRY_END, and the search of vm_runtime_error, which pops   *)
(* every handler it looks at, the one that matches included.               *)
(*                                                                         *)
(* RAISE passes the type as a marker in front of the message.  The marker  *)
(* is gone when the next handler is tried: its type is then guessed from   *)
(* the message, as it is for errors the VM finds itself.                   *)
(***************************************************************************)
EXTENDS StructuredExceptions

CONSTANT
  ReturnInTry    \* programs return from inside a try statement

ASSUME CvmAssumption == ReturnInTry \in BOOLEAN

VARIABLES
  handlers,        \* exception_handlers[0 .. exception_handler_count - 1]
  current_frame    \* the frame whose variables the interpreter loop uses

cvmVars == <<position, handlers, current_frame>>

\* handler_pc and call_stack_top: where the try statement is.
Handler(e) == [exc |-> e, frame |-> depth, at |-> tries]

\* Mutant: the limit is not looked at.
TryBeginUnchecked(e) ==
  /\ Running
  /\ tries' = Append(tries, InBody(e))
  /\ handlers' = Append(handlers, Handler(e))
  /\ UNCHANGED <<depth, outcome, current_frame>>

\* TRY_BEGIN: a full handler stack ends the program.
TryBegin(e) ==
  \/ /\ Len(handlers) < MAX_EXCEPTION_HANDLERS
     /\ EnterTry(e)
     /\ handlers' = Append(handlers, Handler(e))
     /\ UNCHANGED current_frame
  \/ /\ Running /\ Len(handlers) >= MAX_EXCEPTION_HANDLERS
     /\ End("too deep")
     /\ UNCHANGED <<handlers, current_frame>>

\* TRY_END pops whatever is on top, if anything is.
TryEnd ==
  /\ LeaveTry
  /\ handlers' = IF handlers = <<>> THEN handlers ELSE Front(handlers)
  /\ UNCHANGED current_frame

CvmCall == Call /\ current_frame' = depth' /\ UNCHANGED handlers

CvmReturn ==
  /\ ReturnInTry \/ ~Inside
  /\ Return
  /\ current_frame' = depth'
  /\ UNCHANGED handlers

\* vm_runtime_error: the first handler from the top is compared with type first,
\* every other with type next.
Matching(first, next) ==
  {i \in DOMAIN handlers : handlers[i].exc = IF i = Len(handlers) THEN first ELSE next}

\* Mutant: the handler that matches is not popped.
ErrorKeeping(first, next) ==
  /\ Running
  /\ IF Matching(first, next) = {} THEN End("uncaught") /\ handlers' = <<>>
     ELSE LET k == CHOOSE i \in Matching(first, next) :
                     \A j \in Matching(first, next) : j <= i
          IN /\ depth' = handlers[k].frame
             /\ tries' = Append(handlers[k].at,
                  [frame |-> handlers[k].frame, exc |-> handlers[k].exc, phase |-> "except"])
             /\ handlers' = SubSeq(handlers, 1, k)
             /\ UNCHANGED outcome
  /\ UNCHANGED current_frame

\* vm_runtime_error: every handler that is looked at is popped.
Error(first, next) ==
  /\ Running
  /\ IF Matching(first, next) = {} THEN End("uncaught") /\ handlers' = <<>>
     ELSE LET k == CHOOSE i \in Matching(first, next) :
                     \A j \in Matching(first, next) : j <= i
          IN /\ depth' = handlers[k].frame
             /\ tries' = Append(handlers[k].at,
                  [frame |-> handlers[k].frame, exc |-> handlers[k].exc, phase |-> "except"])
             /\ handlers' = SubSeq(handlers, 1, k - 1)
             /\ UNCHANGED outcome
  /\ UNCHANGED current_frame

\* RAISE: what the message looks like need not be the type raised.
CvmRaise(e, looksLike) == Error(e, looksLike)
\* An error the VM reports: its message always looks like its type.
Fault(e) == Error(e, e)

CvmEnded == Ended /\ UNCHANGED <<handlers, current_frame>>

CvmInit == Init /\ handlers = <<>> /\ current_frame = 1

CvmNext ==
  \/ \E e \in Exc : TryBegin(e) \/ Fault(e)
  \/ \E e, looksLike \in Exc : CvmRaise(e, looksLike)
  \/ TryEnd \/ CvmCall \/ CvmReturn \/ CvmEnded

CvmSpec == CvmInit /\ [][CvmNext]_cvmVars

------------------------------------------------------------------------------
TypeOK ==
  /\ depth \in 1 .. MaxFrames /\ current_frame \in 1 .. MaxFrames
  /\ outcome \in {"running", "returned", "uncaught", "too deep"}
  /\ tries \in Seq(Try) /\ Len(tries) <= MAX_EXCEPTION_HANDLERS
  /\ handlers \in Seq([exc : Exc, frame : 1 .. MaxFrames, at : Seq(Try)])
  /\ Len(handlers) <= MAX_EXCEPTION_HANDLERS

\* The try body that the handler was pushed for.
TryOf(h) == Append(h.at, [frame |-> h.frame, exc |-> h.exc, phase |-> "body"])

\* A handler on the stack is that of a try body that is still running, and
\* handlers are ordered as these are: whatever was popped too early or passed
\* over, an exception never goes back to a try that has ended.
HandlersLive ==
  Running =>
    /\ \A i \in DOMAIN handlers : IsPrefix(TryOf(handlers[i]), tries)
    /\ \A i, j \in DOMAIN handlers : i < j => Len(handlers[i].at) < Len(handlers[j].at)

\* "End an exception handler block": TRY_END takes off the handler of its own
\* try, so that every try body that is running has its handler.
BodyProtected ==
  Running =>
    \A k \in DOMAIN tries : tries[k].phase = "body" =>
      \E i \in DOMAIN handlers : TryOf(handlers[i]) = SubSeq(tries, 1, k)

==============================================================================
