------------------------------ MODULE FrObjects ------------------------------
(***************************************************************************)
(* Managed objects of the native runtime (src/runtime/fr_rt.c): structs,   *)
(* lists and raw cells that carry a header with a reference count and two  *)
(* links, and that sit on the allocation-scope list of the function that   *)
(* created them until a store or a return transfers them, or until the     *)
(* scope is popped.                                                        *)
(*                                                                         *)
(* The runtime is single threaded.  A call made by generated code is cut   *)
(* into its loop iterations: `pending' holds the runtime_release calls a   *)
(* cascade still has to make, `walk' is the cursor of runtime_scope_pop,   *)
(* `call' is the runtime function that has not returned.  The client (the  *)
(* compiled program) only moves when all three are at rest.                *)
(*                                                                         *)
(* A cell is a place that owns what it refers to: a global variable, or a  *)
(* field or element of an object.  Which element of a list it is does not  *)
(* matter to ownership, so element positions are interchangeable; a set is *)
(* a list; dictionaries do not own their values and are not modelled.      *)
(***************************************************************************)
EXTENDS Integers, FiniteSets, Sequences, SequencesExt

CONSTANTS
  Obj,            \* addresses malloc can return; reused after free
  Nil,            \* the null pointer
  Global,         \* global variables of a managed type
  Index,          \* managed fields or elements of one object
  FR_MAX_SCOPES,  \* 1024 in the code
  MaxFrames,      \* bound: depth of the call stack
  MaxCount,       \* bound: references the program takes to one object
  StoreArgs,      \* the program stores objects it received as arguments
  CatchDeep       \* the program catches in frames beyond FR_MAX_SCOPES

ASSUME FrObjectsAssumption ==
  /\ Nil \notin Obj
  /\ IsFiniteSet(Obj) /\ IsFiniteSet(Global) /\ IsFiniteSet(Index)
  /\ Global \cap (Obj \X Index) = {}
  /\ FR_MAX_SCOPES \in Nat \ {0}
  /\ MaxFrames \in Nat \ {0}
  /\ MaxCount \in Nat
  /\ StoreArgs \in BOOLEAN /\ CatchDeep \in BOOLEAN

Ptr == Obj \cup {Nil}
Scope == 0 .. FR_MAX_SCOPES - 1
Kind == {"struct", "list", "raw"}
Place == Global \cup (Obj \X Index)

VARIABLES
  live,      \* objects whose header magic is FR_OBJ_MAGIC
  refcount, scope_id, next_scope, prev_scope, kind,    \* FrObjHeader
  cell,      \* contents of every owning place
  heads, depth, overflow,    \* fr_scope_heads, fr_scope_depth, _overflow
  frames,    \* call stack of the program and the locals each frame can use
  pending,   \* runtime_release calls still to be made, per object
  walk,      \* cursor of runtime_scope_pop
  call,      \* runtime function in progress
  chain,     \* history: what each scope owns, newest first
  rest,      \* history: what runtime_scope_pop has not yet visited
  given      \* history: references handed out that no place holds

linkVars == <<scope_id, next_scope, prev_scope, heads, chain>>
objVars == <<live, refcount, kind, cell, given>>
scopeVars == <<depth, overflow>>
runVars == <<pending, walk, rest, call>>
vars == <<live, refcount, scope_id, next_scope, prev_scope, kind, cell, heads,
          depth, overflow, frames, pending, walk, call, chain, rest, given>>

NoCall == [op |-> "none"]
PopCall == [op |-> "scope_pop"]
UnwindCall == [op |-> "scope_unwind"]
StoreCall(p, v) == [op |-> "store", to |-> p, val |-> v]
FillCall(o, vals) == [op |-> "struct_new", obj |-> o, vals |-> vals]
NoValues == [i \in Index |-> Nil]

\* A function that creates no managed object has no scope of its own.
Frame == [scoped: BOOLEAN, base: 0 .. FR_MAX_SCOPES,
          own: SUBSET Obj, args: SUBSET Obj]
NewFrame(scoped, base, args) ==
  [scoped |-> scoped, base |-> base, own |-> {}, args |-> args]
\* Locals that hold an object the frame created, loaded or was returned, and
\* those that came in as arguments.
Locals(f) == f.own \cup f.args
top == frames[Len(frames)]
ScopedFrames(n) == Cardinality({k \in 1 .. n : frames[k].scoped})

\* No release is outstanding and no scope list is being walked.
Quiet == (\A o \in Obj : pending[o] = 0) /\ walk = Nil
\* The runtime is at rest and the program runs.
Ready == Quiet /\ call = NoCall

PlacesOf(o) == {o} \X Index
Storable == IF StoreArgs THEN Locals(top) ELSE Locals(top) \ top.args
Reachable == Global \cup (Locals(top) \X Index)

------------------------------------------------------------------------------
\* runtime_scope_forget applies: the object claims to be in the current scope.
Forgets(v) == v \in live /\ depth > 0 /\ scope_id[v] = depth - 1

\* Mutant: the back link of the next object is left as it was.
ForgetOneWay(v) ==
  LET d == depth - 1
      p == prev_scope[v]
      n == next_scope[v]
      next1 == IF p = Nil THEN next_scope ELSE [next_scope EXCEPT ![p] = n]
  IN /\ next_scope' = [next1 EXCEPT ![v] = Nil]
     /\ prev_scope' = [prev_scope EXCEPT ![v] = Nil]
     /\ heads' = IF p = Nil /\ heads[d] = v THEN [heads EXCEPT ![d] = n] ELSE heads
     /\ scope_id' = [scope_id EXCEPT ![v] = -1]
     /\ chain' = [chain EXCEPT ![d] = RemoveFirst(@, v)]

\* Unlink v from the list of the current scope, by its own two links.
Forget(v) ==
  LET d == depth - 1
      p == prev_scope[v]
      n == next_scope[v]
      next1 == IF p = Nil THEN next_scope ELSE [next_scope EXCEPT ![p] = n]
      prev1 == IF n = Nil THEN prev_scope ELSE [prev_scope EXCEPT ![n] = p]
  IN /\ next_scope' = [next1 EXCEPT ![v] = Nil]
     /\ prev_scope' = [prev1 EXCEPT ![v] = Nil]
     /\ heads' = IF p = Nil /\ heads[d] = v THEN [heads EXCEPT ![d] = n] ELSE heads
     /\ scope_id' = [scope_id EXCEPT ![v] = -1]
     /\ chain' = [chain EXCEPT ![d] = RemoveFirst(@, v)]

\* Mutant: the object leaves its scope without the release.
AdoptKeepingCount(v) ==
  \/ v \notin live /\ UNCHANGED <<refcount, linkVars>>
  \/ v \in live /\ refcount' = [refcount EXCEPT ![v] = @ + 1]
     /\ IF Forgets(v) THEN Forget(v) ELSE UNCHANGED linkVars

\* Mutant: an object that is not in the current scope is not retained.
AdoptWithoutRetain(v) ==
  \/ ~Forgets(v) /\ UNCHANGED <<refcount, linkVars>>
  \/ Forgets(v) /\ Forget(v) /\ UNCHANGED refcount

\* runtime_retain then runtime_scope_forget: a new owner takes over.  The
\* release inside runtime_scope_forget undoes the retain and frees nothing.
Adopt(v) ==
  \/ v \notin live /\ UNCHANGED <<refcount, linkVars>>
  \/ v \in live /\ ~Forgets(v)
     /\ refcount' = [refcount EXCEPT ![v] = @ + 1]
     /\ UNCHANGED linkVars
  \/ Forgets(v) /\ Forget(v) /\ UNCHANGED refcount

\* fr_obj_alloc: a block from malloc, header cleared, pushed on the scope list.
NewObject(o, k) ==
  LET d == depth - 1 IN
  /\ o \notin live
  /\ live' = live \cup {o}
  /\ refcount' = [refcount EXCEPT ![o] = 1]
  /\ kind' = [kind EXCEPT ![o] = k]
  /\ frames' = [frames EXCEPT ![Len(frames)].own = @ \cup {o}]
  /\ IF depth > 0
     THEN /\ scope_id' = [scope_id EXCEPT ![o] = d]
          /\ next_scope' = [next_scope EXCEPT ![o] = heads[d]]
          /\ prev_scope' = LET prev1 == [prev_scope EXCEPT ![o] = Nil] IN
                IF heads[d] = Nil THEN prev1 ELSE [prev1 EXCEPT ![heads[d]] = o]
          /\ heads' = [heads EXCEPT ![d] = o]
          /\ chain' = [chain EXCEPT ![d] = <<o>> \o @]
          /\ given' = given
     ELSE /\ scope_id' = [scope_id EXCEPT ![o] = -1]
          /\ next_scope' = [next_scope EXCEPT ![o] = Nil]
          /\ prev_scope' = [prev_scope EXCEPT ![o] = Nil]
          /\ given' = [given EXCEPT ![o] = 1]
          /\ UNCHANGED <<heads, chain>>
  /\ UNCHANGED <<cell, scopeVars, pending, walk, rest>>

\* How often the cells of a dying object refer to x.
Held(o, x) == Cardinality({p \in PlacesOf(o) : cell[p] = x})

------------------------------------------------------------------------------
\* The program: calls.  The prologue of a function that allocates is
\* runtime_scope_push.
CallFunction(scoped, args) ==
  /\ Ready /\ frames # <<>> /\ Len(frames) < MaxFrames
  /\ args \subseteq Locals(top)
  /\ IF ~scoped THEN UNCHANGED <<heads, chain, scopeVars>>
     ELSE IF depth >= FR_MAX_SCOPES
     THEN overflow' = overflow + 1 /\ UNCHANGED <<depth, heads, chain>>
     ELSE /\ heads' = [heads EXCEPT ![depth] = Nil]
          /\ chain' = [chain EXCEPT ![depth] = <<>>]
          /\ depth' = depth + 1
          /\ UNCHANGED overflow
  /\ frames' = Append(frames, NewFrame(scoped, depth', args))
  /\ UNCHANGED <<objVars, scope_id, next_scope, prev_scope, runVars>>

\* runtime_list_new, runtime_set_new, runtime_alloc.
Alloc(o, k) ==
  /\ Ready /\ frames # <<>> /\ top.scoped
  /\ NewObject(o, k)
  /\ UNCHANGED call

\* runtime_struct_new: the fields are copied, then retained one by one.
StructNew(o, vals) ==
  /\ Ready /\ frames # <<>> /\ top.scoped
  /\ \A i \in Index : vals[i] # Nil =>
       vals[i] \in Storable /\ refcount[vals[i]] < MaxCount
  /\ NewObject(o, "struct")
  /\ call' = IF vals = NoValues THEN NoCall ELSE FillCall(o, vals)

\* runtime_store_global, runtime_store_field, runtime_ptr_store, list append
\* and set, set add and remove: retain the new value, release the old one,
\* then write.  Null overwrites a field or removes a set element.
StoreCell(p, v) ==
  /\ Ready /\ frames # <<>>
  /\ p \in Reachable
  /\ cell[p] # v
  /\ IF v = Nil THEN p \notin Global ELSE v \in Storable /\ refcount[v] < MaxCount
  /\ Adopt(v)
  /\ pending' = IF cell[p] = Nil THEN pending ELSE [pending EXCEPT ![cell[p]] = @ + 1]
  /\ call' = StoreCall(p, v)
  /\ UNCHANGED <<live, kind, cell, given, scopeVars, frames, walk, rest>>

\* A load borrows: no reference is taken.
Load(p) ==
  /\ Ready /\ frames # <<>>
  /\ p \in Reachable
  /\ cell[p] \in Obj \ Locals(top)
  /\ frames' = [frames EXCEPT ![Len(frames)].own = @ \cup {cell[p]}]
  /\ UNCHANGED <<objVars, linkVars, scopeVars, runVars>>

\* runtime_list_pop: the element leaves the list with the list's reference.
ListPop(o, i) ==
  /\ Ready /\ frames # <<>>
  /\ o \in Locals(top) /\ kind[o] = "list"
  /\ LET v == cell[<<o, i>>] IN
     /\ v # Nil
     /\ cell' = [cell EXCEPT ![<<o, i>>] = Nil]
     /\ given' = [given EXCEPT ![v] = @ + 1]
     /\ frames' = IF v \in Locals(top) THEN frames
                  ELSE [frames EXCEPT ![Len(frames)].own = @ \cup {v}]
  /\ UNCHANGED <<live, refcount, kind, linkVars, scopeVars, runVars>>

\* Mutant: a return path without the scope pop of the epilogue.
ReturnWithoutPop(v) ==
  /\ Ready /\ frames # <<>>
  /\ v # Nil => v \in Locals(top) /\ refcount[v] < MaxCount /\ Len(frames) > 1
  /\ Adopt(v)
  /\ given' = IF v = Nil THEN given ELSE [given EXCEPT ![v] = @ + 1]
  /\ frames' = SubSeq(frames, 1, Len(frames) - 1)
  /\ UNCHANGED <<live, kind, cell, scopeVars, pending, walk, rest, call>>

\* RETURN: runtime_retain_transfer on a managed value, then the epilogue.
\* main, the first frame, returns no object.
Return(v) ==
  /\ Ready /\ frames # <<>>
  /\ v # Nil => v \in Locals(top) /\ refcount[v] < MaxCount /\ Len(frames) > 1
  /\ Adopt(v)
  /\ given' = IF v = Nil THEN given ELSE [given EXCEPT ![v] = @ + 1]
  /\ LET n == Len(frames) - 1
         up == SubSeq(frames, 1, n)
     IN frames' = IF v = Nil THEN up
                  ELSE IF v \in Locals(up[n]) THEN up
                  ELSE [up EXCEPT ![n].own = @ \cup {v}]
  /\ call' = IF top.scoped THEN PopCall ELSE NoCall
  /\ UNCHANGED <<live, kind, cell, scopeVars, pending, walk, rest>>

\* An exception caught in frame k: runtime_exception_raise unwinds to the
\* scope depth that runtime_exception_push saved there, then longjmps.
Raise(k) ==
  /\ Ready
  /\ k \in 1 .. Len(frames)
  /\ CatchDeep \/ ScopedFrames(k) <= FR_MAX_SCOPES
  /\ frames' = SubSeq(frames, 1, k)
  /\ call' = UnwindCall
  /\ UNCHANGED <<objVars, linkVars, scopeVars, pending, walk, rest>>

------------------------------------------------------------------------------
\* The runtime: one runtime_release call of a cascade.
Release(o) ==
  /\ pending[o] > 0
  /\ o \notin live \/ refcount[o] > 1
  /\ pending' = [pending EXCEPT ![o] = @ - 1]
  /\ refcount' = IF o \in live THEN [refcount EXCEPT ![o] = @ - 1] ELSE refcount
  /\ UNCHANGED <<live, kind, cell, given, linkVars, scopeVars, frames, walk, rest, call>>

\* The header magic is cleared, the contents are released, the block goes back
\* to the heap.  A raw cell releases nothing.  Header fields nobody reads in a
\* free block are cleared; next_scope is kept, runtime_scope_pop may still read
\* it.  The program does not use a local again once its object is freed.
Die(o) ==
  /\ live' = live \ {o}
  /\ refcount' = [refcount EXCEPT ![o] = 0]
  /\ cell' = [p \in Place |-> IF p \in PlacesOf(o) THEN Nil ELSE cell[p]]
  /\ pending' = [x \in Obj |-> pending[x] - (IF x = o THEN 1 ELSE 0)
                               + (IF kind[o] = "raw" THEN 0 ELSE Held(o, x))]
  /\ given' = [x \in Obj |-> IF x = o THEN 0
                ELSE given[x] + (IF kind[o] = "raw" /\ x \in live THEN Held(o, x) ELSE 0)]
  /\ kind' = [kind EXCEPT ![o] = "raw"]
  /\ scope_id' = [scope_id EXCEPT ![o] = -1]
  /\ prev_scope' = [prev_scope EXCEPT ![o] = Nil]
  /\ frames' = [k \in DOMAIN frames |->
       [frames[k] EXCEPT !.own = @ \ {o}, !.args = @ \ {o}]]
  /\ UNCHANGED <<next_scope, heads, chain, scopeVars, walk, rest, call>>

\* Mutant: freed while another reference is left.
ReleaseEarly(o) == pending[o] > 0 /\ o \in live /\ refcount[o] <= 2 /\ Die(o)

\* The runtime_release call that drops the last reference.
ReleaseLast(o) == pending[o] > 0 /\ o \in live /\ refcount[o] <= 1 /\ Die(o)

\* One iteration of the loop of runtime_scope_pop.
WalkScope ==
  /\ walk # Nil /\ \A o \in Obj : pending[o] = 0
  /\ walk' = next_scope[walk]
  /\ next_scope' = [next_scope EXCEPT ![walk] = Nil]
  /\ pending' = [pending EXCEPT ![walk] = @ + 1]
  /\ rest' = IF rest = <<>> THEN rest ELSE Tail(rest)
  /\ UNCHANGED <<objVars, scope_id, prev_scope, heads, chain, scopeVars, frames, call>>

\* Mutant: the overflow counter is not looked at.
ScopePopAlways ==
  \/ /\ depth > 0
     /\ depth' = depth - 1
     /\ walk' = heads[depth - 1]
     /\ heads' = [heads EXCEPT ![depth - 1] = Nil]
     /\ rest' = chain[depth - 1]
     /\ chain' = [chain EXCEPT ![depth - 1] = <<>>]
     /\ UNCHANGED overflow
  \/ depth = 0 /\ UNCHANGED <<depth, overflow, heads, chain, walk, rest>>

\* Entry of runtime_scope_pop.
ScopePop ==
  \/ /\ overflow > 0
     /\ overflow' = overflow - 1
     /\ UNCHANGED <<depth, heads, chain, walk, rest>>
  \/ /\ overflow = 0 /\ depth > 0
     /\ depth' = depth - 1
     /\ walk' = heads[depth - 1]
     /\ heads' = [heads EXCEPT ![depth - 1] = Nil]
     /\ rest' = chain[depth - 1]
     /\ chain' = [chain EXCEPT ![depth - 1] = <<>>]
     /\ UNCHANGED overflow
  \/ /\ overflow = 0 /\ depth = 0
     /\ UNCHANGED <<depth, overflow, heads, chain, walk, rest>>

PopScope ==
  /\ Quiet /\ call = PopCall
  /\ ScopePop
  /\ call' = NoCall
  /\ UNCHANGED <<objVars, scope_id, next_scope, prev_scope, frames, pending>>

\* Mutant: the loop bound is off by one and signed.
UnwindTooFar ==
  /\ Quiet /\ call = UnwindCall
  /\ IF overflow > 0 \/ depth >= top.base - 1
     THEN ScopePop /\ UNCHANGED call
     ELSE call' = NoCall /\ UNCHANGED <<depth, overflow, heads, chain, walk, rest>>
  /\ UNCHANGED <<objVars, scope_id, next_scope, prev_scope, frames, pending>>

\* runtime_scope_unwind: first every overflow scope, then down to the target.
UnwindScope ==
  /\ Quiet /\ call = UnwindCall
  /\ IF overflow > 0 \/ depth > top.base
     THEN ScopePop /\ UNCHANGED call
     ELSE call' = NoCall /\ UNCHANGED <<depth, overflow, heads, chain, walk, rest>>
  /\ UNCHANGED <<objVars, scope_id, next_scope, prev_scope, frames, pending>>

\* The last statement of a store.  If the container itself was freed by the
\* release of the old value the write lands in a free block and is lost.
FinishStore ==
  /\ Quiet /\ call.op = "store"
  /\ \/ /\ call.to \in Global \cup (live \X Index)
        /\ cell' = [cell EXCEPT ![call.to] = call.val]
        /\ UNCHANGED given
     \/ /\ call.to \notin Global \cup (live \X Index)
        /\ given' = IF call.val = Nil THEN given ELSE [given EXCEPT ![call.val] = @ + 1]
        /\ UNCHANGED cell
  /\ call' = NoCall
  /\ UNCHANGED <<live, refcount, kind, linkVars, scopeVars, frames, pending, walk, rest>>

\* One iteration of the loop of runtime_struct_new over the managed fields.
FillField(i) ==
  /\ Quiet /\ call.op = "struct_new"
  /\ call.vals[i] # Nil
  /\ Adopt(call.vals[i])
  /\ cell' = [cell EXCEPT ![<<call.obj, i>>] = call.vals[i]]
  /\ call' = LET left == [call.vals EXCEPT ![i] = Nil] IN
             IF left = NoValues THEN NoCall ELSE FillCall(call.obj, left)
  /\ UNCHANGED <<live, kind, given, scopeVars, frames, pending, walk, rest>>

------------------------------------------------------------------------------
\* main has been entered; runtime_init cleared the scopes.
Init ==
  /\ live = {}
  /\ refcount = [o \in Obj |-> 0]
  /\ scope_id = [o \in Obj |-> -1]
  /\ next_scope = [o \in Obj |-> Nil]
  /\ prev_scope = [o \in Obj |-> Nil]
  /\ kind = [o \in Obj |-> "raw"]
  /\ cell = [p \in Place |-> Nil]
  /\ heads = [d \in Scope |-> Nil]
  /\ depth = 1 /\ overflow = 0
  /\ frames = <<NewFrame(TRUE, 1, {})>>
  /\ pending = [o \in Obj |-> 0]
  /\ walk = Nil
  /\ call = NoCall
  /\ chain = [d \in Scope |-> <<>>]
  /\ rest = <<>>
  /\ given = [o \in Obj |-> 0]

\* main returned and its scope is gone: the process exits.
Exit == Ready /\ frames = <<>> /\ UNCHANGED vars

Program ==
  \/ \E scoped \in BOOLEAN, args \in SUBSET live : CallFunction(scoped, args)
  \/ \E o \in Obj, k \in {"list", "raw"} : Alloc(o, k)
  \/ \E o \in Obj, vals \in [Index -> live \cup {Nil}] : StructNew(o, vals)
  \/ \E p \in Place, v \in live \cup {Nil} : StoreCell(p, v)
  \/ \E p \in Place : Load(p)
  \/ \E o \in live, i \in Index : ListPop(o, i)
  \/ \E v \in live \cup {Nil} : Return(v)
  \/ \E k \in 1 .. MaxFrames : Raise(k)

Runtime ==
  \/ \E o \in Obj : Release(o)
  \/ \E o \in Obj : ReleaseLast(o)
  \/ WalkScope
  \/ PopScope
  \/ UnwindScope
  \/ FinishStore
  \/ \E i \in Index : FillField(i)

Next == Program \/ Runtime \/ Exit

\* The processor keeps executing a runtime function it has entered.
Spec == Init /\ [][Next]_vars /\ WF_vars(Runtime)

------------------------------------------------------------------------------
\* The place whose old contents are being released no longer owns them.
Overwritten == IF call.op = "store" THEN {call.to} ELSE {}
Owned(o) == {p \in Place \ Overwritten : cell[p] = o}
ListedIn(o) == {d \in Scope : o \in Range(chain[d])}
InTransit(o) ==
  (IF o \in Range(rest) THEN 1 ELSE 0)
  + (IF call.op = "store" /\ call.val = o THEN 1 ELSE 0)

\* The count in every live header is the number of its owners: cells that
\* refer to it, the scope that lists it, references handed to a caller, and
\* releases that runtime_release and runtime_scope_pop still have to make.
RcExact ==
  \A o \in live :
    refcount[o] = Cardinality(Owned(o)) + Cardinality(ListedIn(o))
                  + InTransit(o) + given[o] + pending[o]

\* No owning place refers to an object that was freed (a later allocation at
\* the same address would be seen through it): runtime_release only frees what
\* no global, field or element still refers to.
NoDanglingCell ==
  \A p \in (Global \cup (live \X Index)) \ Overwritten : cell[p] # Nil => cell[p] \in live

\* The intrusive list from a head or from the cursor visits exactly the objects
\* the scope owns, forwards by next_scope, backwards by prev_scope.
Linked(h, s) ==
  /\ h = IF s = <<>> THEN Nil ELSE Head(s)
  /\ \A i \in 1 .. Len(s) :
       /\ s[i] \in live
       /\ next_scope[s[i]] = IF i = Len(s) THEN Nil ELSE s[i + 1]
       /\ i > 1 => prev_scope[s[i]] = s[i - 1]

ListsMatch ==
  /\ Linked(walk, rest)
  /\ \A d \in Scope :
       /\ Linked(heads[d], chain[d])
       /\ \A i \in 1 .. Len(chain[d]) : scope_id[chain[d][i]] = d
       /\ chain[d] # <<>> => d < depth /\ prev_scope[heads[d]] = Nil

\* Every frame that has a scope still has it: calls, returns and exceptions
\* push and pop in step.
ScopesBalanced ==
  Ready => depth + overflow = ScopedFrames(Len(frames))

\* An object is freed only when no place, no scope and no caller owns it.
FreedOnlyWhenUnowned ==
  [][\A o \in live \ live' :
       Owned(o) = {} /\ ListedIn(o) = {} /\ InTransit(o) = 0 /\ given[o] = 0]_vars

\* runtime_release, runtime_scope_pop and runtime_scope_unwind return.
CallsReturn == ~Ready ~> Ready

\* Once main has returned, what is still allocated is held by a global, by an
\* object, or was handed to a caller that never gave it back.
CleanExit ==
  (Ready /\ frames = <<>>) => \A o \in live : Owned(o) # {} \/ given[o] > 0

\* Seen through its owners alone the runtime does what memory_and_pointers.md
\* promises: an object goes when its last owner is gone, and not before.
Owners == INSTANCE Ownership WITH
  cell <- [p \in Place |->
             IF call.op = "store" THEN
               IF p = call.to /\ p \in Global \cup (live \X Index) THEN call.val ELSE cell[p]
             ELSE cell[p]],
  scope <- [d \in Scope |-> Range(chain[d])]
ImplementsOwnership == Owners!Spec
==============================================================================
