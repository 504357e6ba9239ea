--------------------------- MODULE FrObjectsProofs ---------------------------
(***************************************************************************)
(* Managed objects, for any number of objects, globals and fields, any     *)
(* depth of calls and any number of scopes: what the variables hold, the   *)
(* balance of scopes and frames, the intrusive lists of the scopes; then   *)
(* the reference counts, what the invariant of all actions says of places  *)
(* and lists, and that the runtime seen through owners alone takes the     *)
(* steps of Ownership.                                                     *)
(***************************************************************************)
EXTENDS FrObjects, DataLemmas

---------------------------------------------------------------------------
\* What the variables hold.

Calls == {NoCall, PopCall, UnwindCall}
         \cup {StoreCall(p, v) : p \in Place, v \in Ptr}
         \cup {FillCall(o, vals) : o \in Obj, vals \in [Index -> Ptr]}

CountsOK ==
  /\ live \subseteq Obj
  /\ refcount \in [Obj -> Nat] /\ pending \in [Obj -> Nat] /\ given \in [Obj -> Nat]
  /\ kind \in [Obj -> Kind] /\ cell \in [Place -> Ptr] /\ call \in Calls

ListsOK ==
  /\ scope_id \in [Obj -> Scope \cup {-1}]
  /\ next_scope \in [Obj -> Ptr] /\ prev_scope \in [Obj -> Ptr]
  /\ heads \in [Scope -> Ptr] /\ walk \in Ptr
  /\ chain \in [Scope -> Seq(Obj)] /\ rest \in Seq(Obj)

StackOK ==
  depth \in 0 .. FR_MAX_SCOPES /\ overflow \in Nat /\ frames \in Seq(Frame)

TypeOK == CountsOK /\ ListsOK /\ StackOK

---------------------------------------------------------------------------
\* Constants, places and calls.

\* What FrObjectsAssumption says of the constants.
LEMMA ScopeFacts ==
  /\ FR_MAX_SCOPES \in Nat /\ FR_MAX_SCOPES >= 1 /\ Nil \notin Obj
  /\ Scope \subseteq Nat /\ \A d \in Scope : d \in 0 .. FR_MAX_SCOPES /\ d < FR_MAX_SCOPES
  BY FrObjectsAssumption DEF Scope

\* Globals and fields are finitely many, so their references can be counted.
LEMMA PlacesFinite ==
  /\ IsFiniteSet(Place)
  /\ \A o \in Obj : PlacesOf(o) \subseteq Place
  /\ \A o \in Obj, i \in Index : <<o, i>> \in Place /\ <<o, i>> \notin Global
  <1>1. IsFiniteSet(Obj \X Index)
    BY FrObjectsAssumption, FS_Product
  <1>2. IsFiniteSet(Global \cup (Obj \X Index))
    BY <1>1, FrObjectsAssumption, FS_Union
  <1> QED
    BY <1>2, FrObjectsAssumption DEF Place, PlacesOf

\* The record of a runtime call says by its op what the other fields are.
LEMMA CallKinds ==
  ASSUME NEW c \in Calls
  PROVE  /\ c.op = "none" <=> c = NoCall
         /\ c.op = "scope_pop" <=> c = PopCall
         /\ c.op = "scope_unwind" <=> c = UnwindCall
         /\ c.op = "store" =>
              c = StoreCall(c.to, c.val) /\ c.to \in Place /\ c.val \in Ptr
         /\ c.op = "struct_new" =>
              c = FillCall(c.obj, c.vals) /\ c.obj \in Obj /\ c.vals \in [Index -> Ptr]
         /\ c.op \in {"none", "scope_pop", "scope_unwind", "store", "struct_new"}
  <1>1. CASE c \in {NoCall, PopCall, UnwindCall}
    BY <1>1 DEF NoCall, PopCall, UnwindCall
  <1>2. CASE c \in {StoreCall(p, v) : p \in Place, v \in Ptr}
    BY <1>2 DEF NoCall, PopCall, UnwindCall, StoreCall
  <1>3. CASE c \in {FillCall(o, vals) : o \in Obj, vals \in [Index -> Ptr]}
    BY <1>3 DEF NoCall, PopCall, UnwindCall, FillCall
  <1> QED
    BY <1>1, <1>2, <1>3 DEF Calls

\* Which op each runtime call has.
LEMMA CallForms ==
  /\ NoCall \in Calls /\ PopCall \in Calls /\ UnwindCall \in Calls
  /\ NoCall.op = "none" /\ PopCall.op = "scope_pop" /\ UnwindCall.op = "scope_unwind"
  /\ \A p \in Place, v \in Ptr :
       /\ StoreCall(p, v) \in Calls /\ StoreCall(p, v).op = "store"
       /\ StoreCall(p, v).to = p /\ StoreCall(p, v).val = v
  /\ \A o \in Obj, vals \in [Index -> Ptr] :
       /\ FillCall(o, vals) \in Calls /\ FillCall(o, vals).op = "struct_new"
       /\ FillCall(o, vals).obj = o /\ FillCall(o, vals).vals = vals
  <1>1. NoCall \in Calls /\ PopCall \in Calls /\ UnwindCall \in Calls
    BY DEF Calls
  <1>2. NoCall.op = "none" /\ PopCall.op = "scope_pop" /\ UnwindCall.op = "scope_unwind"
    BY DEF NoCall, PopCall, UnwindCall
  <1>3. ASSUME NEW p \in Place, NEW v \in Ptr
        PROVE  /\ StoreCall(p, v) \in Calls /\ StoreCall(p, v).op = "store"
               /\ StoreCall(p, v).to = p /\ StoreCall(p, v).val = v
    <2>1. StoreCall(p, v) \in Calls
      BY DEF Calls
    <2> QED
      BY <2>1 DEF StoreCall
  <1>4. ASSUME NEW o \in Obj, NEW vals \in [Index -> Ptr]
        PROVE  /\ FillCall(o, vals) \in Calls /\ FillCall(o, vals).op = "struct_new"
               /\ FillCall(o, vals).obj = o /\ FillCall(o, vals).vals = vals
    <2>1. FillCall(o, vals) \in Calls
      BY DEF Calls
    <2> QED
      BY <2>1 DEF FillCall
  <1> QED
    BY <1>1, <1>2, <1>3, <1>4

---------------------------------------------------------------------------
\* The call stack.

\* A frame of the stack, and the stack's length.
LEMMA FrameAt ==
  ASSUME NEW fs \in Seq(Frame)
  PROVE  /\ Len(fs) \in Nat /\ DOMAIN fs = 1 .. Len(fs)
         /\ fs = <<>> <=> Len(fs) = 0
         /\ \A k \in 1 .. Len(fs) :
              /\ fs[k] \in Frame /\ fs[k].scoped \in BOOLEAN
              /\ fs[k].base \in 0 .. FR_MAX_SCOPES
              /\ fs[k].own \subseteq Obj /\ fs[k].args \subseteq Obj
  <1>1. Len(fs) \in Nat /\ DOMAIN fs = 1 .. Len(fs) /\ (fs = <<>> <=> Len(fs) = 0)
    BY EmptySeq, LenProperties
  <1>2. \A k \in 1 .. Len(fs) : fs[k] \in Frame
    BY ElementOfSeq
  <1> QED
    BY <1>1, <1>2 DEF Frame

\* One more local in frame n.
Grow(fs, n, o) == [fs EXCEPT ![n].own = @ \cup {o}]

\* One frame gets a local, the others stay.
LEMMA GrowOf ==
  ASSUME NEW fs \in Seq(Frame), NEW n \in 1 .. Len(fs), NEW o \in Obj
  PROVE  /\ Grow(fs, n, o) \in Seq(Frame) /\ Len(Grow(fs, n, o)) = Len(fs)
         /\ \A k \in 1 .. Len(fs) :
              /\ Grow(fs, n, o)[k].scoped = fs[k].scoped
              /\ Grow(fs, n, o)[k].base = fs[k].base
              /\ Grow(fs, n, o)[k].args = fs[k].args
              /\ Grow(fs, n, o)[k].own = IF k = n THEN fs[k].own \cup {o} ELSE fs[k].own
  <1> DEFINE e == [fs[n] EXCEPT !.own = @ \cup {o}]
  <1>1. fs[n] \in Frame /\ fs[n].own \subseteq Obj
    BY FrameAt
  <1>2. /\ e \in Frame /\ e.scoped = fs[n].scoped /\ e.base = fs[n].base
        /\ e.args = fs[n].args /\ e.own = fs[n].own \cup {o}
    BY <1>1 DEF Frame
  <1>3. Grow(fs, n, o) = [fs EXCEPT ![n] = e]
    BY DEF Grow
  <1> HIDE DEF e
  <1>4. /\ Grow(fs, n, o) \in Seq(Frame) /\ Len(Grow(fs, n, o)) = Len(fs)
        /\ \A k \in 1 .. Len(fs) : Grow(fs, n, o)[k] = IF k = n THEN e ELSE fs[k]
    BY <1>2, <1>3, ExceptSeq
  <1>5. ASSUME NEW k \in 1 .. Len(fs)
        PROVE  /\ Grow(fs, n, o)[k].scoped = fs[k].scoped
               /\ Grow(fs, n, o)[k].base = fs[k].base
               /\ Grow(fs, n, o)[k].args = fs[k].args
               /\ Grow(fs, n, o)[k].own = IF k = n THEN fs[k].own \cup {o} ELSE fs[k].own
    <2>1. CASE k = n
      BY <1>2, <1>4, <2>1
    <2>2. CASE k # n
      BY <1>4, <2>2
    <2> QED
      BY <2>1, <2>2
  <1> QED
    BY <1>4, <1>5

\* The object o is no local any more.
Without(fs, o) == [k \in DOMAIN fs |-> [fs[k] EXCEPT !.own = @ \ {o}, !.args = @ \ {o}]]

\* A freed object is in no frame's locals.
LEMMA WithoutOf ==
  ASSUME NEW fs \in Seq(Frame), NEW o \in Obj
  PROVE  /\ Without(fs, o) \in Seq(Frame) /\ Len(Without(fs, o)) = Len(fs)
         /\ \A k \in 1 .. Len(fs) :
              /\ Without(fs, o)[k].scoped = fs[k].scoped
              /\ Without(fs, o)[k].base = fs[k].base
              /\ Without(fs, o)[k].args = fs[k].args \ {o}
              /\ Without(fs, o)[k].own = fs[k].own \ {o}
  <1> DEFINE e(k) == [fs[k] EXCEPT !.own = @ \ {o}, !.args = @ \ {o}]
  <1>1. ASSUME NEW k \in 1 .. Len(fs)
        PROVE  /\ e(k) \in Frame /\ e(k).scoped = fs[k].scoped /\ e(k).base = fs[k].base
               /\ e(k).args = fs[k].args \ {o} /\ e(k).own = fs[k].own \ {o}
    <2>1. fs[k] \in Frame /\ fs[k].own \subseteq Obj /\ fs[k].args \subseteq Obj
      BY FrameAt
    <2> QED
      BY <2>1 DEF Frame
  <1>2. Len(fs) \in Nat /\ Without(fs, o) = [k \in 1 .. Len(fs) |-> e(k)]
    BY FrameAt DEF Without
  <1> HIDE DEF e
  <1>3. Without(fs, o) \in [1 .. Len(fs) -> Frame]
    BY <1>1, <1>2
  <1>4. Without(fs, o) \in Seq(Frame) /\ Len(Without(fs, o)) = Len(fs)
    BY <1>2, <1>3, FunctionIsSeq
  <1>5. \A k \in 1 .. Len(fs) : Without(fs, o)[k] = e(k)
    BY <1>2
  <1> QED
    BY <1>1, <1>4, <1>5

\* How many of the first n frames have a scope.
ScopedIn(fs, n) == Cardinality({k \in 1 .. n : fs[k].scoped})

\* Frames with a scope are finitely many.
LEMMA ScopedFinite ==
  ASSUME NEW fs, NEW n \in Nat
  PROVE  IsFiniteSet({k \in 1 .. n : fs[k].scoped})
  <1>1. IsFiniteSet(1 .. n)
    BY FS_Interval
  <1> QED
    BY <1>1, FS_Subset

\* So they have a number.
LEMMA ScopedNat ==
  ASSUME NEW fs, NEW n \in Nat
  PROVE  ScopedIn(fs, n) \in Nat
  BY ScopedFinite, FS_CardinalityType DEF ScopedIn

\* Only the scoped flags count.
LEMMA ScopedSame ==
  ASSUME NEW fs, NEW gs, NEW n \in Nat, \A k \in 1 .. n : gs[k].scoped = fs[k].scoped
  PROVE  ScopedIn(gs, n) = ScopedIn(fs, n)
  <1>1. {k \in 1 .. n : gs[k].scoped} = {k \in 1 .. n : fs[k].scoped}
    OBVIOUS
  <1> QED
    BY <1>1 DEF ScopedIn

\* More frames have no fewer scopes.
LEMMA ScopedUpTo ==
  ASSUME NEW fs, NEW m \in Nat, NEW n \in Nat, m <= n
  PROVE  ScopedIn(fs, m) <= ScopedIn(fs, n)
  <1>1. {k \in 1 .. m : fs[k].scoped} \subseteq {k \in 1 .. n : fs[k].scoped}
    OBVIOUS
  <1> QED
    BY <1>1, ScopedFinite, FS_Subset DEF ScopedIn

\* One frame more counts one more if it has a scope.
LEMMA ScopedNext ==
  ASSUME NEW fs, NEW n \in Nat, fs[n + 1].scoped \in BOOLEAN
  PROVE  ScopedIn(fs, n + 1) = ScopedIn(fs, n) + (IF fs[n + 1].scoped THEN 1 ELSE 0)
  <1> DEFINE S == {k \in 1 .. n : fs[k].scoped}
  <1>1. CASE fs[n + 1].scoped
    <2>1. {k \in 1 .. n + 1 : fs[k].scoped} = S \cup {n + 1}
      BY <1>1
    <2>2. n + 1 \notin S
      OBVIOUS
    <2>3. Cardinality(S \cup {n + 1}) = Cardinality(S) + 1
      BY <2>2, ScopedFinite, FS_AddElement
    <2>4. ScopedIn(fs, n + 1) = ScopedIn(fs, n) + 1
      BY <2>1, <2>3 DEF ScopedIn
    <2> QED
      BY <1>1, <2>4
  <1>2. CASE ~ fs[n + 1].scoped
    <2>1. {k \in 1 .. n + 1 : fs[k].scoped} = S
      BY <1>2
    <2>2. ScopedIn(fs, n + 1) = ScopedIn(fs, n)
      BY <2>1 DEF ScopedIn
    <2>3. ScopedIn(fs, n) + 0 = ScopedIn(fs, n)
      BY ScopedNat
    <2> QED
      BY <1>2, <2>2, <2>3
  <1> QED
    BY <1>1, <1>2

---------------------------------------------------------------------------
\* The variables hold what they should.

\* A chain without one object is a chain.
LEMMA RemoveFirstType ==
  ASSUME NEW S, NEW s \in Seq(S), NEW e
  PROVE  RemoveFirst(s, e) \in Seq(S)
  <1>1. CASE \E i \in 1 .. Len(s) : s[i] = e
    <2>1. PICK k \in 1 .. Len(s) : RemoveFirst(s, e) = RemoveAt(s, k)
      BY <1>1, RemoveFirstOf
    <2> QED
      BY <2>1, RemoveAtOf
  <1>2. CASE ~ \E i \in 1 .. Len(s) : s[i] = e
    BY <1>2 DEF RemoveFirst
  <1> QED
    BY <1>1, <1>2

LEMMA AdoptTypes ==
  ASSUME TypeOK, NEW v, Adopt(v)
  PROVE  /\ refcount' \in [Obj -> Nat] /\ scope_id' \in [Obj -> Scope \cup {-1}]
         /\ next_scope' \in [Obj -> Ptr] /\ prev_scope' \in [Obj -> Ptr]
         /\ heads' \in [Scope -> Ptr] /\ chain' \in [Scope -> Seq(Obj)]
  <1> USE DEF TypeOK, CountsOK, ListsOK, StackOK
  <1>1. CASE v \notin live /\ UNCHANGED <<refcount, linkVars>>
    BY <1>1 DEF linkVars
  <1>2. CASE v \in live /\ ~Forgets(v) /\ refcount' = [refcount EXCEPT ![v] = @ + 1]
             /\ UNCHANGED linkVars
    BY <1>2 DEF linkVars
  <1>3. CASE Forgets(v) /\ Forget(v) /\ UNCHANGED refcount
    <2> DEFINE d == depth - 1
               p == prev_scope[v]
               n == next_scope[v]
    <2>1. v \in Obj /\ d \in Scope /\ p \in Ptr /\ n \in Ptr /\ Nil \in Ptr /\ Nil \notin Obj
      BY <1>3, ScopeFacts DEF Forgets, Scope, Ptr
    <2>2. refcount' \in [Obj -> Nat]
      BY <1>3
    <2>3. scope_id' \in [Obj -> Scope \cup {-1}]
      BY <1>3 DEF Forget
    <2>4. next_scope' \in [Obj -> Ptr]
      <3>1. (IF p = Nil THEN next_scope ELSE [next_scope EXCEPT ![p] = n]) \in [Obj -> Ptr]
        BY <2>1
      <3> QED
        BY <1>3, <2>1, <3>1 DEF Forget
    <2>5. prev_scope' \in [Obj -> Ptr]
      <3>1. (IF n = Nil THEN prev_scope ELSE [prev_scope EXCEPT ![n] = p]) \in [Obj -> Ptr]
        BY <2>1
      <3> QED
        BY <1>3, <2>1, <3>1 DEF Forget
    <2>6. heads' \in [Scope -> Ptr]
      BY <1>3, <2>1 DEF Forget
    <2>7. chain' \in [Scope -> Seq(Obj)]
      <3>1. chain[d] \in Seq(Obj)
        BY <2>1
      <3>2. RemoveFirst(chain[d], v) \in Seq(Obj)
        BY <3>1, RemoveFirstType
      <3>3. chain' = [chain EXCEPT ![d] = RemoveFirst(chain[d], v)]
        BY <1>3 DEF Forget
      <3> QED
        BY <3>2, <3>3
    <2> QED
      BY <2>2, <2>3, <2>4, <2>5, <2>6, <2>7
  <1> QED
    BY <1>1, <1>2, <1>3 DEF Adopt

LEMMA NewObjectTypes ==
  ASSUME TypeOK, frames # <<>>, NEW o \in Obj, NEW k \in Kind, NewObject(o, k)
  PROVE  (call' \in Calls => CountsOK') /\ ListsOK' /\ StackOK'
  <1> USE DEF TypeOK, CountsOK, ListsOK, StackOK
  <1>1. o \in Ptr /\ Nil \in Ptr /\ Nil \notin Obj
    BY ScopeFacts DEF Ptr
  <1>2. call' \in Calls => CountsOK'
    <2>1. /\ live' = live \cup {o} /\ refcount' = [refcount EXCEPT ![o] = 1]
          /\ kind' = [kind EXCEPT ![o] = k] /\ cell' = cell /\ pending' = pending
          /\ given' = IF depth > 0 THEN given ELSE [given EXCEPT ![o] = 1]
      BY DEF NewObject
    <2> QED
      BY <2>1
  <1>3. StackOK'
    <2>1. frames' = Grow(frames, Len(frames), o)
      BY DEF NewObject, Grow
    <2>2. Len(frames) \in 1 .. Len(frames)
      BY FrameAt
    <2>3. depth' = depth /\ overflow' = overflow
      BY DEF NewObject, scopeVars
    <2> QED
      BY <2>1, <2>2, <2>3, GrowOf
  <1>4. ASSUME depth > 0 PROVE ListsOK'
    <2> DEFINE d == depth - 1
    <2>1. d \in Scope /\ heads[d] \in Ptr
      BY <1>4, ScopeFacts DEF Scope
    <2>2. /\ scope_id' = [scope_id EXCEPT ![o] = d]
          /\ next_scope' = [next_scope EXCEPT ![o] = heads[d]]
          /\ heads' = [heads EXCEPT ![d] = o]
          /\ chain' = [chain EXCEPT ![d] = <<o>> \o chain[d]]
          /\ walk' = walk /\ rest' = rest
      BY <1>4 DEF NewObject
    <2>3. /\ scope_id' \in [Obj -> Scope \cup {-1}] /\ next_scope' \in [Obj -> Ptr]
          /\ heads' \in [Scope -> Ptr] /\ walk' \in Ptr /\ rest' \in Seq(Obj)
      BY <1>1, <2>1, <2>2
    <2>4. prev_scope' \in [Obj -> Ptr]
      BY <1>1, <1>4, <2>1 DEF NewObject
    <2>5. chain' \in [Scope -> Seq(Obj)]
      <3>1. <<o>> \in Seq(Obj) /\ chain[d] \in Seq(Obj)
        BY <2>1
      <3>2. <<o>> \o chain[d] \in Seq(Obj)
        BY <3>1, ConcatProperties
      <3> QED
        BY <2>2, <3>2
    <2> QED
      BY <2>3, <2>4, <2>5
  <1>5. ASSUME ~ (depth > 0) PROVE ListsOK'
    <2>1. /\ scope_id' = [scope_id EXCEPT ![o] = -1]
          /\ next_scope' = [next_scope EXCEPT ![o] = Nil]
          /\ prev_scope' = [prev_scope EXCEPT ![o] = Nil]
          /\ heads' = heads /\ chain' = chain /\ walk' = walk /\ rest' = rest
      BY <1>5 DEF NewObject
    <2> QED
      BY <1>1, <2>1
  <1>6. ListsOK'
    BY <1>4, <1>5
  <1> QED
    BY <1>2, <1>3, <1>6

LEMMA HeldNat ==
  ASSUME NEW o \in Obj, NEW x
  PROVE  IsFiniteSet({p \in PlacesOf(o) : cell[p] = x}) /\ Held(o, x) \in Nat
  <1>1. IsFiniteSet({p \in PlacesOf(o) : cell[p] = x})
    BY PlacesFinite, FS_Subset
  <1> QED
    BY <1>1, FS_CardinalityType DEF Held

LEMMA DieTypes ==
  ASSUME TypeOK, NEW o \in Obj, pending[o] > 0, Die(o)
  PROVE  TypeOK'
  <1> USE DEF TypeOK, CountsOK, ListsOK, StackOK
  <1>1. /\ live' \subseteq Obj /\ refcount' \in [Obj -> Nat] /\ cell' \in [Place -> Ptr]
        /\ kind' \in [Obj -> Kind] /\ call' \in Calls
    BY DEF Die, Ptr, Kind
  <1>2. pending' \in [Obj -> Nat]
    <2> DEFINE left(x) == pending[x] - (IF x = o THEN 1 ELSE 0)
                          + (IF kind[o] = "raw" THEN 0 ELSE Held(o, x))
    <2>1. ASSUME NEW x \in Obj PROVE left(x) \in Nat
      <3>1. pending[x] \in Nat /\ Held(o, x) \in Nat /\ (x = o => pending[x] > 0)
        BY HeldNat
      <3> QED
        BY <3>1
    <2>2. pending' = [x \in Obj |-> left(x)]
      BY DEF Die
    <2> HIDE DEF left
    <2> QED
      BY <2>1, <2>2
  <1>3. given' \in [Obj -> Nat]
    <2> DEFINE left(x) == IF x = o THEN 0
                 ELSE given[x] + (IF kind[o] = "raw" /\ x \in live THEN Held(o, x) ELSE 0)
    <2>1. ASSUME NEW x \in Obj PROVE left(x) \in Nat
      <3>1. given[x] \in Nat /\ Held(o, x) \in Nat
        BY HeldNat
      <3> QED
        BY <3>1
    <2>2. given' = [x \in Obj |-> left(x)]
      BY DEF Die
    <2> HIDE DEF left
    <2> QED
      BY <2>1, <2>2
  <1>4. ListsOK'
    BY DEF Die, Ptr
  <1>5. StackOK'
    <2>1. frames' = Without(frames, o)
      BY DEF Die, Without
    <2>2. depth' = depth /\ overflow' = overflow
      BY DEF Die, scopeVars
    <2> QED
      BY <2>1, <2>2, WithoutOf
  <1> QED
    BY <1>1, <1>2, <1>3, <1>4, <1>5

LEMMA ScopePopTypes ==
  ASSUME TypeOK, ScopePop
  PROVE  /\ depth' \in 0 .. FR_MAX_SCOPES /\ overflow' \in Nat /\ walk' \in Ptr
         /\ heads' \in [Scope -> Ptr] /\ chain' \in [Scope -> Seq(Obj)] /\ rest' \in Seq(Obj)
  <1> USE DEF TypeOK, ListsOK, StackOK
  <1>1. CASE overflow > 0
    BY <1>1 DEF ScopePop
  <1>2. CASE overflow = 0 /\ depth > 0
    <2>1. depth - 1 \in Scope /\ Nil \in Ptr /\ <<>> \in Seq(Obj)
      <3>1. depth - 1 \in Scope
        BY <1>2, ScopeFacts DEF Scope
      <3> QED
        BY <3>1 DEF Ptr
    <2>2. depth' \in 0 .. FR_MAX_SCOPES /\ overflow' \in Nat
      BY <1>2, ScopeFacts DEF ScopePop
    <2>3. /\ walk' = heads[depth - 1] /\ heads' = [heads EXCEPT ![depth - 1] = Nil]
          /\ rest' = chain[depth - 1] /\ chain' = [chain EXCEPT ![depth - 1] = <<>>]
      BY <1>2 DEF ScopePop
    <2>4. /\ walk' \in Ptr /\ heads' \in [Scope -> Ptr] /\ rest' \in Seq(Obj)
          /\ chain' \in [Scope -> Seq(Obj)]
      BY <2>1, <2>3
    <2> QED
      BY <2>2, <2>4
  <1>3. CASE overflow = 0 /\ depth = 0
    BY <1>3 DEF ScopePop
  <1> QED
    BY <1>1, <1>2, <1>3, ScopeFacts

\* The initial state is typed.
LEMMA TypesInit ==
  Init => TypeOK
  <1> SUFFICES ASSUME Init PROVE TypeOK
    OBVIOUS
  <1>1. Nil \in Ptr /\ NewFrame(TRUE, 1, {}) \in Frame
    BY ScopeFacts DEF Ptr, NewFrame, Frame
  <1>2. CountsOK
    BY <1>1, CallForms DEF Init, CountsOK, Kind
  <1>3. ListsOK
    BY <1>1 DEF Init, ListsOK
  <1>4. StackOK
    <2>1. depth = 1 /\ overflow = 0 /\ frames = <<NewFrame(TRUE, 1, {})>>
      BY DEF Init
    <2>2. <<NewFrame(TRUE, 1, {})>> \in Seq(Frame)
      BY <1>1, OneElement
    <2>3. 1 \in 0 .. FR_MAX_SCOPES
      BY ScopeFacts
    <2> QED
      BY <2>1, <2>2, <2>3 DEF StackOK
  <1> QED
    BY <1>2, <1>3, <1>4 DEF TypeOK

LEMMA CallFunctionTypes ==
  ASSUME TypeOK, NEW scoped \in BOOLEAN, NEW args \in SUBSET live, CallFunction(scoped, args)
  PROVE  TypeOK'
  <1>1. CountsOK'
    BY DEF TypeOK, CountsOK, CallFunction, objVars, runVars
  <1>2. depth' \in 0 .. FR_MAX_SCOPES /\ overflow' \in Nat
    BY ScopeFacts DEF TypeOK, StackOK, CallFunction, scopeVars
  <1>3. ListsOK'
    <2>1. /\ scope_id' = scope_id /\ next_scope' = next_scope /\ prev_scope' = prev_scope
          /\ walk' = walk /\ rest' = rest
      BY DEF CallFunction, runVars
    <2>2. \/ heads' = heads /\ chain' = chain
          \/ /\ depth \in Scope /\ heads' = [heads EXCEPT ![depth] = Nil]
             /\ chain' = [chain EXCEPT ![depth] = <<>>]
      BY ScopeFacts DEF TypeOK, StackOK, CallFunction, Scope
    <2>3. Nil \in Ptr /\ <<>> \in Seq(Obj)
      BY DEF Ptr
    <2> QED
      BY <2>1, <2>2, <2>3 DEF TypeOK, ListsOK
  <1>4. frames' \in Seq(Frame)
    <2>1. args \subseteq Obj
      BY DEF TypeOK, CountsOK
    <2>2. NewFrame(scoped, depth', args) \in Frame
      BY <1>2, <2>1 DEF NewFrame, Frame
    <2>3. frames' = Append(frames, NewFrame(scoped, depth', args))
      BY DEF CallFunction
    <2> QED
      BY <2>2, <2>3, AppendOf DEF TypeOK, StackOK
  <1> QED
    BY <1>1, <1>2, <1>3, <1>4 DEF TypeOK, StackOK

LEMMA StructNewTypes ==
  ASSUME TypeOK, NEW o \in Obj, NEW vals \in [Index -> live \cup {Nil}], StructNew(o, vals)
  PROVE  TypeOK'
  <1>1. vals \in [Index -> Ptr]
    BY DEF TypeOK, CountsOK, Ptr
  <1>2. call' \in Calls
    BY <1>1, CallForms DEF StructNew
  <1>3. NewObject(o, "struct") /\ frames # <<>> /\ "struct" \in Kind
    BY DEF StructNew, Kind
  <1> QED
    BY <1>2, <1>3, NewObjectTypes DEF TypeOK

LEMMA AllocTypes ==
  ASSUME TypeOK, NEW o \in Obj, NEW k \in {"list", "raw"}, Alloc(o, k)
  PROVE  TypeOK'
  <1>1. call' \in Calls
    BY DEF Alloc, TypeOK, CountsOK
  <1>2. NewObject(o, k) /\ frames # <<>> /\ k \in Kind
    BY DEF Alloc, Kind
  <1> QED
    BY <1>1, <1>2, NewObjectTypes DEF TypeOK

LEMMA StoreCellTypes ==
  ASSUME TypeOK, NEW p \in Place, NEW v \in live \cup {Nil}, StoreCell(p, v)
  PROVE  TypeOK'
  <1>1. /\ live' = live /\ kind' = kind /\ cell' = cell /\ given' = given /\ depth' = depth
        /\ overflow' = overflow /\ frames' = frames /\ walk' = walk /\ rest' = rest
    BY DEF StoreCell, scopeVars
  <1>2. call' \in Calls
    <2>1. v \in Ptr
      BY DEF TypeOK, CountsOK, Ptr
    <2> QED
      BY <2>1, CallForms DEF StoreCell
  <1>3. pending' \in [Obj -> Nat]
    <2>1. cell[p] \in Ptr
      BY DEF TypeOK, CountsOK
    <2>2. pending' = IF cell[p] = Nil THEN pending ELSE [pending EXCEPT ![cell[p]] = @ + 1]
      BY DEF StoreCell
    <2> QED
      BY <2>1, <2>2 DEF TypeOK, CountsOK, Ptr
  <1>4. Adopt(v)
    BY DEF StoreCell
  <1> QED
    BY <1>1, <1>2, <1>3, <1>4, AdoptTypes DEF TypeOK, CountsOK, ListsOK, StackOK

LEMMA LoadTypes ==
  ASSUME TypeOK, NEW p \in Place, Load(p)
  PROVE  TypeOK'
  <1>1. CountsOK' /\ ListsOK' /\ depth' = depth /\ overflow' = overflow
    BY DEF TypeOK, CountsOK, ListsOK, Load, objVars, linkVars, scopeVars, runVars
  <1>2. frames' = Grow(frames, Len(frames), cell[p]) /\ cell[p] \in Obj
    BY DEF Load, Grow
  <1>3. Len(frames) \in 1 .. Len(frames)
    BY FrameAt DEF Load, TypeOK, StackOK
  <1> QED
    BY <1>1, <1>2, <1>3, GrowOf DEF TypeOK, StackOK

LEMMA ListPopTypes ==
  ASSUME TypeOK, NEW o \in live, NEW i \in Index, ListPop(o, i)
  PROVE  TypeOK'
  <1> DEFINE v == cell[<<o, i>>]
  <1>1. o \in Obj /\ <<o, i>> \in Place /\ v \in Obj
    BY PlacesFinite DEF TypeOK, CountsOK, ListPop, Ptr
  <1>2. /\ cell' = [cell EXCEPT ![<<o, i>>] = Nil] /\ given' = [given EXCEPT ![v] = @ + 1]
        /\ live' = live /\ refcount' = refcount /\ kind' = kind
        /\ pending' = pending /\ call' = call
    BY DEF ListPop, runVars
  <1>3. CountsOK'
    BY <1>1, <1>2 DEF TypeOK, CountsOK, Ptr
  <1>4. ListsOK' /\ depth' = depth /\ overflow' = overflow
    BY DEF TypeOK, ListsOK, ListPop, linkVars, scopeVars, runVars
  <1>5. frames' = frames \/ frames' = Grow(frames, Len(frames), v)
    BY DEF ListPop, Grow
  <1>6. Len(frames) \in 1 .. Len(frames)
    BY FrameAt DEF ListPop, TypeOK, StackOK
  <1> QED
    BY <1>1, <1>3, <1>4, <1>5, <1>6, GrowOf DEF TypeOK, StackOK

\* What is left of the call stack when a function returns.
LEMMA ReturnFrames ==
  ASSUME TypeOK, NEW v \in live \cup {Nil}, Return(v)
  PROVE  LET n == Len(frames) - 1
             up == SubSeq(frames, 1, n)
         IN  /\ up \in Seq(Frame) /\ Len(up) = n /\ \A k \in 1 .. n : up[k] = frames[k]
             /\ n \in Nat
             /\ \/ frames' = up /\ (v # Nil => n >= 1 /\ v \in Locals(frames[n]))
                \/ /\ v # Nil /\ n >= 1 /\ v \notin Locals(frames[n])
                   /\ frames' = Grow(up, n, v)
  <1> DEFINE n == Len(frames) - 1
             up == SubSeq(frames, 1, n)
  <1>1. n \in 0 .. Len(frames) /\ n \in Nat
    BY FrameAt DEF Return, TypeOK, StackOK
  <1>2. up \in Seq(Frame) /\ Len(up) = n /\ \A k \in 1 .. n : up[k] = frames[k]
    BY <1>1, PrefixOf DEF TypeOK, StackOK
  <1>3. v # Nil => n >= 1
    BY <1>1 DEF Return
  <1>4. frames' = IF v = Nil THEN up ELSE IF v \in Locals(up[n]) THEN up ELSE Grow(up, n, v)
    BY DEF Return, Grow
  <1> HIDE DEF n, up
  <1>5. v # Nil => up[n] = frames[n]
    BY <1>1, <1>2, <1>3
  <1>6. CASE v = Nil
    BY <1>1, <1>2, <1>4, <1>6 DEF n, up
  <1>7. CASE v # Nil /\ v \in Locals(up[n])
    BY <1>1, <1>2, <1>3, <1>4, <1>5, <1>7 DEF n, up
  <1>8. CASE v # Nil /\ v \notin Locals(up[n])
    BY <1>1, <1>2, <1>3, <1>4, <1>5, <1>8 DEF n, up
  <1> QED
    BY <1>6, <1>7, <1>8

LEMMA ReturnTypes ==
  ASSUME TypeOK, NEW v \in live \cup {Nil}, Return(v)
  PROVE  TypeOK'
  <1>1. /\ live' = live /\ kind' = kind /\ cell' = cell /\ pending' = pending
        /\ depth' = depth /\ overflow' = overflow /\ walk' = walk /\ rest' = rest
    BY DEF Return, scopeVars
  <1>2. call' \in Calls
    BY CallForms DEF Return
  <1>3. v = Nil \/ v \in Obj
    BY DEF TypeOK, CountsOK
  <1>4. given' \in [Obj -> Nat]
    BY <1>3 DEF Return, TypeOK, CountsOK
  <1>5. frames' \in Seq(Frame)
    <2> DEFINE n == Len(frames) - 1
               up == SubSeq(frames, 1, n)
    <2>1. up \in Seq(Frame) /\ Len(up) = n /\ n \in Nat
      BY ReturnFrames
    <2>2. frames' = up \/ (v # Nil /\ n >= 1 /\ frames' = Grow(up, n, v))
      BY ReturnFrames
    <2> HIDE DEF n, up
    <2>3. CASE v # Nil /\ n >= 1 /\ frames' = Grow(up, n, v)
      <3>1. n \in 1 .. Len(up) /\ v \in Obj
        BY <1>3, <2>1, <2>3
      <3> QED
        BY <2>1, <2>3, <3>1, GrowOf
    <2> QED
      BY <2>1, <2>2, <2>3
  <1>6. Adopt(v)
    BY DEF Return
  <1> QED
    BY <1>1, <1>2, <1>4, <1>5, <1>6, AdoptTypes DEF TypeOK, CountsOK, ListsOK, StackOK

LEMMA RaiseTypes ==
  ASSUME TypeOK, NEW k, Raise(k)
  PROVE  TypeOK'
  <1>1. CountsOK'
    BY CallForms DEF TypeOK, CountsOK, Raise, objVars
  <1>2. ListsOK' /\ depth' = depth /\ overflow' = overflow
    BY DEF TypeOK, ListsOK, Raise, linkVars, scopeVars
  <1>3. frames' = SubSeq(frames, 1, k) /\ k \in 0 .. Len(frames)
    BY DEF Raise
  <1> QED
    BY <1>1, <1>2, <1>3, PrefixOf DEF TypeOK, StackOK

LEMMA ReleaseTypes ==
  ASSUME TypeOK, NEW o \in Obj, Release(o)
  PROVE  TypeOK'
  <1>1. ListsOK' /\ StackOK'
    BY DEF TypeOK, ListsOK, StackOK, Release, linkVars, scopeVars
  <1>2. /\ live' = live /\ kind' = kind /\ cell' = cell /\ given' = given /\ call' = call
        /\ pending[o] > 0 /\ pending' = [pending EXCEPT ![o] = @ - 1]
        /\ (o \in live => refcount[o] > 1)
        /\ refcount' = IF o \in live THEN [refcount EXCEPT ![o] = @ - 1] ELSE refcount
    BY DEF Release
  <1>3. pending' \in [Obj -> Nat] /\ refcount' \in [Obj -> Nat]
    BY <1>2 DEF TypeOK, CountsOK
  <1> QED
    BY <1>1, <1>2, <1>3 DEF TypeOK, CountsOK

LEMMA WalkScopeTypes ==
  ASSUME TypeOK, WalkScope
  PROVE  TypeOK' /\ walk \in Obj
  <1>1. walk \in Obj
    BY DEF WalkScope, TypeOK, ListsOK, Ptr
  <1>2. CountsOK'
    BY <1>1 DEF TypeOK, CountsOK, WalkScope, objVars
  <1>3. StackOK'
    BY DEF TypeOK, StackOK, WalkScope, scopeVars
  <1>4. rest' \in Seq(Obj)
    BY HeadTailProperties DEF WalkScope, TypeOK, ListsOK
  <1>5. ListsOK'
    BY <1>1, <1>4 DEF TypeOK, ListsOK, WalkScope, Ptr
  <1> QED
    BY <1>1, <1>2, <1>3, <1>5 DEF TypeOK

LEMMA PopScopeTypes ==
  ASSUME TypeOK, PopScope
  PROVE  TypeOK'
  <1>1. CountsOK' /\ scope_id' = scope_id /\ next_scope' = next_scope /\ prev_scope' = prev_scope
        /\ frames' = frames
    BY CallForms DEF TypeOK, CountsOK, PopScope, objVars
  <1>2. ScopePop
    BY DEF PopScope
  <1> QED
    BY <1>1, <1>2, ScopePopTypes DEF TypeOK, ListsOK, StackOK

LEMMA UnwindScopeTypes ==
  ASSUME TypeOK, UnwindScope
  PROVE  TypeOK'
  <1>1. CountsOK' /\ scope_id' = scope_id /\ next_scope' = next_scope /\ prev_scope' = prev_scope
        /\ frames' = frames
    BY CallForms DEF TypeOK, CountsOK, UnwindScope, objVars
  <1>2. \/ ScopePop
        \/ depth' = depth /\ overflow' = overflow /\ heads' = heads /\ chain' = chain
           /\ walk' = walk /\ rest' = rest
    BY DEF UnwindScope
  <1> QED
    BY <1>1, <1>2, ScopePopTypes DEF TypeOK, ListsOK, StackOK

LEMMA FinishStoreTypes ==
  ASSUME TypeOK, FinishStore
  PROVE  TypeOK' /\ call.to \in Place /\ call.val \in Ptr
  <1>1. call.to \in Place /\ call.val \in Ptr
    BY CallKinds DEF FinishStore, TypeOK, CountsOK
  <1>2. ListsOK' /\ StackOK'
    BY DEF TypeOK, ListsOK, StackOK, FinishStore, linkVars, scopeVars
  <1>3. /\ live' = live /\ refcount' = refcount /\ kind' = kind /\ pending' = pending
        /\ call' = NoCall
    BY DEF FinishStore
  <1>4. cell' \in [Place -> Ptr] /\ given' \in [Obj -> Nat]
    BY <1>1 DEF TypeOK, CountsOK, FinishStore, Ptr
  <1> QED
    BY <1>1, <1>2, <1>3, <1>4, CallForms DEF TypeOK, CountsOK

LEMMA FillFieldTypes ==
  ASSUME TypeOK, NEW i \in Index, FillField(i)
  PROVE  /\ TypeOK' /\ call = FillCall(call.obj, call.vals) /\ call.obj \in Obj
         /\ call.vals \in [Index -> Ptr] /\ call.vals[i] \in Obj
  <1>1. /\ call = FillCall(call.obj, call.vals) /\ call.obj \in Obj
        /\ call.vals \in [Index -> Ptr] /\ call.vals[i] \in Obj
    BY CallKinds DEF FillField, TypeOK, CountsOK, Ptr
  <1>2. /\ live' = live /\ kind' = kind /\ given' = given /\ depth' = depth
        /\ overflow' = overflow /\ frames' = frames /\ pending' = pending
        /\ walk' = walk /\ rest' = rest
    BY DEF FillField, scopeVars
  <1>3. cell' \in [Place -> Ptr]
    BY <1>1 DEF FillField, TypeOK, CountsOK, Ptr
  <1>4. call' \in Calls
    <2>1. [call.vals EXCEPT ![i] = Nil] \in [Index -> Ptr]
      BY <1>1 DEF Ptr
    <2>2. \/ call' = NoCall
          \/ call' = FillCall(call.obj, [call.vals EXCEPT ![i] = Nil])
      BY DEF FillField
    <2> QED
      BY <1>1, <2>1, <2>2, CallForms
  <1>5. Adopt(call.vals[i])
    BY DEF FillField
  <1> QED
    BY <1>1, <1>2, <1>3, <1>4, <1>5, AdoptTypes DEF TypeOK, CountsOK, ListsOK, StackOK

\* Every action keeps the types.
LEMMA TypesStep ==
  ASSUME TypeOK, [Next]_vars
  PROVE  TypeOK'
  <1>1. ASSUME NEW scoped \in BOOLEAN, NEW args \in SUBSET live, CallFunction(scoped, args)
        PROVE  TypeOK'
    BY <1>1, CallFunctionTypes
  <1>2. ASSUME NEW o \in Obj, NEW k \in {"list", "raw"}, Alloc(o, k) PROVE TypeOK'
    BY <1>2, AllocTypes
  <1>3. ASSUME NEW o \in Obj, NEW vals \in [Index -> live \cup {Nil}], StructNew(o, vals)
        PROVE  TypeOK'
    BY <1>3, StructNewTypes
  <1>4. ASSUME NEW p \in Place, NEW v \in live \cup {Nil}, StoreCell(p, v) PROVE TypeOK'
    BY <1>4, StoreCellTypes
  <1>5. ASSUME NEW p \in Place, Load(p) PROVE TypeOK'
    BY <1>5, LoadTypes
  <1>6. ASSUME NEW o \in live, NEW i \in Index, ListPop(o, i) PROVE TypeOK'
    BY <1>6, ListPopTypes
  <1>7. ASSUME NEW v \in live \cup {Nil}, Return(v) PROVE TypeOK'
    BY <1>7, ReturnTypes
  <1>8. ASSUME NEW k \in 1 .. MaxFrames, Raise(k) PROVE TypeOK'
    BY <1>8, RaiseTypes
  <1>9. ASSUME NEW o \in Obj, Release(o) PROVE TypeOK'
    BY <1>9, ReleaseTypes
  <1>10. ASSUME NEW o \in Obj, ReleaseLast(o) PROVE TypeOK'
    BY <1>10, DieTypes DEF ReleaseLast
  <1>11. CASE WalkScope
    BY <1>11, WalkScopeTypes
  <1>12. CASE PopScope
    BY <1>12, PopScopeTypes
  <1>13. CASE UnwindScope
    BY <1>13, UnwindScopeTypes
  <1>14. CASE FinishStore
    BY <1>14, FinishStoreTypes
  <1>15. ASSUME NEW i \in Index, FillField(i) PROVE TypeOK'
    BY <1>15, FillFieldTypes
  <1>16. CASE UNCHANGED vars
    BY <1>16 DEF vars, TypeOK, CountsOK, ListsOK, StackOK
  <1> QED
    BY <1>1, <1>2, <1>3, <1>4, <1>5, <1>6, <1>7, <1>8, <1>9, <1>10, <1>11, <1>12, <1>13,
       <1>14, <1>15, <1>16 DEF Next, Program, Runtime, Exit

\* Every variable holds what it should.
THEOREM ObjectTypes == Spec => []TypeOK
  <1> QED
    BY TypesInit, TypesStep, PTL DEF Spec

---------------------------------------------------------------------------
\* Frames and scopes.

Least(n) == IF n <= FR_MAX_SCOPES THEN n ELSE FR_MAX_SCOPES
Popping == {"scope_pop", "scope_unwind"}

\* A frame has saved the depth of the scopes at its entry.  While a function is
\* left one scope more is open than frames have one; while an exception is
\* unwound, at least as many.
ScopeInv ==
  /\ overflow > 0 => depth = FR_MAX_SCOPES
  /\ \A k \in 1 .. Len(frames) : frames[k].base = Least(ScopedIn(frames, k))
  /\ call.op = "scope_pop" => depth + overflow = ScopedIn(frames, Len(frames)) + 1
  /\ call.op = "scope_unwind" =>
       /\ depth + overflow >= ScopedIn(frames, Len(frames))
       /\ frames # <<>> /\ ScopedIn(frames, Len(frames)) <= FR_MAX_SCOPES
  /\ call.op \notin Popping => depth + overflow = ScopedIn(frames, Len(frames))

\* What the call stack says, in numbers.
LEMMA ScopeNumbers ==
  ASSUME TypeOK
  PROVE  /\ Len(frames) \in Nat /\ depth \in Nat /\ overflow \in Nat /\ FR_MAX_SCOPES \in Nat
         /\ depth <= FR_MAX_SCOPES /\ FR_MAX_SCOPES >= 1
         /\ ScopedIn(frames, Len(frames)) \in Nat
         /\ \A k \in 1 .. Len(frames) : ScopedIn(frames, k) \in Nat
                /\ ScopedIn(frames, k) <= ScopedIn(frames, Len(frames))
  <1>1. Len(frames) \in Nat
    BY FrameAt DEF TypeOK, StackOK
  <1>2. ASSUME NEW k \in 1 .. Len(frames)
        PROVE  ScopedIn(frames, k) \in Nat /\ ScopedIn(frames, k) <= ScopedIn(frames, Len(frames))
    BY <1>1, ScopedNat, ScopedUpTo
  <1> QED
    BY <1>1, <1>2, ScopedNat, ScopeFacts DEF TypeOK, StackOK

\* The scope of the frame that runs is the innermost one.
LEMMA TopBase ==
  ASSUME TypeOK, ScopeInv, call.op \notin Popping, frames # <<>>
  PROVE  /\ Len(frames) \in 1 .. Len(frames) /\ top.base = depth
         /\ top.scoped => depth > 0
  <1>1. Len(frames) \in Nat /\ Len(frames) >= 1 /\ top.scoped \in BOOLEAN
    BY FrameAt DEF TypeOK, StackOK, top
  <1>2. top.base = Least(ScopedIn(frames, Len(frames)))
    BY <1>1 DEF ScopeInv, top
  <1>3. depth + overflow = ScopedIn(frames, Len(frames)) /\ (overflow > 0 => depth = FR_MAX_SCOPES)
    BY DEF ScopeInv
  <1>4. top.base = depth
    BY <1>2, <1>3, ScopeNumbers DEF Least
  <1>5. ASSUME top.scoped PROVE depth > 0
    <2>1. Len(frames) - 1 \in Nat /\ (Len(frames) - 1) + 1 = Len(frames)
      BY <1>1
    <2>2. frames[(Len(frames) - 1) + 1].scoped \in BOOLEAN
          /\ frames[(Len(frames) - 1) + 1].scoped
      BY <1>1, <1>5, <2>1 DEF top
    <2>4. ScopedIn(frames, (Len(frames) - 1) + 1) = ScopedIn(frames, Len(frames) - 1) + 1
      BY <2>1, <2>2, ScopedNext
    <2>3. ScopedIn(frames, Len(frames) - 1) \in Nat
      BY <2>1, ScopedNat
    <2> QED
      BY <1>3, <2>1, <2>3, <2>4, ScopeNumbers
  <1> QED
    BY <1>1, <1>4, <1>5

\* A step that leaves the call stack as deep as it is.
LEMMA ScopeSame ==
  ASSUME TypeOK, ScopeInv, depth' = depth, overflow' = overflow, Len(frames') = Len(frames),
         \A k \in 1 .. Len(frames) :
           frames'[k].scoped = frames[k].scoped /\ frames'[k].base = frames[k].base,
         call'.op = call.op \/ (call.op \notin Popping /\ call'.op \notin Popping),
         frames' = <<>> => frames = <<>>
  PROVE  ScopeInv'
  <1>1. Len(frames) \in Nat
    BY ScopeNumbers
  <1>2. \A n \in 0 .. Len(frames) : ScopedIn(frames', n) = ScopedIn(frames, n)
    <2> TAKE n \in 0 .. Len(frames)
    <2>1. n \in Nat /\ \A k \in 1 .. n : frames'[k].scoped = frames[k].scoped
      BY <1>1
    <2> QED
      BY <2>1, ScopedSame
  <1>3. ScopedIn(frames', Len(frames')) = ScopedIn(frames, Len(frames))
    BY <1>1, <1>2
  <1>4. \A k \in 1 .. Len(frames') : frames'[k].base = Least(ScopedIn(frames', k))
    BY <1>1, <1>2 DEF ScopeInv
  <1> QED
    BY <1>3, <1>4 DEF ScopeInv, Popping

\* main has the first scope.
LEMMA ScopeInit ==
  Init => ScopeInv
  <1> SUFFICES ASSUME Init PROVE ScopeInv
    OBVIOUS
  <1> DEFINE f == NewFrame(TRUE, 1, {})
  <1>1. f \in Frame /\ f.scoped = TRUE /\ f.base = 1
    BY ScopeFacts DEF NewFrame, Frame
  <1>2. /\ frames = <<f>> /\ depth = 1 /\ overflow = 0 /\ call = NoCall
    BY DEF Init
  <1> HIDE DEF f
  <1>3. Len(frames) = 1 /\ frames[1] = f /\ frames # <<>>
    BY <1>1, <1>2, OneElement
  <1>4. ScopedIn(frames, 1) = 1
    <2>1. {k \in 1 .. 1 : frames[k].scoped} = {1}
      BY <1>1, <1>3
    <2> QED
      BY <2>1, FS_Singleton DEF ScopedIn
  <1>5. call.op = "none"
    BY <1>2, CallForms
  <1> QED
    BY <1>1, <1>2, <1>3, <1>4, <1>5, ScopeFacts DEF ScopeInv, Least, Popping

\* A call pushes a frame and its scope, or an overflow scope.
LEMMA CallFunctionScopes ==
  ASSUME TypeOK, ScopeInv, NEW scoped \in BOOLEAN, NEW args \in SUBSET live,
         CallFunction(scoped, args)
  PROVE  /\ ScopeInv' /\ Len(frames') = Len(frames) + 1
         /\ \A k \in 1 .. Len(frames) : frames'[k] = frames[k]
         /\ frames'[Len(frames) + 1] = NewFrame(scoped, depth', args)
         /\ depth <= depth'
  <1> DEFINE n == Len(frames)
             f == NewFrame(scoped, depth', args)
  <1>1. TypeOK'
    BY CallFunctionTypes
  <1>2. f.scoped = scoped /\ f.base = depth'
    BY DEF NewFrame
  <1>3. f \in Frame
    <2>1. args \subseteq Obj /\ depth' \in 0 .. FR_MAX_SCOPES
      BY <1>1 DEF TypeOK, CountsOK, StackOK
    <2> QED
      BY <2>1 DEF NewFrame, Frame
  <1>4. call = NoCall /\ call' = call /\ frames' = Append(frames, f)
    BY DEF CallFunction, Ready, runVars
  <1>5. call.op = "none" /\ call'.op = "none"
    BY <1>4, CallForms
  <1> HIDE DEF f
  <1>6. n \in Nat /\ Len(frames') = n + 1 /\ frames'[n + 1] = f
        /\ \A k \in 1 .. n : frames'[k] = frames[k]
    BY <1>3, <1>4, AppendOf DEF TypeOK, StackOK
  <1> HIDE DEF n
  <1>7. \A m \in 1 .. n : ScopedIn(frames', m) = ScopedIn(frames, m)
    <2> TAKE m \in 1 .. n
    <2>1. m \in Nat /\ \A k \in 1 .. m : frames'[k].scoped = frames[k].scoped
      BY <1>6
    <2> QED
      BY <2>1, ScopedSame
  <1>8. ScopedIn(frames', n) = ScopedIn(frames, n)
    BY <1>6, ScopedSame
  <1>9. ScopedIn(frames', n + 1) = ScopedIn(frames, n) + (IF scoped THEN 1 ELSE 0)
    BY <1>2, <1>6, <1>8, ScopedNext
  <1>10. /\ depth + overflow = ScopedIn(frames, n) /\ (overflow > 0 => depth = FR_MAX_SCOPES)
         /\ \A k \in 1 .. n : frames[k].base = Least(ScopedIn(frames, k))
    BY <1>5 DEF ScopeInv, Popping, n
  <1>11. /\ depth \in Nat /\ overflow \in Nat /\ FR_MAX_SCOPES \in Nat /\ depth <= FR_MAX_SCOPES
         /\ ScopedIn(frames, n) \in Nat
    BY ScopeNumbers DEF n
  <1>12. /\ ~scoped => depth' = depth /\ overflow' = overflow
         /\ scoped /\ depth >= FR_MAX_SCOPES => depth' = depth /\ overflow' = overflow + 1
         /\ scoped /\ ~(depth >= FR_MAX_SCOPES) => depth' = depth + 1 /\ overflow' = overflow
    BY DEF CallFunction, scopeVars
  <1>13. /\ depth' + overflow' = ScopedIn(frames', n + 1)
         /\ (overflow' > 0 => depth' = FR_MAX_SCOPES)
         /\ depth' = Least(ScopedIn(frames', n + 1)) /\ depth <= depth'
    <2>1. CASE ~scoped
      <3>1. ScopedIn(frames', n + 1) = ScopedIn(frames, n)
        BY <1>9, <1>11, <2>1
      <3> QED
        BY <1>10, <1>11, <1>12, <2>1, <3>1 DEF Least
    <2>2. CASE scoped
      <3>1. ScopedIn(frames', n + 1) = ScopedIn(frames, n) + 1
        BY <1>9, <2>2
      <3>2. CASE depth >= FR_MAX_SCOPES
        BY <1>10, <1>11, <1>12, <2>2, <3>1, <3>2 DEF Least
      <3>3. CASE ~(depth >= FR_MAX_SCOPES)
        BY <1>10, <1>11, <1>12, <2>2, <3>1, <3>3 DEF Least
      <3> QED
        BY <3>2, <3>3
    <2> QED
      BY <2>1, <2>2
  <1>14. \A k \in 1 .. Len(frames') : frames'[k].base = Least(ScopedIn(frames', k))
    <2> TAKE k \in 1 .. Len(frames')
    <2>1. CASE k \in 1 .. n
      BY <1>6, <1>7, <1>10, <2>1
    <2>2. CASE k = n + 1
      BY <1>2, <1>6, <1>13, <2>2
    <2> QED
      BY <1>6, <2>1, <2>2
  <1>15. ScopeInv'
    BY <1>5, <1>6, <1>13, <1>14 DEF ScopeInv, Popping
  <1> QED
    BY <1>6, <1>13, <1>15 DEF n, f

\* The frames that are left after a return or a raise.
LEMMA FewerFrames ==
  ASSUME TypeOK, ScopeInv, NEW n \in 0 .. Len(frames), Len(frames') = n,
         \A k \in 1 .. n :
           frames'[k].scoped = frames[k].scoped /\ frames'[k].base = frames[k].base
  PROVE  /\ ScopedIn(frames', n) = ScopedIn(frames, n) /\ ScopedIn(frames, n) \in Nat
         /\ \A k \in 1 .. Len(frames') : frames'[k].base = Least(ScopedIn(frames', k))
  <1>1. Len(frames) \in Nat /\ n \in Nat
    BY ScopeNumbers
  <1>2. \A m \in 0 .. n : ScopedIn(frames', m) = ScopedIn(frames, m)
    <2> TAKE m \in 0 .. n
    <2>1. m \in Nat /\ \A k \in 1 .. m : frames'[k].scoped = frames[k].scoped
      BY <1>1
    <2> QED
      BY <2>1, ScopedSame
  <1>3. \A k \in 1 .. n : frames[k].base = Least(ScopedIn(frames, k))
    BY <1>1 DEF ScopeInv
  <1> QED
    BY <1>1, <1>2, <1>3, ScopedNat

\* A return leaves one scope too many until the epilogue has popped it.
LEMMA ReturnScopes ==
  ASSUME TypeOK, ScopeInv, NEW v \in live \cup {Nil}, Return(v)
  PROVE  ScopeInv'
  <1> DEFINE n == Len(frames) - 1
             up == SubSeq(frames, 1, n)
  <1>1. up \in Seq(Frame) /\ Len(up) = n /\ n \in Nat /\ \A k \in 1 .. n : up[k] = frames[k]
    BY ReturnFrames
  <1>2. frames' = up \/ (v \in Obj /\ n >= 1 /\ frames' = Grow(up, n, v))
    BY ReturnFrames DEF TypeOK, CountsOK
  <1> HIDE DEF up
  <1>3. Len(frames') = n /\ \A k \in 1 .. n :
          frames'[k].scoped = frames[k].scoped /\ frames'[k].base = frames[k].base
    <2>1. CASE frames' = up
      BY <1>1, <2>1
    <2>2. CASE v \in Obj /\ n >= 1 /\ frames' = Grow(up, n, v)
      <3>1. n \in 1 .. Len(up)
        BY <1>1, <2>2
      <3>2. /\ Len(Grow(up, n, v)) = Len(up)
            /\ \A k \in 1 .. Len(up) :
                 /\ Grow(up, n, v)[k].scoped = up[k].scoped
                 /\ Grow(up, n, v)[k].base = up[k].base
        BY <1>1, <2>2, <3>1, GrowOf
      <3> QED
        BY <1>1, <2>2, <3>2
    <2> QED
      BY <1>2, <2>1, <2>2
  <1>4. Len(frames) \in Nat /\ n \in 0 .. Len(frames) /\ n + 1 = Len(frames)
    BY <1>1, ScopeNumbers
  <1> HIDE DEF n
  <1>5. /\ ScopedIn(frames', n) = ScopedIn(frames, n) /\ ScopedIn(frames, n) \in Nat
        /\ \A k \in 1 .. Len(frames') : frames'[k].base = Least(ScopedIn(frames', k))
    BY <1>3, <1>4, FewerFrames
  <1>6. top.scoped \in BOOLEAN /\ top = frames[n + 1]
    BY <1>1, <1>4, FrameAt DEF TypeOK, StackOK, top
  <1>7. ScopedIn(frames, n + 1) = ScopedIn(frames, n) + (IF top.scoped THEN 1 ELSE 0)
    BY <1>1, <1>6, ScopedNext
  <1>8. call.op = "none" /\ depth' = depth /\ overflow' = overflow
    BY CallForms DEF Return, Ready, scopeVars
  <1>9. /\ top.scoped => call'.op = "scope_pop"
        /\ ~top.scoped => call'.op = "none"
    BY CallForms DEF Return
  <1>10. /\ depth + overflow = ScopedIn(frames, Len(frames))
         /\ overflow > 0 => depth = FR_MAX_SCOPES
    BY <1>8 DEF ScopeInv, Popping
  <1>11. CASE top.scoped
    <2>1. depth' + overflow' = ScopedIn(frames', Len(frames')) + 1
      BY <1>3, <1>4, <1>5, <1>7, <1>8, <1>10, <1>11
    <2> QED
      BY <1>5, <1>8, <1>9, <1>10, <1>11, <2>1 DEF ScopeInv, Popping
  <1>12. CASE ~top.scoped
    <2>1. depth' + overflow' = ScopedIn(frames', Len(frames'))
      BY <1>3, <1>4, <1>5, <1>7, <1>8, <1>10, <1>12
    <2> QED
      BY <1>5, <1>8, <1>9, <1>10, <1>12, <2>1 DEF ScopeInv, Popping
  <1> QED
    BY <1>6, <1>11, <1>12

\* An exception leaves the scopes of the frames it dropped to the unwinding.
LEMMA RaiseScopes ==
  ASSUME ~CatchDeep, TypeOK, ScopeInv, NEW k, Raise(k)
  PROVE  ScopeInv'
  <1>1. /\ k \in 1 .. Len(frames) /\ frames' = SubSeq(frames, 1, k) /\ call' = UnwindCall
        /\ depth' = depth /\ overflow' = overflow /\ call = NoCall
        /\ ScopedIn(frames, k) <= FR_MAX_SCOPES
    BY DEF Raise, Ready, scopeVars, ScopedFrames, ScopedIn
  <1>2. Len(frames) \in Nat /\ k \in 0 .. Len(frames) /\ k >= 1
    BY <1>1, ScopeNumbers
  <1>3. Len(frames') = k /\ \A j \in 1 .. k : frames'[j] = frames[j]
    BY <1>1, <1>2, PrefixOf DEF TypeOK, StackOK
  <1>4. /\ ScopedIn(frames', k) = ScopedIn(frames, k) /\ ScopedIn(frames, k) \in Nat
        /\ \A j \in 1 .. Len(frames') : frames'[j].base = Least(ScopedIn(frames', j))
    BY <1>2, <1>3, FewerFrames
  <1>5. call.op = "none" /\ call'.op = "scope_unwind"
    BY <1>1, CallForms
  <1>6. depth + overflow = ScopedIn(frames, Len(frames))
    BY <1>5 DEF ScopeInv, Popping
  <1>7. ScopedIn(frames, k) <= ScopedIn(frames, Len(frames))
    BY <1>1, ScopeNumbers
  <1>8. frames' # <<>>
    BY <1>2, <1>3, EmptySeq
  <1>9. depth' + overflow' >= ScopedIn(frames', Len(frames'))
    BY <1>1, <1>3, <1>4, <1>6, <1>7, ScopeNumbers
  <1> QED
    BY <1>1, <1>3, <1>4, <1>5, <1>8, <1>9 DEF ScopeInv, Popping

\* An overflow scope or the innermost list goes.
LEMMA ScopePopCounts ==
  ASSUME TypeOK, ScopeInv, depth + overflow > 0, ScopePop
  PROVE  /\ depth' + overflow' = depth + overflow - 1 /\ depth' \in Nat /\ overflow' \in Nat
         /\ overflow' > 0 => depth' = FR_MAX_SCOPES
         /\ overflow > 0 => depth' = depth /\ overflow' = overflow - 1
         /\ overflow = 0 => depth' = depth - 1 /\ overflow' = 0 /\ depth > 0
  <1>1. depth \in Nat /\ overflow \in Nat /\ (overflow > 0 => depth = FR_MAX_SCOPES)
    BY ScopeNumbers DEF ScopeInv
  <1> QED
    BY <1>1 DEF ScopePop

\* The epilogue's pop restores the balance.
LEMMA PopScopeScopes ==
  ASSUME TypeOK, ScopeInv, PopScope
  PROVE  ScopeInv' /\ depth + overflow > 0
  <1>1. call.op = "scope_pop" /\ call'.op = "none" /\ frames' = frames /\ ScopePop
    BY CallForms DEF PopScope
  <1>2. depth + overflow = ScopedIn(frames, Len(frames)) + 1
    BY <1>1 DEF ScopeInv
  <1>3. depth + overflow > 0
    BY <1>2, ScopeNumbers
  <1>4. /\ depth' + overflow' = ScopedIn(frames, Len(frames))
        /\ overflow' > 0 => depth' = FR_MAX_SCOPES
    <2>1. /\ depth' + overflow' = depth + overflow - 1
          /\ overflow' > 0 => depth' = FR_MAX_SCOPES
      BY <1>1, <1>3, ScopePopCounts
    <2> QED
      BY <1>2, <2>1, ScopeNumbers
  <1> QED
    BY <1>1, <1>3, <1>4 DEF ScopeInv, Popping

\* The unwinding ends when the scopes are those of the frame that catches.
LEMMA UnwindScopeScopes ==
  ASSUME TypeOK, ScopeInv, UnwindScope
  PROVE  /\ ScopeInv'
         /\ (overflow > 0 \/ depth > top.base) => depth + overflow > 0 /\ ScopePop
  <1>1. call.op = "scope_unwind" /\ frames' = frames
    BY CallForms DEF UnwindScope
  <1>2. /\ depth + overflow >= ScopedIn(frames, Len(frames))
        /\ frames # <<>> /\ ScopedIn(frames, Len(frames)) <= FR_MAX_SCOPES
        /\ overflow > 0 => depth = FR_MAX_SCOPES
    BY <1>1 DEF ScopeInv
  <1>3. top.base = ScopedIn(frames, Len(frames))
    <2>1. Len(frames) \in 1 .. Len(frames)
      BY <1>2, FrameAt DEF TypeOK, StackOK
    <2> QED
      BY <1>2, <2>1 DEF ScopeInv, Least, top
  <1>4. CASE overflow > 0 \/ depth > top.base
    <2>1. ScopePop /\ call' = call /\ depth + overflow > 0
      BY <1>2, <1>3, <1>4, ScopeNumbers DEF UnwindScope
    <2>2. /\ depth' + overflow' >= ScopedIn(frames, Len(frames))
          /\ overflow' > 0 => depth' = FR_MAX_SCOPES
      BY <1>2, <1>3, <1>4, <2>1, ScopePopCounts, ScopeNumbers
    <2> QED
      BY <1>1, <1>2, <2>1, <2>2 DEF ScopeInv, Popping
  <1>5. CASE ~(overflow > 0 \/ depth > top.base)
    <2>1. call' = NoCall /\ depth' = depth /\ overflow' = overflow
      BY <1>5 DEF UnwindScope
    <2>2. depth + overflow = ScopedIn(frames, Len(frames))
      BY <1>2, <1>3, <1>5, ScopeNumbers
    <2>3. call'.op = "none"
      BY <2>1, CallForms
    <2> QED
      BY <1>1, <1>2, <1>5, <2>1, <2>2, <2>3 DEF ScopeInv, Popping
  <1> QED
    BY <1>4, <1>5

\* The call stack keeps its frames; only their locals differ.
SameFrames(fs, gs) ==
  /\ Len(gs) = Len(fs) /\ gs \in Seq(Frame)
  /\ \A k \in 1 .. Len(fs) : gs[k].scoped = fs[k].scoped /\ gs[k].base = fs[k].base

\* Frames that gain or lose a local are still the same frames to the scopes.
LEMMA FramesStay ==
  ASSUME NEW fs \in Seq(Frame)
  PROVE  /\ SameFrames(fs, fs)
         /\ \A n \in 1 .. Len(fs), o \in Obj : SameFrames(fs, Grow(fs, n, o))
         /\ \A o \in Obj : SameFrames(fs, Without(fs, o))
  <1>1. SameFrames(fs, fs)
    BY DEF SameFrames
  <1>2. ASSUME NEW n \in 1 .. Len(fs), NEW o \in Obj
        PROVE  SameFrames(fs, Grow(fs, n, o))
    <2> DEFINE g == Grow(fs, n, o)
    <2>1. g \in Seq(Frame) /\ Len(g) = Len(fs)
      BY GrowOf
    <2>2. \A k \in 1 .. Len(fs) : g[k].scoped = fs[k].scoped
      BY GrowOf
    <2>3. \A k \in 1 .. Len(fs) : g[k].base = fs[k].base
      BY GrowOf
    <2> QED
      BY <2>1, <2>2, <2>3 DEF SameFrames
  <1>3. ASSUME NEW o \in Obj PROVE SameFrames(fs, Without(fs, o))
    BY WithoutOf DEF SameFrames
  <1> QED
    BY <1>1, <1>2, <1>3

\* A step that neither calls nor returns.
LEMMA SameStack ==
  ASSUME TypeOK, ScopeInv, depth' = depth, overflow' = overflow,
         SameFrames(frames, frames'),
         call'.op = call.op \/ (call.op \notin Popping /\ call'.op \notin Popping)
  PROVE  ScopeInv'
  <1>1. Len(frames') = Len(frames) /\ frames' \in Seq(Frame) /\ \A k \in 1 .. Len(frames) :
          frames'[k].scoped = frames[k].scoped /\ frames'[k].base = frames[k].base
    BY DEF SameFrames
  <1>2. frames' = <<>> => frames = <<>>
    BY <1>1, FrameAt DEF TypeOK, StackOK
  <1> QED
    BY <1>1, <1>2, ScopeSame

\* Every action keeps the balance of scopes, unless an exception is caught beyond
\* the last scope.
LEMMA ScopeStep ==
  ASSUME ~CatchDeep, TypeOK, ScopeInv, [Next]_vars
  PROVE  ScopeInv'
  <1>0. frames \in Seq(Frame)
    BY DEF TypeOK, StackOK
  <1>1. ASSUME NEW scoped \in BOOLEAN, NEW args \in SUBSET live, CallFunction(scoped, args)
        PROVE  ScopeInv'
    BY <1>1, CallFunctionScopes
  <1>2. ASSUME NEW o \in Obj, NEW k \in {"list", "raw"}, Alloc(o, k) PROVE ScopeInv'
    <2>1. frames' = Grow(frames, Len(frames), o) /\ Len(frames) \in 1 .. Len(frames)
      BY <1>2, FrameAt DEF Alloc, NewObject, Grow, TypeOK, StackOK
    <2>2. depth' = depth /\ overflow' = overflow /\ call'.op = call.op
      BY <1>2 DEF Alloc, NewObject, scopeVars
    <2> QED
      BY <2>1, <2>2, <1>0, FramesStay, SameStack
  <1>3. ASSUME NEW o \in Obj, NEW vals \in [Index -> live \cup {Nil}], StructNew(o, vals)
        PROVE  ScopeInv'
    <2>1. frames' = Grow(frames, Len(frames), o) /\ Len(frames) \in 1 .. Len(frames)
      BY <1>3, FrameAt DEF StructNew, NewObject, Grow, TypeOK, StackOK
    <2>2. depth' = depth /\ overflow' = overflow /\ call = NoCall
      BY <1>3 DEF StructNew, NewObject, scopeVars, Ready
    <2>3. vals \in [Index -> Ptr]
      BY DEF TypeOK, CountsOK, Ptr
    <2>4. call'.op \notin Popping /\ call.op \notin Popping
      BY <1>3, <2>2, <2>3, CallForms DEF StructNew, Popping
    <2> QED
      BY <2>1, <2>2, <2>4, <1>0, FramesStay, SameStack
  <1>4. ASSUME NEW p \in Place, NEW v \in live \cup {Nil}, StoreCell(p, v) PROVE ScopeInv'
    <2>1. frames' = frames /\ depth' = depth /\ overflow' = overflow
      BY <1>4 DEF StoreCell, scopeVars
    <2>2. v \in Ptr
      BY DEF TypeOK, CountsOK, Ptr
    <2>3. call'.op \notin Popping /\ call.op \notin Popping
      BY <1>4, <2>2, CallForms DEF StoreCell, Ready, Popping
    <2> QED
      BY <2>1, <2>3, <1>0, FramesStay, SameStack
  <1>5. ASSUME NEW p \in Place, Load(p) PROVE ScopeInv'
    <2>1. frames' = Grow(frames, Len(frames), cell[p]) /\ Len(frames) \in 1 .. Len(frames)
          /\ cell[p] \in Obj
      BY <1>5, FrameAt DEF Load, Grow, TypeOK, StackOK
    <2>2. depth' = depth /\ overflow' = overflow /\ call' = call
      BY <1>5 DEF Load, scopeVars, runVars
    <2> QED
      BY <2>1, <2>2, <1>0, FramesStay, SameStack
  <1>6. ASSUME NEW o \in live, NEW i \in Index, ListPop(o, i) PROVE ScopeInv'
    <2> DEFINE v == cell[<<o, i>>]
    <2>1. frames' = frames \/ frames' = Grow(frames, Len(frames), v)
      BY <1>6 DEF ListPop, Grow
    <2>2. v \in Obj /\ Len(frames) \in 1 .. Len(frames)
      BY <1>6, FrameAt, PlacesFinite DEF ListPop, TypeOK, CountsOK, StackOK, Ptr
    <2>3. depth' = depth /\ overflow' = overflow /\ call' = call
      BY <1>6 DEF ListPop, scopeVars, runVars
    <2> QED
      BY <2>1, <2>2, <2>3, <1>0, FramesStay, SameStack
  <1>7. ASSUME NEW v \in live \cup {Nil}, Return(v) PROVE ScopeInv'
    BY <1>7, ReturnScopes
  <1>8. ASSUME NEW k \in 1 .. MaxFrames, Raise(k) PROVE ScopeInv'
    BY <1>8, RaiseScopes
  <1>9. ASSUME NEW o \in Obj, Release(o) PROVE ScopeInv'
    <2>1. frames' = frames /\ depth' = depth /\ overflow' = overflow /\ call' = call
      BY <1>9 DEF Release, scopeVars
    <2> QED
      BY <2>1, <1>0, FramesStay, SameStack
  <1>10. ASSUME NEW o \in Obj, ReleaseLast(o) PROVE ScopeInv'
    <2>1. depth' = depth /\ overflow' = overflow /\ call' = call
      BY <1>10 DEF ReleaseLast, Die, scopeVars
    <2>2. frames' = Without(frames, o)
      BY <1>10 DEF ReleaseLast, Die, Without
    <2> QED
      BY <2>1, <2>2, <1>0, FramesStay, SameStack
  <1>11. CASE WalkScope
    <2>1. frames' = frames /\ depth' = depth /\ overflow' = overflow /\ call' = call
      BY <1>11 DEF WalkScope, scopeVars
    <2> QED
      BY <2>1, <1>0, FramesStay, SameStack
  <1>12. CASE PopScope
    BY <1>12, PopScopeScopes
  <1>13. CASE UnwindScope
    BY <1>13, UnwindScopeScopes
  <1>14. CASE FinishStore
    <2>1. frames' = frames /\ depth' = depth /\ overflow' = overflow
          /\ call.op = "store" /\ call' = NoCall
      BY <1>14 DEF FinishStore, scopeVars
    <2> QED
      BY <2>1, CallForms, <1>0, FramesStay, SameStack DEF Popping
  <1>15. ASSUME NEW i \in Index, FillField(i) PROVE ScopeInv'
    <2>1. frames' = frames /\ depth' = depth /\ overflow' = overflow /\ call.op = "struct_new"
      BY <1>15 DEF FillField, scopeVars
    <2>2. call.obj \in Obj /\ [call.vals EXCEPT ![i] = Nil] \in [Index -> Ptr]
      BY <1>15, FillFieldTypes DEF Ptr
    <2>3. call' = NoCall \/ call' = FillCall(call.obj, [call.vals EXCEPT ![i] = Nil])
      BY <1>15 DEF FillField
    <2>4. call'.op = "none" \/ call'.op = "struct_new"
      BY <2>2, <2>3, CallForms
    <2> QED
      BY <2>1, <2>4, <1>0, FramesStay, SameStack DEF Popping
  <1>16. CASE UNCHANGED vars
    <2>1. frames' = frames /\ depth' = depth /\ overflow' = overflow /\ call' = call
      BY <1>16 DEF vars
    <2> QED
      BY <2>1, <1>0, FramesStay, SameStack
  <1> QED
    BY <1>1, <1>2, <1>3, <1>4, <1>5, <1>6, <1>7, <1>8, <1>9, <1>10, <1>11, <1>12, <1>13,
       <1>14, <1>15, <1>16 DEF Next, Program, Runtime, Exit

\* Calls, returns and exceptions push and pop in step, for any number of scopes
\* and frames, as long as no exception is caught beyond the last scope.
THEOREM ScopesStayBalanced == ~CatchDeep /\ Spec => []ScopesBalanced
  <1> SUFFICES ASSUME ~CatchDeep PROVE Spec => []ScopesBalanced
    OBVIOUS
  <1>1. Init => TypeOK /\ ScopeInv
    BY TypesInit, ScopeInit
  <1>2. TypeOK /\ ScopeInv /\ [Next]_vars => TypeOK' /\ ScopeInv'
    BY TypesStep, ScopeStep
  <1>3. TypeOK /\ ScopeInv => ScopesBalanced
    BY CallForms DEF ScopeInv, ScopesBalanced, Ready, Popping, ScopedFrames, ScopedIn
  <1> QED
    BY <1>1, <1>2, <1>3, PTL DEF Spec

---------------------------------------------------------------------------
\* Doubly linked lists.

Distinct(s) == \A i, j \in 1 .. Len(s) : s[i] = s[j] => i = j

Forward(nx, h, s) ==
  /\ h = IF s = <<>> THEN Nil ELSE s[1]
  /\ \A i \in 1 .. Len(s) : nx[s[i]] = IF i = Len(s) THEN Nil ELSE s[i + 1]

Backward(pv, s) == \A i \in 1 .. Len(s) : i > 1 => pv[s[i]] = s[i - 1]

\* What a chain and its links are to each other.
ListOf(nx, pv, h, s) == Forward(nx, h, s) /\ Backward(pv, s) /\ Distinct(s)

\* Elements and range of a chain.
LEMMA SeqObj ==
  ASSUME NEW s \in Seq(Obj)
  PROVE  /\ Len(s) \in Nat /\ (s = <<>> <=> Len(s) = 0)
         /\ \A i \in 1 .. Len(s) : s[i] \in Obj /\ s[i] # Nil
         /\ Range(s) \subseteq Obj
         /\ \A x : x \in Range(s) <=> \E i \in 1 .. Len(s) : s[i] = x
  <1>1. Len(s) \in Nat /\ (s = <<>> <=> Len(s) = 0)
    BY EmptySeq
  <1>2. \A i \in 1 .. Len(s) : s[i] \in Obj /\ s[i] # Nil
    BY ElementOfSeq, ScopeFacts
  <1> QED
    BY <1>1, <1>2, RangeOf

\* A list of FrObjects, forwards and backwards.
LEMMA LinkedParts ==
  ASSUME NEW h, NEW s \in Seq(Obj)
  PROVE  Linked(h, s) <=> /\ Forward(next_scope, h, s) /\ Backward(prev_scope, s)
                          /\ \A i \in 1 .. Len(s) : s[i] \in live
  <1>1. s # <<>> => Head(s) = s[1]
    OBVIOUS
  <1> QED
    BY <1>1 DEF Linked, Forward, Backward

\* Links of other objects may change.
LEMMA LinksElsewhere ==
  ASSUME NEW nx, NEW pv, NEW nx2, NEW pv2, NEW h, NEW s \in Seq(Obj),
         Forward(nx, h, s), Backward(pv, s),
         \A i \in 1 .. Len(s) : nx2[s[i]] = nx[s[i]] /\ pv2[s[i]] = pv[s[i]]
  PROVE  Forward(nx2, h, s) /\ Backward(pv2, s)
  BY DEF Forward, Backward

\* An object is taken out of its list by its own two links.
NextWithout(nx, pv, v) ==
  [(IF pv[v] = Nil THEN nx ELSE [nx EXCEPT ![pv[v]] = nx[v]]) EXCEPT ![v] = Nil]
PrevWithout(nx, pv, v) ==
  [(IF nx[v] = Nil THEN pv ELSE [pv EXCEPT ![nx[v]] = pv[v]]) EXCEPT ![v] = Nil]
HeadWithout(nx, pv, h, v) == IF pv[v] = Nil /\ h = v THEN nx[v] ELSE h

\* runtime_scope_forget: one object leaves a doubly linked list, the others keep their
\* order, and no link leads to it.
LEMMA Unlink ==
  ASSUME NEW nx \in [Obj -> Ptr], NEW pv \in [Obj -> Ptr], NEW h, NEW s \in Seq(Obj),
         ListOf(nx, pv, h, s), s # <<>> => pv[h] = Nil, NEW k \in 1 .. Len(s)
  PROVE  /\ RemoveAt(s, k) \in Seq(Obj)
         /\ ListOf(NextWithout(nx, pv, s[k]), PrevWithout(nx, pv, s[k]),
                   HeadWithout(nx, pv, h, s[k]), RemoveAt(s, k))
         /\ RemoveAt(s, k) # <<>> =>
              PrevWithout(nx, pv, s[k])[HeadWithout(nx, pv, h, s[k])] = Nil
         /\ \A x : x \in Range(RemoveAt(s, k)) <=> x \in Range(s) /\ x # s[k]
         /\ \A x \in Obj : x \notin Range(s) =>
              /\ NextWithout(nx, pv, s[k])[x] = nx[x]
              /\ PrevWithout(nx, pv, s[k])[x] = pv[x]
  <1> DEFINE L == Len(s)
             v == s[k]
             p == pv[v]
             n == nx[v]
             nx2 == NextWithout(nx, pv, v)
             pv2 == PrevWithout(nx, pv, v)
             h2 == HeadWithout(nx, pv, h, v)
             t == RemoveAt(s, k)
  <1>0. /\ v = s[k] /\ p = pv[v] /\ n = nx[v] /\ t = RemoveAt(s, k)
        /\ nx2 = [(IF p = Nil THEN nx ELSE [nx EXCEPT ![p] = n]) EXCEPT ![v] = Nil]
        /\ pv2 = [(IF n = Nil THEN pv ELSE [pv EXCEPT ![n] = p]) EXCEPT ![v] = Nil]
        /\ h2 = IF p = Nil /\ h = v THEN n ELSE h
    BY DEF NextWithout, PrevWithout, HeadWithout
  <1>a. Forward(nx, h, s) /\ Backward(pv, s) /\ Distinct(s)
    BY DEF ListOf
  <1> HIDE DEF v, p, n, nx2, pv2, h2, t
  <1> USE <1>0, <1>a
  <1>1. L \in Nat /\ k \in Nat /\ 1 <= k /\ k <= L /\ s # <<>>
        /\ \A i \in 1 .. L : s[i] \in Obj /\ s[i] # Nil
    BY SeqObj
  <1>2. p = IF k = 1 THEN Nil ELSE s[k - 1]
    <2>1. CASE k = 1
      BY <1>1, <2>1 DEF Forward
    <2>2. CASE k # 1
      BY <1>1, <2>2 DEF Backward
    <2> QED
      BY <2>1, <2>2
  <1>3. n = IF k = L THEN Nil ELSE s[k + 1]
    BY <1>1 DEF Forward
  <1>4. /\ t \in Seq(Obj) /\ Len(t) = L - 1
        /\ \A j \in 1 .. L - 1 : t[j] = IF j < k THEN s[j] ELSE s[j + 1]
    BY RemoveAtOf
  <1>5. \A i, j \in 1 .. L : s[i] = s[j] => i = j
    BY DEF Distinct
  <1>6. \A i \in 1 .. L : nx[s[i]] = IF i = L THEN Nil ELSE s[i + 1]
    BY DEF Forward
  <1>7. \A i \in 1 .. L : i > 1 => pv[s[i]] = s[i - 1]
    BY DEF Backward
  <1>8. h = s[1] /\ pv[s[1]] = Nil
    BY <1>1 DEF Forward
  <1>9. /\ p \in Ptr /\ n \in Ptr /\ v \in Obj /\ v # Nil
        /\ (p # Nil => p \in Obj) /\ (n # Nil => n \in Obj)
    BY <1>1 DEF Ptr
  <1>10. \A x \in Obj : nx2[x] = IF x = v THEN Nil ELSE IF x = p THEN n ELSE nx[x]
    <2> DEFINE g == IF p = Nil THEN nx ELSE [nx EXCEPT ![p] = n]
    <2>1. g \in [Obj -> Ptr] /\ \A x \in Obj : g[x] = IF x = p THEN n ELSE nx[x]
      <3>1. CASE p = Nil
        BY <1>9, <3>1, ScopeFacts
      <3>2. CASE p # Nil
        BY <1>9, <3>2
      <3> QED
        BY <3>1, <3>2
    <2>2. nx2 = [g EXCEPT ![v] = Nil]
      OBVIOUS
    <2> HIDE DEF g
    <2> QED
      BY <1>9, <2>1, <2>2
  <1>11. \A x \in Obj : pv2[x] = IF x = v THEN Nil ELSE IF x = n THEN p ELSE pv[x]
    <2> DEFINE g == IF n = Nil THEN pv ELSE [pv EXCEPT ![n] = p]
    <2>1. g \in [Obj -> Ptr] /\ \A x \in Obj : g[x] = IF x = n THEN p ELSE pv[x]
      <3>1. CASE n = Nil
        BY <1>9, <3>1, ScopeFacts
      <3>2. CASE n # Nil
        BY <1>9, <3>2
      <3> QED
        BY <3>1, <3>2
    <2>2. pv2 = [g EXCEPT ![v] = Nil]
      OBVIOUS
    <2> HIDE DEF g
    <2> QED
      BY <1>9, <2>1, <2>2
  <1>12. /\ k > 1 => k - 1 \in 1 .. L /\ p = s[k - 1] /\ p # Nil
         /\ k < L => k + 1 \in 1 .. L /\ n = s[k + 1] /\ n # Nil
    BY <1>1, <1>2, <1>3
  <1> HIDE DEF L
  <1>13. ASSUME NEW i \in 1 .. L, i # k
         PROVE  nx2[s[i]] = IF i = k - 1 THEN n ELSE nx[s[i]]
    <2>1. s[i] # v /\ s[i] \in Obj /\ s[i] # Nil
      BY <1>1, <1>5, <1>13
    <2>2. CASE i = k - 1
      <3>1. s[i] = p
        BY <1>1, <1>12, <2>2
      <3> QED
        BY <1>10, <2>1, <2>2, <3>1
    <2>3. CASE i # k - 1
      <3>1. s[i] # p
        BY <1>1, <1>2, <1>5, <1>12, <2>1, <2>3
      <3> QED
        BY <1>10, <2>1, <2>3, <3>1
    <2> QED
      BY <2>2, <2>3
  <1>14. ASSUME NEW i \in 1 .. L, i # k
         PROVE  pv2[s[i]] = IF i = k + 1 THEN p ELSE pv[s[i]]
    <2>1. s[i] # v /\ s[i] \in Obj /\ s[i] # Nil
      BY <1>1, <1>5, <1>14
    <2>2. CASE i = k + 1
      <3>1. s[i] = n
        BY <1>1, <1>12, <2>2
      <3> QED
        BY <1>11, <2>1, <2>2, <3>1
    <2>3. CASE i # k + 1
      <3>1. s[i] # n
        BY <1>1, <1>3, <1>5, <1>12, <2>1, <2>3
      <3> QED
        BY <1>11, <2>1, <2>3, <3>1
    <2> QED
      BY <2>2, <2>3
  <1>15. \A j \in 1 .. L - 1 : nx2[t[j]] = IF j = L - 1 THEN Nil ELSE t[j + 1]
    <2> TAKE j \in 1 .. L - 1
    <2>1. CASE j < k - 1
      <3>1. /\ j \in 1 .. L /\ j # k /\ j # k - 1 /\ t[j] = s[j] /\ j # L /\ j # L - 1
            /\ j + 1 \in 1 .. L - 1 /\ t[j + 1] = s[j + 1]
        BY <1>1, <1>4, <2>1
      <3> QED
        BY <1>6, <1>13, <3>1
    <2>2. CASE j = k - 1
      <3>1. j \in 1 .. L /\ j # k /\ t[j] = s[j]
        BY <1>1, <1>4, <2>2
      <3>2. nx2[t[j]] = n
        BY <1>13, <2>2, <3>1
      <3>3. CASE k = L
        BY <1>1, <1>3, <2>2, <3>2, <3>3
      <3>4. CASE k # L
        <4>1. j + 1 \in 1 .. L - 1 /\ j + 1 = k /\ j # L - 1 /\ t[j + 1] = s[k + 1]
          BY <1>1, <1>4, <2>2, <3>4
        <4> QED
          BY <1>1, <1>3, <3>2, <3>4, <4>1
      <3> QED
        BY <3>3, <3>4
    <2>3. CASE j >= k
      <3>1. j + 1 \in 1 .. L /\ j + 1 # k /\ j + 1 # k - 1 /\ t[j] = s[j + 1]
        BY <1>1, <1>4, <2>3
      <3>2. nx2[t[j]] = IF j + 1 = L THEN Nil ELSE s[j + 1 + 1]
        BY <1>6, <1>13, <3>1
      <3>3. CASE j = L - 1
        BY <1>1, <3>2, <3>3
      <3>4. CASE j # L - 1
        <4>1. j + 1 # L /\ j + 1 \in 1 .. L - 1 /\ ~ (j + 1 < k)
          BY <1>1, <2>3, <3>4
        <4>2. t[j + 1] = s[j + 1 + 1]
          BY <1>4, <4>1
        <4> QED
          BY <3>2, <3>4, <4>1, <4>2
      <3> QED
        BY <3>3, <3>4
    <2> QED
      BY <1>1, <2>1, <2>2, <2>3
  <1>16. \A j \in 1 .. L - 1 : j > 1 => pv2[t[j]] = t[j - 1]
    <2> SUFFICES ASSUME NEW j \in 1 .. L - 1, j > 1 PROVE pv2[t[j]] = t[j - 1]
      OBVIOUS
    <2>1. CASE j < k
      <3>1. /\ j \in 1 .. L /\ j # k /\ j # k + 1 /\ t[j] = s[j]
            /\ j - 1 \in 1 .. L - 1 /\ t[j - 1] = s[j - 1]
        BY <1>1, <1>4, <2>1
      <3> QED
        BY <1>7, <1>14, <3>1
    <2>2. CASE j = k
      <3>1. /\ j + 1 \in 1 .. L /\ j + 1 # k /\ j + 1 = k + 1 /\ t[j] = s[j + 1]
            /\ j - 1 \in 1 .. L - 1 /\ t[j - 1] = s[k - 1] /\ k # 1
        BY <1>1, <1>4, <2>2
      <3>2. pv2[t[j]] = p
        BY <1>14, <3>1
      <3> QED
        BY <1>2, <3>1, <3>2
    <2>3. CASE j > k
      <3>1. /\ j + 1 \in 1 .. L /\ j + 1 # k /\ j + 1 # k + 1 /\ t[j] = s[j + 1] /\ j + 1 > 1
            /\ j - 1 \in 1 .. L - 1 /\ (j + 1) - 1 = j /\ (j - 1) + 1 = j /\ ~ (j - 1 < k)
        BY <1>1, <1>4, <2>3
      <3>2. t[j - 1] = s[j]
        BY <1>4, <3>1
      <3>3. pv2[t[j]] = s[j]
        BY <1>7, <1>14, <3>1
      <3> QED
        BY <3>2, <3>3
    <2> QED
      BY <1>1, <2>1, <2>2, <2>3
  <1>17. h2 = IF t = <<>> THEN Nil ELSE t[1]
    <2>1. t = <<>> <=> L = 1
      BY <1>1, <1>4, EmptySeq
    <2>2. CASE k = 1
      <3>1. h2 = n
        BY <1>2, <1>8, <2>2
      <3>2. L # 1 => t[1] = s[1 + 1]
        BY <1>1, <1>4, <2>2
      <3> QED
        BY <1>1, <1>3, <2>1, <2>2, <3>1, <3>2
    <2>3. CASE k # 1
      <3>1. p # Nil /\ h2 = s[1] /\ L # 1 /\ t[1] = s[1]
        BY <1>1, <1>4, <1>8, <1>12, <2>3
      <3> QED
        BY <2>1, <3>1
    <2> QED
      BY <2>2, <2>3
  <1>18. ASSUME t # <<>> PROVE pv2[h2] = Nil
    <2>1. L > 1
      BY <1>1, <1>4, <1>18, EmptySeq
    <2>2. h2 = t[1]
      BY <1>17, <1>18
    <2>3. CASE k = 1
      <3>1. t[1] = s[1 + 1] /\ 1 + 1 \in 1 .. L /\ 1 + 1 # k /\ 1 + 1 = k + 1
        BY <1>1, <1>4, <2>1, <2>3
      <3> QED
        BY <1>2, <1>14, <2>2, <2>3, <3>1
    <2>4. CASE k # 1
      <3>1. t[1] = s[1] /\ 1 \in 1 .. L /\ 1 # k /\ 1 # k + 1
        BY <1>1, <1>4, <2>1, <2>4
      <3> QED
        BY <1>8, <1>14, <2>2, <3>1
    <2> QED
      BY <2>3, <2>4
  <1>19. Distinct(t)
    <2> SUFFICES ASSUME NEW i \in 1 .. Len(t), NEW j \in 1 .. Len(t), t[i] = t[j] PROVE i = j
      BY DEF Distinct
    <2>1. /\ i \in 1 .. L /\ i + 1 \in 1 .. L /\ j \in 1 .. L /\ j + 1 \in 1 .. L
          /\ i \in 1 .. L - 1 /\ j \in 1 .. L - 1
      BY <1>1, <1>4
    <2> QED
      BY <1>1, <1>4, <1>5, <2>1
  <1>20. ASSUME NEW x PROVE x \in Range(t) <=> x \in Range(s) /\ x # v
    <2>1. ASSUME x \in Range(t) PROVE x \in Range(s) /\ x # v
      <3>1. PICK j \in 1 .. L - 1 : t[j] = x
        BY <1>4, <2>1, SeqObj
      <3>2. CASE j < k
        <4>1. j \in 1 .. L /\ s[j] = x /\ j # k
          BY <1>1, <1>4, <3>1, <3>2
        <4> QED
          BY <1>5, <4>1, SeqObj DEF L
      <3>3. CASE ~ (j < k)
        <4>1. j + 1 \in 1 .. L /\ s[j + 1] = x /\ j + 1 # k
          BY <1>1, <1>4, <3>1, <3>3
        <4> QED
          BY <1>5, <4>1, SeqObj DEF L
      <3> QED
        BY <3>2, <3>3
    <2>2. ASSUME x \in Range(s), x # v PROVE x \in Range(t)
      <3>1. PICK i \in 1 .. L : s[i] = x
        BY <2>2, SeqObj DEF L
      <3>2. CASE i < k
        <4>1. i \in 1 .. L - 1 /\ t[i] = x
          BY <1>1, <1>4, <3>1, <3>2
        <4> QED
          BY <1>4, <4>1, SeqObj
      <3>3. CASE i > k
        <4>1. i - 1 \in 1 .. L - 1 /\ ~ (i - 1 < k) /\ (i - 1) + 1 = i
          BY <1>1, <3>3
        <4>2. t[i - 1] = x
          BY <1>4, <3>1, <4>1
        <4> QED
          BY <1>4, <4>1, <4>2, SeqObj
      <3>4. i # k
        BY <2>2, <3>1
      <3> QED
        BY <1>1, <3>2, <3>3, <3>4
    <2> QED
      BY <2>1, <2>2
  <1>21. ASSUME NEW x \in Obj, x \notin Range(s) PROVE nx2[x] = nx[x] /\ pv2[x] = pv[x]
    <2>1. \A i \in 1 .. L : s[i] # x
      BY <1>21, SeqObj DEF L
    <2>2. x # v /\ x # p /\ x # n
      BY <1>1, <1>2, <1>3, <1>12, <2>1, ScopeFacts
    <2> QED
      BY <1>10, <1>11, <2>2
  <1>22. Forward(nx2, h2, t)
    <2>1. \A i \in 1 .. Len(t) : nx2[t[i]] = IF i = Len(t) THEN Nil ELSE t[i + 1]
      BY <1>4, <1>15
    <2> HIDE <1>0, <1>a
    <2> QED
      BY <1>17, <2>1 DEF Forward
  <1>23. Backward(pv2, t)
    BY <1>4, <1>16 DEF Backward
  <1> QED
    BY <1>4, <1>18, <1>19, <1>20, <1>21, <1>22, <1>23 DEF ListOf, v, nx2, pv2, h2, t

\* A list whose objects' links are not written stays a list.
LEMMA ListElsewhere ==
  ASSUME NEW nx, NEW pv, NEW nx2, NEW pv2, NEW h, NEW s \in Seq(Obj), ListOf(nx, pv, h, s),
         \A x \in Range(s) : nx2[x] = nx[x] /\ pv2[x] = pv[x]
  PROVE  ListOf(nx2, pv2, h, s)
  <1>1. \A i \in 1 .. Len(s) : nx2[s[i]] = nx[s[i]] /\ pv2[s[i]] = pv[s[i]]
    BY SeqObj
  <1> QED
    BY <1>1, LinksElsewhere DEF ListOf

\* The head of a list that is not empty is on it.
LEMMA HeadInside ==
  ASSUME NEW nx, NEW pv, NEW h, NEW s \in Seq(Obj), ListOf(nx, pv, h, s), s # <<>>
  PROVE  h \in Range(s)
  <1>1. h = s[1] /\ Len(s) \in Nat /\ Len(s) # 0
    BY SeqObj DEF ListOf, Forward
  <1> QED
    BY <1>1, SeqObj

\* An object is put in front.
NextPushed(nx, h, o) == [nx EXCEPT ![o] = h]
PrevPushed(pv, h, o) ==
  IF h = Nil THEN [pv EXCEPT ![o] = Nil] ELSE [[pv EXCEPT ![o] = Nil] EXCEPT ![h] = o]

\* fr_obj_alloc: one object in front.
LEMMA Push ==
  ASSUME NEW nx \in [Obj -> Ptr], NEW pv \in [Obj -> Ptr], NEW h, NEW s \in Seq(Obj),
         ListOf(nx, pv, h, s), NEW o \in Obj, o \notin Range(s)
  PROVE  /\ <<o>> \o s \in Seq(Obj)
         /\ ListOf(NextPushed(nx, h, o), PrevPushed(pv, h, o), o, <<o>> \o s)
         /\ PrevPushed(pv, h, o)[o] = Nil
         /\ \A x : x \in Range(<<o>> \o s) <=> x \in Range(s) \/ x = o
         /\ \A x \in Obj : x \notin Range(s) /\ x # o =>
              NextPushed(nx, h, o)[x] = nx[x] /\ PrevPushed(pv, h, o)[x] = pv[x]
  <1> DEFINE nx2 == NextPushed(nx, h, o)
             pv2 == PrevPushed(pv, h, o)
  <1>0. /\ nx2 = [nx EXCEPT ![o] = h]
        /\ pv2 = IF h = Nil THEN [pv EXCEPT ![o] = Nil]
                 ELSE [[pv EXCEPT ![o] = Nil] EXCEPT ![h] = o]
    BY DEF NextPushed, PrevPushed
  <1> HIDE DEF nx2, pv2
  <1> USE <1>0
  <1> DEFINE t == <<o>> \o s
             L == Len(s)
  <1>1. /\ L \in Nat /\ (s = <<>> <=> L = 0)
        /\ \A i \in 1 .. L : s[i] \in Obj /\ s[i] # Nil
        /\ \A x : x \in Range(s) <=> \E i \in 1 .. L : s[i] = x
    BY SeqObj
  <1>2. /\ t \in Seq(Obj) /\ Len(t) = L + 1 /\ t[1] = o
        /\ \A i \in 1 .. L : t[i + 1] = s[i]
    <2>1. <<o>> \in Seq(Obj) /\ Len(<<o>>) = 1 /\ <<o>>[1] = o
      BY OneElement
    <2>2. /\ t \in Seq(Obj) /\ Len(t) = 1 + L
          /\ \A i \in 1 .. 1 + L : t[i] = IF i <= 1 THEN <<o>>[i] ELSE s[i - 1]
      BY <2>1, ConcatProperties
    <2> HIDE DEF t, L
    <2>3. \A i \in 1 .. L : t[i + 1] = s[i]
      <3> TAKE i \in 1 .. L
      <3>1. i + 1 \in 1 .. 1 + L /\ ~(i + 1 <= 1) /\ (i + 1) - 1 = i
        BY <1>1
      <3> QED
        BY <2>2, <3>1
    <2> QED
      BY <1>1, <2>1, <2>2, <2>3
  <1>3. h = (IF L = 0 THEN Nil ELSE s[1]) /\ (h # Nil => h \in Obj /\ L # 0 /\ h = s[1])
        /\ h \in Ptr
    BY <1>1 DEF ListOf, Forward, Ptr
  <1>4. \A i \in 1 .. L : nx[s[i]] = IF i = L THEN Nil ELSE s[i + 1]
    BY DEF ListOf, Forward
  <1>5. \A i \in 1 .. L : i > 1 => pv[s[i]] = s[i - 1]
    BY DEF ListOf, Backward
  <1>6. \A i, j \in 1 .. L : s[i] = s[j] => i = j
    BY DEF ListOf, Distinct
  <1>7. \A x \in Obj : nx2[x] = IF x = o THEN h ELSE nx[x]
    BY <1>3
  <1>8. \A x \in Obj : pv2[x] = IF x = h THEN o ELSE IF x = o THEN Nil ELSE pv[x]
    <2> DEFINE g == [pv EXCEPT ![o] = Nil]
    <2>1. g \in [Obj -> Ptr] /\ \A x \in Obj : g[x] = IF x = o THEN Nil ELSE pv[x]
      BY DEF Ptr
    <2>2. pv2 = IF h = Nil THEN g ELSE [g EXCEPT ![h] = o]
      OBVIOUS
    <2> HIDE DEF g
    <2>3. CASE h = Nil
      BY <2>1, <2>2, <2>3, ScopeFacts
    <2>4. CASE h # Nil
      BY <1>3, <2>1, <2>2, <2>4
    <2> QED
      BY <2>3, <2>4
  <1>9. o # h /\ \A i \in 1 .. L : s[i] # o
    BY <1>1, <1>3, ScopeFacts
  <1> HIDE DEF t, L
  <1>10. Forward(nx2, o, t)
    <2>1. t # <<>>
      BY <1>1, <1>2, EmptySeq
    <2>2. ASSUME NEW i \in 1 .. Len(t)
          PROVE  nx2[t[i]] = IF i = Len(t) THEN Nil ELSE t[i + 1]
      <3>1. CASE i = 1
        <4>1. nx2[t[i]] = h
          BY <1>2, <1>7, <3>1
        <4>2. L # 0 => 1 \in 1 .. L /\ t[1 + 1] = s[1]
          BY <1>1, <1>2
        <4> QED
          BY <1>1, <1>2, <1>3, <3>1, <4>1, <4>2
      <3>2. CASE i # 1
        <4>1. i - 1 \in 1 .. L /\ (i - 1) + 1 = i /\ (i - 1 = L <=> i = L + 1)
              /\ (i # L + 1 => i \in 1 .. L)
          BY <1>1, <1>2, <3>2
        <4>2. t[i] = s[i - 1]
          BY <1>2, <4>1
        <4>3. nx2[t[i]] = IF i - 1 = L THEN Nil ELSE s[i]
          BY <1>1, <1>4, <1>7, <1>9, <4>1, <4>2
        <4> QED
          BY <1>2, <4>1, <4>3
      <3> QED
        BY <3>1, <3>2
    <2> QED
      BY <1>2, <2>1, <2>2 DEF Forward
  <1>11. Backward(pv2, t)
    <2> SUFFICES ASSUME NEW i \in 1 .. Len(t), i > 1 PROVE pv2[t[i]] = t[i - 1]
      BY DEF Backward
    <2>1. i - 1 \in 1 .. L /\ (i - 1) + 1 = i
      BY <1>1, <1>2
    <2>2. t[i] = s[i - 1] /\ s[i - 1] \in Obj
      BY <1>1, <1>2, <2>1
    <2>3. CASE i = 2
      BY <1>1, <1>2, <1>3, <1>8, <2>1, <2>2, <2>3
    <2>4. CASE i # 2
      <3>1. i - 1 > 1 /\ (i - 1) - 1 \in 1 .. L /\ ((i - 1) - 1) + 1 = i - 1 /\ 1 \in 1 .. L /\ i - 1 # 1
        BY <1>1, <2>1, <2>4
      <3>2. s[i - 1] # h /\ s[i - 1] # o
        BY <1>1, <1>3, <1>6, <1>9, <2>1, <3>1
      <3>3. t[i - 1] = s[(i - 1) - 1]
        BY <1>2, <3>1
      <3> QED
        BY <1>5, <1>8, <2>1, <2>2, <3>1, <3>2, <3>3
    <2> QED
      BY <2>3, <2>4
  <1>12. Distinct(t)
    <2> SUFFICES ASSUME NEW i \in 1 .. Len(t), NEW j \in 1 .. Len(t), t[i] = t[j] PROVE i = j
      BY DEF Distinct
    <2>1. \A k \in 1 .. Len(t) : k = 1 \/ (k - 1 \in 1 .. L /\ (k - 1) + 1 = k)
      BY <1>1, <1>2
    <2>2. \A k \in 1 .. Len(t) : k # 1 => k - 1 \in 1 .. L /\ t[k] = s[k - 1]
      BY <1>2, <2>1
    <2>3. CASE i = 1 \/ j = 1
      BY <1>2, <1>9, <2>2, <2>3
    <2>4. CASE i # 1 /\ j # 1
      <3>1. i - 1 = j - 1
        BY <1>6, <2>2, <2>4
      <3> QED
        BY <1>1, <1>2, <3>1
    <2> QED
      BY <2>3, <2>4
  <1>13. ASSUME NEW x PROVE x \in Range(t) <=> x \in Range(s) \/ x = o
    <2>1. x \in Range(t) <=> \E i \in 1 .. L + 1 : t[i] = x
      BY <1>2, SeqObj
    <2>2. ASSUME NEW i \in 1 .. L + 1, t[i] = x PROVE x \in Range(s) \/ x = o
      <3>1. i = 1 \/ (i - 1 \in 1 .. L /\ (i - 1) + 1 = i)
        BY <1>1
      <3>2. CASE i = 1
        BY <1>2, <2>2, <3>2
      <3>3. CASE i # 1
        <4>1. s[i - 1] = x
          BY <1>2, <2>2, <3>1, <3>3
        <4> QED
          BY <1>1, <3>1, <3>3, <4>1
      <3> QED
        BY <3>2, <3>3
    <2>3. ASSUME x \in Range(s) PROVE \E i \in 1 .. L + 1 : t[i] = x
      <3>1. PICK i \in 1 .. L : s[i] = x
        BY <1>1, <2>3
      <3>2. i + 1 \in 1 .. L + 1
        BY <1>1
      <3> QED
        BY <1>2, <3>1, <3>2
    <2>4. 1 \in 1 .. L + 1
      BY <1>1
    <2> QED
      BY <1>2, <2>1, <2>2, <2>3, <2>4
  <1>14. \A x \in Obj : x \notin Range(s) /\ x # o => nx2[x] = nx[x] /\ pv2[x] = pv[x]
    <2>1. h # Nil => h \in Range(s)
      BY <1>1, <1>3
    <2> QED
      BY <1>7, <1>8, <2>1, ScopeFacts
  <1>15. pv2[o] = Nil
    BY <1>8, <1>9
  <1> QED
    BY <1>2, <1>10, <1>11, <1>12, <1>13, <1>14, <1>15 DEF ListOf, t, nx2, pv2

\* The cursor goes on to the next object.
LEMMA Pass ==
  ASSUME NEW nx \in [Obj -> Ptr], NEW pv, NEW w, NEW s \in Seq(Obj), ListOf(nx, pv, w, s), w # Nil,
         NEW nx2, nx2 = [nx EXCEPT ![w] = Nil]
  PROVE  /\ s # <<>> /\ w \in Obj /\ w \in Range(s)
         /\ Tail(s) \in Seq(Obj) /\ ListOf(nx2, pv, nx[w], Tail(s))
         /\ \A x : x \in Range(Tail(s)) <=> x \in Range(s) /\ x # w
  <1> DEFINE t == Tail(s)
             L == Len(s)
  <1>1. /\ L \in Nat /\ (s = <<>> <=> L = 0)
        /\ \A i \in 1 .. L : s[i] \in Obj
        /\ \A x : x \in Range(s) <=> \E i \in 1 .. L : s[i] = x
    BY SeqObj
  <1>2. s # <<>> /\ w = s[1] /\ L >= 1 /\ 1 \in 1 .. L
    BY <1>1 DEF ListOf, Forward
  <1>3. t \in Seq(Obj) /\ Len(t) = L - 1 /\ \A i \in 1 .. L - 1 : t[i] = s[i + 1]
    BY <1>2, HeadTailProperties
  <1>4. \A i \in 1 .. L : nx[s[i]] = IF i = L THEN Nil ELSE s[i + 1]
    BY DEF ListOf, Forward
  <1>5. \A i \in 1 .. L : i > 1 => pv[s[i]] = s[i - 1]
    BY DEF ListOf, Backward
  <1>6. \A i, j \in 1 .. L : s[i] = s[j] => i = j
    BY DEF ListOf, Distinct
  <1> HIDE DEF t, L
  <1>7. Forward(nx2, nx[w], t)
    <2>1. nx[w] = IF t = <<>> THEN Nil ELSE t[1]
      <3>1. t = <<>> <=> L = 1
        BY <1>1, <1>3, EmptySeq
      <3>2. L # 1 => 1 \in 1 .. L - 1
        BY <1>1, <1>2
      <3> QED
        BY <1>2, <1>3, <1>4, <3>1, <3>2
    <2>2. ASSUME NEW i \in 1 .. Len(t)
          PROVE  nx2[t[i]] = IF i = Len(t) THEN Nil ELSE t[i + 1]
      <3>1. i + 1 \in 1 .. L /\ i + 1 # 1 /\ i \in 1 .. L - 1 /\ (i + 1 = L <=> i = L - 1)
            /\ (i # L - 1 => i + 1 \in 1 .. L - 1)
        BY <1>1, <1>3
      <3>2. t[i] = s[i + 1] /\ s[i + 1] # w /\ s[i + 1] \in Obj
        BY <1>1, <1>2, <1>3, <1>6, <3>1
      <3>3. nx2[t[i]] = nx[s[i + 1]]
        BY <3>2
      <3> QED
        BY <1>3, <1>4, <3>1, <3>3
    <2> QED
      BY <2>1, <2>2 DEF Forward
  <1>8. Backward(pv, t)
    <2> SUFFICES ASSUME NEW i \in 1 .. Len(t), i > 1 PROVE pv[t[i]] = t[i - 1]
      BY DEF Backward
    <2>1. /\ i + 1 \in 1 .. L /\ i + 1 > 1 /\ (i + 1) - 1 = i /\ i \in 1 .. L - 1
          /\ i - 1 \in 1 .. L - 1 /\ (i - 1) + 1 = i
      BY <1>1, <1>3
    <2>2. t[i] = s[i + 1] /\ t[i - 1] = s[i]
      BY <1>3, <2>1
    <2> QED
      BY <1>5, <2>1, <2>2
  <1>9. Distinct(t)
    <2> SUFFICES ASSUME NEW i \in 1 .. Len(t), NEW j \in 1 .. Len(t), t[i] = t[j] PROVE i = j
      BY DEF Distinct
    <2>1. i + 1 \in 1 .. L /\ j + 1 \in 1 .. L /\ i \in 1 .. L - 1 /\ j \in 1 .. L - 1
      BY <1>1, <1>3
    <2>2. i + 1 = j + 1
      BY <1>3, <1>6, <2>1
    <2> QED
      BY <1>1, <2>1, <2>2
  <1>10. ASSUME NEW x PROVE x \in Range(t) <=> x \in Range(s) /\ x # w
    <2>1. x \in Range(t) <=> \E i \in 1 .. L - 1 : t[i] = x
      BY <1>3, SeqObj
    <2>2. ASSUME NEW i \in 1 .. L - 1, t[i] = x PROVE x \in Range(s) /\ x # w
      <3>1. i + 1 \in 1 .. L /\ i + 1 # 1
        BY <1>1
      <3> QED
        BY <1>1, <1>2, <1>3, <1>6, <2>2, <3>1
    <2>3. ASSUME x \in Range(s), x # w PROVE \E i \in 1 .. L - 1 : t[i] = x
      <3>1. PICK i \in 1 .. L : s[i] = x
        BY <1>1, <2>3
      <3>2. i # 1
        BY <1>2, <2>3, <3>1
      <3>3. i - 1 \in 1 .. L - 1 /\ (i - 1) + 1 = i
        BY <1>1, <3>2
      <3> QED
        BY <1>3, <3>1, <3>3
    <2> QED
      BY <2>1, <2>2, <2>3
  <1>11. w \in Obj /\ w \in Range(s)
    BY <1>1, <1>2
  <1> QED
    BY <1>2, <1>3, <1>7, <1>8, <1>9, <1>10, <1>11 DEF ListOf, t

---------------------------------------------------------------------------
\* The lists of the scopes, and the one runtime_scope_pop is walking.

ListInv ==
  /\ ListOf(next_scope, prev_scope, walk, rest) /\ Range(rest) \subseteq live
  /\ \A d \in Scope :
       /\ ListOf(next_scope, prev_scope, heads[d], chain[d])
       /\ \A x \in Range(chain[d]) : x \in live /\ scope_id[x] = d /\ x \notin Range(rest)
       /\ chain[d] # <<>> => d < depth /\ prev_scope[heads[d]] = Nil

\* The types of the variables that the lists and counts need.
LEMMA ListTypes ==
  ASSUME TypeOK
  PROVE  /\ next_scope \in [Obj -> Ptr] /\ prev_scope \in [Obj -> Ptr] /\ rest \in Seq(Obj)
         /\ scope_id \in [Obj -> Scope \cup {-1}] /\ live \subseteq Obj /\ depth \in Nat
         /\ chain \in [Scope -> Seq(Obj)] /\ heads \in [Scope -> Ptr] /\ walk \in Ptr
         /\ \A d \in Scope : chain[d] \in Seq(Obj) /\ d \in Nat /\ d # -1
         /\ depth <= FR_MAX_SCOPES /\ FR_MAX_SCOPES \in Nat
         /\ refcount \in [Obj -> Nat] /\ pending \in [Obj -> Nat] /\ given \in [Obj -> Nat]
         /\ cell \in [Place -> Ptr] /\ frames \in Seq(Frame) /\ overflow \in Nat
         /\ Nil \notin Obj
  BY ScopeFacts DEF TypeOK, CountsOK, ListsOK, StackOK, Scope

\* ListsMatch is what the list part of the invariant says of the scopes.
LEMMA ListsFollow ==
  ASSUME TypeOK, ListInv
  PROVE  ListsMatch
  <1>1. Linked(walk, rest)
    <2>1. \A i \in 1 .. Len(rest) : rest[i] \in live
      BY ListTypes, SeqObj DEF ListInv
    <2> QED
      BY <2>1, ListTypes, LinkedParts DEF ListInv, ListOf
  <1>2. ASSUME NEW d \in Scope
        PROVE  /\ Linked(heads[d], chain[d])
               /\ \A i \in 1 .. Len(chain[d]) : scope_id[chain[d][i]] = d
               /\ chain[d] # <<>> => d < depth /\ prev_scope[heads[d]] = Nil
    <2>1. chain[d] \in Seq(Obj)
      BY ListTypes
    <2>2. /\ ListOf(next_scope, prev_scope, heads[d], chain[d])
          /\ \A x \in Range(chain[d]) : x \in live /\ scope_id[x] = d
          /\ chain[d] # <<>> => d < depth /\ prev_scope[heads[d]] = Nil
      BY DEF ListInv
    <2>3. \A i \in 1 .. Len(chain[d]) : chain[d][i] \in live /\ scope_id[chain[d][i]] = d
      BY <2>1, <2>2, SeqObj
    <2> QED
      BY <2>1, <2>2, <2>3, LinkedParts DEF ListOf
  <1> QED
    BY <1>1, <1>2 DEF ListsMatch

\* A step that leaves links and scopes alone.
LEMMA ListsStay ==
  ASSUME TypeOK, ListInv, UNCHANGED linkVars, walk' = walk, rest' = rest,
         depth' \in Nat, depth <= depth', live \subseteq live'
  PROVE  ListInv'
  <1>1. depth \in Nat /\ \A d \in Scope : d \in Nat
    BY ListTypes
  <1> QED
    BY <1>1 DEF ListInv, linkVars

\* An object that claims to be in a scope is in it.
Listed(v) == scope_id[v] # -1 => v \in Range(chain[scope_id[v]])

\* What runtime_scope_forget does to the lists.
LEMMA ForgetLists ==
  ASSUME TypeOK, ListInv, NEW v \in live, Listed(v), Forgets(v), Forget(v),
         live' = live, depth' = depth, walk' = walk, rest' = rest
  PROVE  /\ ListInv'
         /\ scope_id[v] \in Scope
         /\ \A x \in Obj : scope_id'[x] = IF x = v THEN -1 ELSE scope_id[x]
         /\ \A e \in Scope : \A x : x \in Range(chain'[e]) <=> x \in Range(chain[e]) /\ x # v
  <1> DEFINE d == depth - 1
             p == prev_scope[v]
             n == next_scope[v]
             h2 == IF p = Nil /\ heads[d] = v THEN n ELSE heads[d]
  <1>1. v \in Obj /\ d \in Scope /\ scope_id[v] = d /\ d # -1 /\ v \in Range(chain[d])
        /\ chain[d] \in Seq(Obj)
    BY ListTypes DEF Forgets, Scope, Listed
  <1>2. /\ next_scope' = [(IF p = Nil THEN next_scope ELSE [next_scope EXCEPT ![p] = n]) EXCEPT ![v] = Nil]
        /\ prev_scope' = [(IF n = Nil THEN prev_scope ELSE [prev_scope EXCEPT ![n] = p]) EXCEPT ![v] = Nil]
        /\ scope_id' = [scope_id EXCEPT ![v] = -1]
    BY DEF Forget
  <1>3. heads' = IF p = Nil /\ heads[d] = v THEN [heads EXCEPT ![d] = n] ELSE heads
    BY DEF Forget
  <1>4. chain' = [chain EXCEPT ![d] = RemoveFirst(chain[d], v)]
    BY DEF Forget
  <1>5. PICK k \in 1 .. Len(chain[d]) : chain[d][k] = v
          /\ RemoveFirst(chain[d], v) = RemoveAt(chain[d], k)
    <2>1. \E i \in 1 .. Len(chain[d]) : chain[d][i] = v
      BY <1>1, SeqObj
    <2> QED
      BY <1>1, <2>1, RemoveFirstOf
  <1> DEFINE t == RemoveAt(chain[d], k)
  <1>6. /\ ListOf(next_scope, prev_scope, heads[d], chain[d])
        /\ chain[d] # <<>> => d < depth /\ prev_scope[heads[d]] = Nil
    BY <1>1 DEF ListInv
  <1>7. /\ t \in Seq(Obj) /\ ListOf(next_scope', prev_scope', h2, t)
        /\ t # <<>> => prev_scope'[h2] = Nil
        /\ \A x : x \in Range(t) <=> x \in Range(chain[d]) /\ x # v
        /\ \A x \in Obj : x \notin Range(chain[d]) =>
             next_scope'[x] = next_scope[x] /\ prev_scope'[x] = prev_scope[x]
    <2>1. next_scope \in [Obj -> Ptr] /\ prev_scope \in [Obj -> Ptr]
      BY ListTypes
    <2>2. /\ next_scope' = NextWithout(next_scope, prev_scope, chain[d][k])
          /\ prev_scope' = PrevWithout(next_scope, prev_scope, chain[d][k])
          /\ h2 = HeadWithout(next_scope, prev_scope, heads[d], chain[d][k])
      BY <1>2, <1>5 DEF NextWithout, PrevWithout, HeadWithout
    <2> HIDE DEF d, p, n, h2
    <2> QED
      BY <1>1, <1>5, <1>6, <2>1, <2>2, Unlink
  <1>8. /\ \A e \in Scope : heads'[e] = IF e = d THEN h2 ELSE heads[e]
        /\ \A e \in Scope : chain'[e] = IF e = d THEN t ELSE chain[e]
    BY <1>1, <1>3, <1>4, <1>5, ListTypes
  <1>9. \A x \in Obj : scope_id'[x] = IF x = v THEN -1 ELSE scope_id[x]
    BY <1>2, ListTypes
  <1>10. t # <<>> => chain[d] # <<>>
    <2>1. Len(t) = Len(chain[d]) - 1 /\ Len(chain[d]) \in Nat /\ k \in 1 .. Len(chain[d])
      BY <1>1, <1>5, RemoveAtOf, SeqObj
    <2> QED
      BY <1>1, <2>1, EmptySeq
  <1>11. d < depth
    BY ListTypes
  <1> HIDE DEF d, p, n, h2, t
  <1>12. \A e \in Scope : \A x : x \in Range(chain'[e]) <=> x \in Range(chain[e]) /\ x # v
    <2> TAKE e \in Scope
    <2>1. CASE e = d
      BY <1>7, <1>8, <2>1
    <2>2. CASE e # d
      <3>1. v \notin Range(chain[e])
        BY <1>1, <2>2 DEF ListInv
      <3> QED
        BY <1>8, <2>2, <3>1
    <2> QED
      BY <2>1, <2>2
  <1>13. ListOf(next_scope', prev_scope', walk, rest)
    <2>1. \A x \in Range(rest) : x \in Obj /\ x \notin Range(chain[d])
      BY <1>1, ListTypes, SeqObj DEF ListInv
    <2>2. \A x \in Range(rest) : next_scope'[x] = next_scope[x] /\ prev_scope'[x] = prev_scope[x]
      BY <1>7, <2>1
    <2>3. ListOf(next_scope, prev_scope, walk, rest) /\ rest \in Seq(Obj)
      BY ListTypes DEF ListInv
    <2> QED
      BY <2>2, <2>3, ListElsewhere
  <1>14. ASSUME NEW e \in Scope
         PROVE  /\ ListOf(next_scope', prev_scope', heads'[e], chain'[e])
                /\ \A x \in Range(chain'[e]) : x \in live /\ scope_id'[x] = e /\ x \notin Range(rest)
                /\ chain'[e] # <<>> => e < depth /\ prev_scope'[heads'[e]] = Nil
    <2>1. \A x \in Range(chain'[e]) : x \in Obj /\ x \in live /\ scope_id'[x] = e /\ x \notin Range(rest)
      BY <1>9, <1>12, ListTypes DEF ListInv
    <2>2. CASE e = d
      BY <1>7, <1>8, <1>11, <2>1, <2>2
    <2>3. CASE e # d
      <3>1. chain'[e] = chain[e] /\ heads'[e] = heads[e] /\ chain[e] \in Seq(Obj)
        BY <1>8, <2>3, ListTypes
      <3>2. ListOf(next_scope, prev_scope, heads[e], chain[e])
            /\ (chain[e] # <<>> => e < depth /\ prev_scope[heads[e]] = Nil)
            /\ \A x \in Range(chain[e]) : scope_id[x] = e
        BY DEF ListInv
      <3>3. \A x \in Range(chain[e]) : x \in Obj /\ x \notin Range(chain[d])
        <4>1. \A x \in Range(chain[d]) : scope_id[x] = d
          BY <1>1 DEF ListInv
        <4>2. \A x \in Range(chain[e]) : x \in Obj
          BY <3>1, SeqObj
        <4> QED
          BY <2>3, <3>2, <4>1, <4>2
      <3>4. \A x \in Range(chain[e]) : next_scope'[x] = next_scope[x] /\ prev_scope'[x] = prev_scope[x]
        BY <1>7, <3>3
      <3>5. ListOf(next_scope', prev_scope', heads[e], chain[e])
        BY <3>1, <3>2, <3>4, ListElsewhere
      <3>6. chain[e] # <<>> => heads[e] \in Range(chain[e])
        BY <3>1, <3>2, HeadInside
      <3> QED
        BY <2>1, <3>1, <3>2, <3>4, <3>5, <3>6
    <2> QED
      BY <2>2, <2>3
  <1>15. ListInv'
    BY <1>13, <1>14 DEF ListInv
  <1> QED
    BY <1>1, <1>9, <1>12, <1>15

\* runtime_retain and runtime_scope_forget: either the object leaves the current
\* scope, whose reference the new owner takes, or it has one reference more.
LEMMA AdoptEffect ==
  ASSUME TypeOK, ListInv, NEW v, v \in live => Listed(v), Adopt(v),
         live' = live, depth' = depth, walk' = walk, rest' = rest
  PROVE  /\ ListInv'
         /\ Forgets(v) => v \in live /\ scope_id[v] \in Scope
         /\ \A x \in Obj : scope_id'[x] = IF x = v /\ Forgets(v) THEN -1 ELSE scope_id[x]
         /\ \A e \in Scope : \A x :
              x \in Range(chain'[e]) <=> x \in Range(chain[e]) /\ ~(x = v /\ Forgets(v))
         /\ \A x \in Obj :
              refcount'[x] = refcount[x] + (IF x = v /\ v \in live /\ ~Forgets(v) THEN 1 ELSE 0)
  <1>0. refcount \in [Obj -> Nat] /\ depth \in Nat /\ live \subseteq Obj
    BY ListTypes
  <1>1. CASE v \notin live /\ UNCHANGED <<refcount, linkVars>>
    <2>1. ListInv'
      BY <1>0, <1>1, ListsStay
    <2>2. ~Forgets(v) /\ scope_id' = scope_id /\ chain' = chain /\ refcount' = refcount
      BY <1>1 DEF Forgets, linkVars
    <2> QED
      BY <1>0, <1>1, <2>1, <2>2
  <1>2. CASE v \in live /\ ~Forgets(v) /\ refcount' = [refcount EXCEPT ![v] = @ + 1]
             /\ UNCHANGED linkVars
    <2>1. ListInv'
      BY <1>0, <1>2, ListsStay
    <2>2. scope_id' = scope_id /\ chain' = chain
      BY <1>2 DEF linkVars
    <2> QED
      BY <1>0, <1>2, <2>1, <2>2
  <1>3. CASE Forgets(v) /\ Forget(v) /\ UNCHANGED refcount
    <2>1. v \in live
      BY <1>3 DEF Forgets
    <2>2. /\ ListInv' /\ scope_id[v] \in Scope
          /\ \A x \in Obj : scope_id'[x] = IF x = v THEN -1 ELSE scope_id[x]
          /\ \A e \in Scope : \A x : x \in Range(chain'[e]) <=> x \in Range(chain[e]) /\ x # v
      BY <1>3, <2>1, ForgetLists
    <2> QED
      BY <1>0, <1>3, <2>1, <2>2
  <1> QED
    BY <1>1, <1>2, <1>3 DEF Adopt

\* fr_obj_alloc puts the object in front of the innermost list.
LEMMA NewObjectLists ==
  ASSUME TypeOK, ListInv, NEW o \in Obj, NEW k, NewObject(o, k)
  PROVE  /\ ListInv' /\ o \notin live
         /\ \A x \in Obj : scope_id'[x] = IF x = o THEN depth - 1 ELSE scope_id[x]
         /\ \A e \in Scope : \A x :
              x \in Range(chain'[e]) <=> x \in Range(chain[e]) \/ (x = o /\ e = depth - 1)
         /\ depth > 0 => depth - 1 \in Scope
         /\ o \notin Range(rest) /\ \A e \in Scope : o \notin Range(chain[e])
  <1> DEFINE d == depth - 1
  <1>1. /\ o \notin live /\ live' = live \cup {o} /\ depth' = depth /\ walk' = walk /\ rest' = rest
    BY DEF NewObject, scopeVars
  <1>2. o \notin Range(rest) /\ \A e \in Scope : o \notin Range(chain[e])
    BY <1>1 DEF ListInv
  <1>3. /\ next_scope \in [Obj -> Ptr] /\ prev_scope \in [Obj -> Ptr] /\ rest \in Seq(Obj)
        /\ scope_id \in [Obj -> Scope \cup {-1}] /\ live \subseteq Obj /\ depth \in Nat
        /\ heads \in [Scope -> Ptr] /\ chain \in [Scope -> Seq(Obj)]
        /\ \A e \in Scope : chain[e] \in Seq(Obj) /\ e \in Nat
    BY ListTypes
  <1>4. CASE depth = 0
    <2>1. /\ scope_id' = [scope_id EXCEPT ![o] = -1]
          /\ next_scope' = [next_scope EXCEPT ![o] = Nil]
          /\ prev_scope' = [prev_scope EXCEPT ![o] = Nil]
          /\ heads' = heads /\ chain' = chain
      BY <1>4 DEF NewObject
    <2>2. \A e \in Scope : e # depth - 1
      BY <1>3, <1>4
    <2>3. \A x \in Obj : x # o =>
            next_scope'[x] = next_scope[x] /\ prev_scope'[x] = prev_scope[x]
            /\ scope_id'[x] = scope_id[x]
      BY <1>3, <2>1
    <2>4. scope_id'[o] = depth - 1
      BY <1>3, <1>4, <2>1
    <2>5. \A s \in Seq(Obj) : \A h : ListOf(next_scope, prev_scope, h, s) /\ o \notin Range(s) =>
            ListOf(next_scope', prev_scope', h, s)
      <3> TAKE s \in Seq(Obj)
      <3> TAKE h
      <3> HAVE ListOf(next_scope, prev_scope, h, s) /\ o \notin Range(s)
      <3>1. \A x \in Range(s) : next_scope'[x] = next_scope[x] /\ prev_scope'[x] = prev_scope[x]
        BY <2>3, SeqObj
      <3> QED
        BY <3>1, ListElsewhere
    <2>6. ListOf(next_scope', prev_scope', walk, rest)
      BY <1>2, <1>3, <2>5 DEF ListInv
    <2>7. ASSUME NEW e \in Scope
          PROVE  /\ ListOf(next_scope', prev_scope', heads[e], chain[e])
                 /\ \A x \in Range(chain[e]) : x \in live' /\ scope_id'[x] = e /\ x \notin Range(rest)
                 /\ chain[e] = <<>>
      <3>1. chain[e] = <<>>
        BY <1>3, <1>4 DEF ListInv
      <3>2. ListOf(next_scope', prev_scope', heads[e], chain[e])
        BY <1>2, <1>3, <2>5 DEF ListInv
      <3>3. \A x \in Range(chain[e]) : FALSE
        BY <1>3, <3>1, SeqObj
      <3> QED
        BY <3>1, <3>2, <3>3
    <2>8. ListInv'
      BY <1>1, <2>1, <2>6, <2>7 DEF ListInv
    <2> QED
      BY <1>1, <1>2, <1>4, <2>1, <2>2, <2>3, <2>4, <2>8
  <1>5. CASE depth > 0
    <2> DEFINE h == heads[d]
               s == chain[d]
    <2>1. /\ scope_id' = [scope_id EXCEPT ![o] = d]
          /\ next_scope' = [next_scope EXCEPT ![o] = h]
          /\ heads' = [heads EXCEPT ![d] = o]
          /\ chain' = [chain EXCEPT ![d] = <<o>> \o s]
      BY <1>5 DEF NewObject
    <2>2. prev_scope' = IF h = Nil THEN [prev_scope EXCEPT ![o] = Nil]
                        ELSE [[prev_scope EXCEPT ![o] = Nil] EXCEPT ![h] = o]
      BY <1>5 DEF NewObject
    <2>3. d \in Scope /\ s \in Seq(Obj) /\ ListOf(next_scope, prev_scope, h, s) /\ o \notin Range(s)
      <3>1. d \in Scope
        BY <1>3, <1>5, ListTypes DEF Scope
      <3> QED
        BY <1>2, <1>3, <3>1 DEF ListInv
    <2>4. d < depth
      BY <1>3
    <2> HIDE DEF d, h, s
    <2>5. /\ <<o>> \o s \in Seq(Obj) /\ ListOf(next_scope', prev_scope', o, <<o>> \o s)
          /\ prev_scope'[o] = Nil
          /\ \A x : x \in Range(<<o>> \o s) <=> x \in Range(s) \/ x = o
          /\ \A x \in Obj : x \notin Range(s) /\ x # o =>
               next_scope'[x] = next_scope[x] /\ prev_scope'[x] = prev_scope[x]
      <3>1. next_scope' = NextPushed(next_scope, h, o) /\ prev_scope' = PrevPushed(prev_scope, h, o)
        BY <2>1, <2>2 DEF NextPushed, PrevPushed
      <3>2. /\ <<o>> \o s \in Seq(Obj)
            /\ ListOf(NextPushed(next_scope, h, o), PrevPushed(prev_scope, h, o), o, <<o>> \o s)
            /\ PrevPushed(prev_scope, h, o)[o] = Nil
            /\ \A x : x \in Range(<<o>> \o s) <=> x \in Range(s) \/ x = o
            /\ \A x \in Obj : x \notin Range(s) /\ x # o =>
                 /\ NextPushed(next_scope, h, o)[x] = next_scope[x]
                 /\ PrevPushed(prev_scope, h, o)[x] = prev_scope[x]
        <4>1. next_scope \in [Obj -> Ptr] /\ prev_scope \in [Obj -> Ptr] /\ s \in Seq(Obj)
              /\ ListOf(next_scope, prev_scope, h, s) /\ o \notin Range(s)
          BY <1>3, <2>3
        <4> QED
          BY ONLY <4>1, o \in Obj, Push
      <3> QED
        BY <3>1, <3>2
    <2>6. \A e \in Scope : /\ heads'[e] = IF e = d THEN o ELSE heads[e]
                           /\ chain'[e] = IF e = d THEN <<o>> \o s ELSE chain[e]
      BY <1>3, <2>1, <2>3
    <2>7. \A x \in Obj : scope_id'[x] = IF x = o THEN d ELSE scope_id[x]
      BY <1>3, <2>1
    <2>8. \A e \in Scope : \A x : x \in Range(chain'[e]) <=> x \in Range(chain[e]) \/ (x = o /\ e = d)
      BY <2>5, <2>6 DEF s
    <2>9. \A t \in Seq(Obj) : \A g : ListOf(next_scope, prev_scope, g, t) /\ o \notin Range(t)
             /\ (\A x \in Range(t) : x \notin Range(s)) => ListOf(next_scope', prev_scope', g, t)
      <3> TAKE t \in Seq(Obj)
      <3> TAKE g
      <3> HAVE ListOf(next_scope, prev_scope, g, t) /\ o \notin Range(t)
               /\ (\A x \in Range(t) : x \notin Range(s))
      <3>1. \A x \in Range(t) : x \in Obj
        BY SeqObj
      <3>2. \A x \in Range(t) : next_scope'[x] = next_scope[x] /\ prev_scope'[x] = prev_scope[x]
        BY <2>5, <3>1
      <3> QED
        BY <3>2, ListElsewhere
    <2>10. ListOf(next_scope', prev_scope', walk, rest)
      <3>1. ListOf(next_scope, prev_scope, walk, rest) /\ \A x \in Range(rest) : x \notin Range(s)
        BY <2>3 DEF ListInv, s
      <3> QED
        BY <1>2, <1>3, <2>9, <3>1
    <2>11. ASSUME NEW e \in Scope
           PROVE  /\ ListOf(next_scope', prev_scope', heads'[e], chain'[e])
                  /\ \A x \in Range(chain'[e]) : x \in live' /\ scope_id'[x] = e /\ x \notin Range(rest)
                  /\ chain'[e] # <<>> => e < depth /\ prev_scope'[heads'[e]] = Nil
      <3>1. \A x \in Range(chain'[e]) : x \in live' /\ scope_id'[x] = e /\ x \notin Range(rest)
        <4> TAKE x \in Range(chain'[e])
        <4>1. CASE x = o /\ e = d
          BY <1>1, <1>2, <2>7, <4>1
        <4>2. CASE x \in Range(chain[e])
          <5>1. x \in live /\ scope_id[x] = e /\ x \notin Range(rest) /\ x # o
            BY <1>1, <4>2 DEF ListInv
          <5> QED
            BY <1>1, <1>3, <2>7, <5>1
        <4> QED
          BY <2>8, <4>1, <4>2
      <3>2. CASE e = d
        BY <2>4, <2>5, <2>6, <3>1, <3>2
      <3>3. CASE e # d
        <4>1. chain'[e] = chain[e] /\ heads'[e] = heads[e] /\ chain[e] \in Seq(Obj)
          BY <1>3, <2>6, <3>3
        <4>2. ListOf(next_scope, prev_scope, heads[e], chain[e])
              /\ (chain[e] # <<>> => e < depth /\ prev_scope[heads[e]] = Nil)
              /\ (\A x \in Range(chain[e]) : scope_id[x] = e)
              /\ (\A x \in Range(s) : scope_id[x] = d)
          BY <2>3 DEF ListInv, s
        <4>3. \A x \in Range(chain[e]) : x \notin Range(s)
          BY <3>3, <4>2
        <4>4. ListOf(next_scope', prev_scope', heads[e], chain[e])
          BY <1>2, <2>9, <4>1, <4>2, <4>3
        <4>5. chain[e] # <<>> => heads[e] \in Range(chain[e]) /\ heads[e] \in Obj
          BY <4>1, <4>2, HeadInside, SeqObj
        <4>6. chain[e] # <<>> => prev_scope'[heads[e]] = Nil
          BY <1>2, <2>5, <4>2, <4>3, <4>5
        <4> QED
          BY <3>1, <4>1, <4>2, <4>4, <4>6
      <3> QED
        BY <3>2, <3>3
    <2>12. ListInv'
      <3>1. Range(rest) \subseteq live'
        BY <1>1 DEF ListInv
      <3> QED
        BY <1>1, <2>10, <2>11, <3>1 DEF ListInv
    <2> QED
      BY <1>1, <1>2, <2>3, <2>7, <2>8, <2>12 DEF d
  <1> QED
    BY <1>3, <1>4, <1>5

\* One iteration of runtime_scope_pop.
LEMMA WalkLists ==
  ASSUME TypeOK, ListInv, WalkScope
  PROVE  /\ ListInv' /\ walk \in live /\ walk \in Range(rest)
         /\ \A x : x \in Range(rest') <=> x \in Range(rest) /\ x # walk
  <1>1. /\ walk # Nil /\ walk' = next_scope[walk]
        /\ next_scope' = [next_scope EXCEPT ![walk] = Nil]
        /\ prev_scope' = prev_scope /\ scope_id' = scope_id /\ heads' = heads /\ chain' = chain
        /\ live' = live /\ depth' = depth
    BY DEF WalkScope, objVars, scopeVars
  <1>2. rest' = IF rest = <<>> THEN rest ELSE Tail(rest)
    BY DEF WalkScope
  <1>3. next_scope \in [Obj -> Ptr] /\ rest \in Seq(Obj) /\ ListOf(next_scope, prev_scope, walk, rest)
    BY ListTypes DEF ListInv
  <1>4. /\ rest # <<>> /\ walk \in Obj /\ walk \in Range(rest)
        /\ ListOf(next_scope', prev_scope, next_scope[walk], Tail(rest))
        /\ \A x : x \in Range(Tail(rest)) <=> x \in Range(rest) /\ x # walk
    BY <1>1, <1>3, Pass
  <1>5. ASSUME NEW d \in Scope PROVE ListOf(next_scope', prev_scope', heads[d], chain[d])
    <2>1. ListOf(next_scope, prev_scope, heads[d], chain[d]) /\ chain[d] \in Seq(Obj)
          /\ walk \notin Range(chain[d])
      BY <1>4, ListTypes DEF ListInv
    <2>2. \A x \in Range(chain[d]) : x \in Obj /\ x # walk
      BY <2>1, SeqObj
    <2>3. \A x \in Range(chain[d]) : next_scope'[x] = next_scope[x] /\ prev_scope'[x] = prev_scope[x]
      BY <1>1, <1>3, <2>2
    <2> QED
      BY <2>1, <2>3, ListElsewhere
  <1>6. rest' = Tail(rest)
    BY <1>2, <1>4
  <1>7. ListInv'
    BY <1>1, <1>4, <1>5, <1>6 DEF ListInv
  <1> QED
    BY <1>4, <1>6, <1>7 DEF ListInv

\* A scope is popped: its list becomes the one that is walked.
LEMMA ScopePopLists ==
  ASSUME TypeOK, ListInv, ScopePop, walk = Nil, UNCHANGED <<next_scope, prev_scope, scope_id, live>>
  PROVE  /\ ListInv' /\ rest = <<>>
         /\ \/ overflow > 0 /\ depth' = depth /\ chain' = chain /\ rest' = rest
            \/ overflow = 0 /\ depth = 0 /\ depth' = depth /\ chain' = chain /\ rest' = rest
            \/ /\ overflow = 0 /\ depth > 0 /\ depth' = depth - 1 /\ depth - 1 \in Scope
               /\ rest' = chain[depth - 1]
               /\ \A e \in Scope : chain'[e] = IF e = depth - 1 THEN <<>> ELSE chain[e]
  <1>1. rest \in Seq(Obj) /\ ListOf(next_scope, prev_scope, walk, rest)
    BY ListTypes DEF ListInv
  <1>2. rest = <<>>
    <2> SUFFICES ASSUME rest # <<>> PROVE FALSE
      OBVIOUS
    <2>1. walk \in Range(rest)
      BY <1>1, HeadInside
    <2> QED
      BY <1>1, <2>1, SeqObj, ListTypes
  <1>3. CASE /\ overflow = 0 /\ depth > 0
             /\ depth' = depth - 1
             /\ walk' = heads[depth - 1]
             /\ heads' = [heads EXCEPT ![depth - 1] = Nil]
             /\ rest' = chain[depth - 1]
             /\ chain' = [chain EXCEPT ![depth - 1] = <<>>]
             /\ UNCHANGED overflow
    <2> DEFINE d == depth - 1
    <2>1. d \in Scope /\ depth \in Nat /\ d \in Nat
      BY <1>3, ListTypes DEF Scope
    <2>2. \A e \in Scope : /\ chain'[e] = IF e = d THEN <<>> ELSE chain[e]
                           /\ heads'[e] = IF e = d THEN Nil ELSE heads[e]
      BY <1>3, <2>1, ListTypes
    <2>3. walk' = heads[d] /\ rest' = chain[d] /\ depth' = d /\ d + 1 = depth
      BY <1>3, <2>1
    <2> HIDE DEF d
    <2>4. ListOf(next_scope', prev_scope', walk', rest') /\ Range(rest') \subseteq live'
      BY <2>1, <2>3 DEF ListInv
    <2>5. ASSUME NEW e \in Scope
          PROVE  /\ ListOf(next_scope', prev_scope', heads'[e], chain'[e])
                 /\ \A x \in Range(chain'[e]) : x \in live' /\ scope_id'[x] = e /\ x \notin Range(rest')
                 /\ chain'[e] # <<>> => e < depth' /\ prev_scope'[heads'[e]] = Nil
      <3>1. CASE e = d
        <4>1. chain'[e] = <<>> /\ heads'[e] = Nil /\ <<>> \in Seq(Obj) /\ Len(<<>>) = 0
          BY <2>2, <3>1
        <4>2. ListOf(next_scope', prev_scope', heads'[e], chain'[e])
          BY <4>1 DEF ListOf, Forward, Backward, Distinct
        <4>3. \A x : x \in Range(chain'[e]) <=> \E i \in 1 .. Len(<<>>) : <<>>[i] = x
          <5>1. chain'[e] \in Seq(Obj)
            BY <4>1
          <5> QED
            BY <4>1, <5>1, SeqObj
        <4> QED
          BY <4>1, <4>2, <4>3
      <3>2. CASE e # d
        <4>1. chain'[e] = chain[e] /\ heads'[e] = heads[e]
          BY <2>2, <3>2
        <4>2. /\ ListOf(next_scope, prev_scope, heads[e], chain[e])
              /\ \A x \in Range(chain[e]) : x \in live /\ scope_id[x] = e
              /\ chain[e] # <<>> => e < depth /\ prev_scope[heads[e]] = Nil
              /\ \A x \in Range(chain[d]) : scope_id[x] = d
          BY <2>1 DEF ListInv
        <4>3. chain[e] # <<>> => e < depth'
          <5>1. e \in Nat
            BY ListTypes
          <5> QED
            BY <2>1, <2>3, <3>2, <4>2, <5>1
        <4>4. \A x \in Range(chain[e]) : x \notin Range(rest')
          BY <2>3, <3>2, <4>2
        <4> QED
          BY <4>1, <4>2, <4>3, <4>4
      <3> QED
        BY <3>1, <3>2
    <2>6. ListInv'
      BY <2>4, <2>5 DEF ListInv
    <2> QED
      BY <1>2, <1>3, <2>1, <2>2, <2>3, <2>6 DEF d
  <1>4. CASE /\ overflow > 0 \/ (overflow = 0 /\ depth = 0)
             /\ UNCHANGED <<depth, heads, chain, walk, rest>>
    <2>1. UNCHANGED linkVars /\ walk' = walk /\ rest' = rest /\ depth' = depth /\ live' = live
          /\ depth \in Nat
      BY <1>4, ListTypes DEF linkVars
    <2>2. ListInv'
      BY <2>1, ListsStay
    <2> QED
      BY <1>2, <1>4, <2>2
  <1> QED
    BY <1>3, <1>4 DEF ScopePop

\* An object dies that is in no list.
LEMMA DieLists ==
  ASSUME TypeOK, ListInv, NEW o \in Obj, Die(o),
         o \notin Range(rest), \A d \in Scope : o \notin Range(chain[d])
  PROVE  ListInv'
  <1>1. /\ live' = live \ {o} /\ next_scope' = next_scope /\ heads' = heads /\ chain' = chain
        /\ depth' = depth /\ walk' = walk /\ rest' = rest
        /\ scope_id' = [scope_id EXCEPT ![o] = -1] /\ prev_scope' = [prev_scope EXCEPT ![o] = Nil]
    BY DEF Die, scopeVars
  <1>2. \A x \in Obj : x # o => prev_scope'[x] = prev_scope[x] /\ scope_id'[x] = scope_id[x]
    BY <1>1, ListTypes
  <1>3. ListOf(next_scope', prev_scope', walk, rest) /\ Range(rest) \subseteq live'
    <2>1. rest \in Seq(Obj) /\ ListOf(next_scope, prev_scope, walk, rest) /\ Range(rest) \subseteq live
      BY ListTypes DEF ListInv
    <2>2. \A x \in Range(rest) : prev_scope'[x] = prev_scope[x]
      BY <1>2, <2>1, SeqObj
    <2>3. ListOf(next_scope', prev_scope', walk, rest)
      BY <1>1, <2>1, <2>2, ListElsewhere
    <2> QED
      BY <1>1, <2>1, <2>3
  <1>4. ASSUME NEW d \in Scope
        PROVE  /\ ListOf(next_scope', prev_scope', heads[d], chain[d])
               /\ \A x \in Range(chain[d]) : x \in live' /\ scope_id'[x] = d /\ x \notin Range(rest)
               /\ chain[d] # <<>> => d < depth /\ prev_scope'[heads[d]] = Nil
    <2>1. /\ chain[d] \in Seq(Obj) /\ ListOf(next_scope, prev_scope, heads[d], chain[d])
          /\ \A x \in Range(chain[d]) : x \in live /\ scope_id[x] = d /\ x \notin Range(rest)
          /\ chain[d] # <<>> => d < depth /\ prev_scope[heads[d]] = Nil
      BY ListTypes DEF ListInv
    <2>2. \A x \in Range(chain[d]) : x \in Obj /\ x # o
      BY <2>1, SeqObj
    <2>3. \A x \in Range(chain[d]) : prev_scope'[x] = prev_scope[x] /\ scope_id'[x] = scope_id[x]
      BY <1>2, <2>2
    <2>4. ListOf(next_scope', prev_scope', heads[d], chain[d])
      BY <1>1, <2>1, <2>3, ListElsewhere
    <2>5. chain[d] # <<>> => heads[d] \in Range(chain[d])
      BY <2>1, HeadInside
    <2> QED
      BY <1>1, <2>1, <2>2, <2>3, <2>4, <2>5
  <1> QED
    BY <1>1, <1>3, <1>4 DEF ListInv

---------------------------------------------------------------------------
\* What the frames of the program can use.

\* A local is allocated.  If it still belongs to a scope, that scope lists it and
\* is as old as the frame; what the frame itself obtained belongs to its own.
FrameOK(f, lv, sc, ch) ==
  /\ Locals(f) \subseteq lv
  /\ \A x \in Locals(f) : sc[x] # -1 => x \in Range(ch[sc[x]]) /\ sc[x] < f.base
  /\ \A x \in f.own : sc[x] # -1 => sc[x] = f.base - 1

\* Arguments are locals of the caller.
ArgsOK(fs) ==
  \A k \in 1 .. Len(fs) : fs[k].args \subseteq IF k = 1 THEN {} ELSE Locals(fs[k - 1])

FrameInv ==
  /\ ArgsOK(frames)
  /\ \A k \in 1 .. Len(frames) : FrameOK(frames[k], live, scope_id, chain)

\* A step keeps x, and keeps it in its scope or takes it out of all.
Stays(x) ==
  /\ x \in live'
  /\ \/ scope_id'[x] = -1
     \/ /\ scope_id'[x] = scope_id[x]
        /\ scope_id[x] # -1 /\ x \in Range(chain[scope_id[x]]) => x \in Range(chain'[scope_id[x]])

\* A frame that lost locals still fits after a step that keeps the others.
LEMMA LessLocals ==
  ASSUME NEW f, NEW g, FrameOK(f, live, scope_id, chain),
         g.base = f.base, g.own \subseteq f.own, g.args \subseteq f.args,
         \A x \in Locals(g) : Stays(x)
  PROVE  FrameOK(g, live', scope_id', chain')
  <1>1. Locals(g) \subseteq Locals(f)
    BY DEF Locals
  <1>2. Locals(g) \subseteq live'
    BY DEF Stays
  <1>3. ASSUME NEW x \in Locals(g), scope_id'[x] # -1
        PROVE  x \in Range(chain'[scope_id'[x]]) /\ scope_id'[x] < g.base
    BY <1>1, <1>3 DEF FrameOK, Stays
  <1>4. ASSUME NEW x \in g.own, scope_id'[x] # -1 PROVE scope_id'[x] = g.base - 1
    <2>1. x \in Locals(g) /\ x \in f.own
      BY DEF Locals
    <2> QED
      BY <1>4, <2>1 DEF FrameOK, Stays
  <1> QED
    BY <1>2, <1>3, <1>4 DEF FrameOK

\* A frame with one local more fits if the local is listed in the frame's scope or in none.
LEMMA MoreLocals ==
  ASSUME NEW f, NEW g, NEW o, NEW lv, NEW sc, NEW ch, FrameOK(f, lv, sc, ch),
         g.base = f.base, f.base \in Nat, g.own = f.own \cup {o}, g.args = f.args, o \in lv,
         sc[o] = -1 \/ (sc[o] = f.base - 1 /\ o \in Range(ch[sc[o]]))
  PROVE  FrameOK(g, lv, sc, ch)
  <1>1. Locals(g) = Locals(f) \cup {o}
    BY DEF Locals
  <1> QED
    BY <1>1 DEF FrameOK

\* One more local in the innermost frame.
LEMMA GrowTop ==
  ASSUME NEW fs \in Seq(Frame), NEW o \in Obj, Len(fs) >= 1
  PROVE  /\ Len(Grow(fs, Len(fs), o)) = Len(fs)
         /\ \A k \in 1 .. Len(fs) :
              /\ Grow(fs, Len(fs), o)[k].base = fs[k].base
              /\ Grow(fs, Len(fs), o)[k].args = fs[k].args
              /\ Grow(fs, Len(fs), o)[k].own =
                   IF k = Len(fs) THEN fs[k].own \cup {o} ELSE fs[k].own
  <1>1. ASSUME NEW n \in 1 .. Len(fs)
        PROVE  /\ Len(Grow(fs, n, o)) = Len(fs)
               /\ \A k \in 1 .. Len(fs) :
                    /\ Grow(fs, n, o)[k].base = fs[k].base
                    /\ Grow(fs, n, o)[k].args = fs[k].args
                    /\ Grow(fs, n, o)[k].own = IF k = n THEN fs[k].own \cup {o} ELSE fs[k].own
    <2> DEFINE g == Grow(fs, n, o)
    <2>1. Len(g) = Len(fs)
      BY GrowOf
    <2>2. \A k \in 1 .. Len(fs) : g[k].base = fs[k].base
      BY GrowOf
    <2>3. \A k \in 1 .. Len(fs) : g[k].args = fs[k].args
      BY GrowOf
    <2>4. \A k \in 1 .. Len(fs) : g[k].own = IF k = n THEN fs[k].own \cup {o} ELSE fs[k].own
      BY GrowOf
    <2> QED
      BY <2>1, <2>2, <2>3, <2>4
  <1>2. Len(fs) \in 1 .. Len(fs)
    BY FrameAt
  <1> QED
    BY <1>1, <1>2

\* The new local of the innermost frame fits it.
Fits(f, o) ==
  /\ o \in live'
  /\ scope_id'[o] = -1 \/ (scope_id'[o] = f.base - 1 /\ o \in Range(chain'[scope_id'[o]]))

\* A step after which the first frames are left, the last one with one local more.
LEMMA FramesAfter ==
  ASSUME TypeOK, FrameInv, NEW fs \in Seq(Frame), Len(fs) <= Len(frames),
         \A k \in 1 .. Len(fs) : fs[k] = frames[k],
         \A k \in 1 .. Len(fs) : \A x \in Locals(fs[k]) : Stays(x),
         \/ frames' = fs
         \/ \E o \in Obj : /\ Len(fs) >= 1 /\ frames' = Grow(fs, Len(fs), o)
                           /\ Fits(fs[Len(fs)], o)
  PROVE  FrameInv'
  <1>1. Len(fs) \in Nat /\ Len(frames) \in Nat
        /\ \A k \in 1 .. Len(fs) : k \in 1 .. Len(frames) /\ fs[k].base \in Nat
    BY FrameAt, ListTypes, ScopeFacts
  <1>2. ArgsOK(fs)
    <2> SUFFICES ASSUME NEW k \in 1 .. Len(fs)
                 PROVE  fs[k].args \subseteq IF k = 1 THEN {} ELSE Locals(fs[k - 1])
      BY DEF ArgsOK
    <2>1. frames[k].args \subseteq IF k = 1 THEN {} ELSE Locals(frames[k - 1])
      BY <1>1 DEF FrameInv, ArgsOK
    <2>2. k # 1 => k - 1 \in 1 .. Len(fs)
      BY <1>1
    <2> QED
      BY <2>1, <2>2
  <1>3. \A k \in 1 .. Len(fs) : FrameOK(fs[k], live', scope_id', chain')
    <2> TAKE k \in 1 .. Len(fs)
    <2>1. FrameOK(fs[k], live, scope_id, chain)
      BY <1>1 DEF FrameInv
    <2> QED
      BY <2>1, LessLocals
  <1>4. CASE frames' = fs
    BY <1>2, <1>3, <1>4 DEF FrameInv
  <1>5. ASSUME NEW o \in Obj, Len(fs) >= 1, frames' = Grow(fs, Len(fs), o), Fits(fs[Len(fs)], o)
        PROVE  FrameInv'
    <2> DEFINE n == Len(fs)
    <2>1. n \in 1 .. n /\ n \in Nat
      BY <1>1, <1>5
    <2>2. /\ Len(frames') = n
          /\ \A k \in 1 .. n :
               /\ frames'[k].base = fs[k].base /\ frames'[k].args = fs[k].args
               /\ frames'[k].own = IF k = n THEN fs[k].own \cup {o} ELSE fs[k].own
      <3>1. /\ Len(Grow(fs, n, o)) = Len(fs)
            /\ \A k \in 1 .. Len(fs) :
                 /\ Grow(fs, n, o)[k].base = fs[k].base
                 /\ Grow(fs, n, o)[k].args = fs[k].args
                 /\ Grow(fs, n, o)[k].own = IF k = n THEN fs[k].own \cup {o} ELSE fs[k].own
        BY <1>5, GrowTop
      <3>2. frames' = Grow(fs, n, o) /\ n = Len(fs)
        BY <1>5
      <3> HIDE DEF n
      <3> QED
        BY <3>1, <3>2
    <2> HIDE DEF n
    <2>3. \A k \in 1 .. n : Locals(fs[k]) \subseteq Locals(frames'[k])
      BY <2>2 DEF Locals
    <2>4. ArgsOK(frames')
      <3> SUFFICES ASSUME NEW k \in 1 .. n
                   PROVE  frames'[k].args \subseteq IF k = 1 THEN {} ELSE Locals(frames'[k - 1])
        BY <2>2 DEF ArgsOK
      <3>1. fs[k].args \subseteq IF k = 1 THEN {} ELSE Locals(fs[k - 1])
        BY <1>2 DEF ArgsOK, n
      <3>2. k # 1 => k - 1 \in 1 .. n
        BY <2>1
      <3> QED
        BY <2>2, <2>3, <3>1, <3>2
    <2>5. ASSUME NEW k \in 1 .. n PROVE FrameOK(frames'[k], live', scope_id', chain')
      <3>1. FrameOK(fs[k], live', scope_id', chain') /\ fs[k].base \in Nat
        BY <1>1, <1>3 DEF n
      <3>2. CASE k = n
        <4>1. /\ o \in live'
              /\ \/ scope_id'[o] = -1
                 \/ scope_id'[o] = fs[k].base - 1 /\ o \in Range(chain'[scope_id'[o]])
          BY <1>5, <3>2 DEF Fits, n
        <4>2. /\ frames'[k].base = fs[k].base /\ frames'[k].args = fs[k].args
              /\ frames'[k].own = fs[k].own \cup {o}
          BY <2>2, <3>2
        <4> QED
          BY <3>1, <4>1, <4>2, MoreLocals
      <3>3. CASE k # n
        <4>1. frames'[k].base = fs[k].base /\ Locals(frames'[k]) = Locals(fs[k])
              /\ frames'[k].own = fs[k].own
          BY <2>2, <3>3 DEF Locals
        <4> QED
          BY <3>1, <4>1 DEF FrameOK
      <3> QED
        BY <3>2, <3>3
    <2> QED
      BY <2>2, <2>4, <2>5 DEF FrameInv
  <1> QED
    BY <1>4, <1>5

\* The same frames.
LEMMA FramesSame ==
  ASSUME TypeOK, FrameInv, frames' = frames,
         \A k \in 1 .. Len(frames) : \A x \in Locals(frames[k]) : Stays(x)
  PROVE  FrameInv'
  <1>1. frames \in Seq(Frame) /\ Len(frames) \in Nat
    BY ListTypes, FrameAt
  <1> QED
    BY <1>1, FramesAfter

\* What a frame can use is allocated and listed.
LEMMA LocalFacts ==
  ASSUME TypeOK, FrameInv, NEW k \in 1 .. Len(frames), NEW x \in Locals(frames[k])
  PROVE  x \in live /\ x \in Obj /\ x # Nil /\ Listed(x)
  <1>1. x \in live /\ (scope_id[x] # -1 => x \in Range(chain[scope_id[x]]))
    BY DEF FrameInv, FrameOK
  <1> QED
    BY <1>1, ListTypes DEF Listed

---------------------------------------------------------------------------
\* Places that refer to an object, and how many they are.

Refs(c, W, x) == {p \in Place \ W : c[p] = x}
RefCount(c, W, x) == Cardinality(Refs(c, W, x))
\* The place that a call is storing to.
Written(cl) == IF cl.op = "store" THEN {cl.to} ELSE {}

\* The places that refer to an object can be counted.
LEMMA RefsFinite ==
  ASSUME NEW c, NEW W, NEW x
  PROVE  /\ IsFiniteSet(Refs(c, W, x)) /\ RefCount(c, W, x) \in Nat
         /\ RefCount(c, W, x) = 0 <=> \A p \in Place \ W : c[p] # x
  <1>1. IsFiniteSet(Refs(c, W, x))
    BY PlacesFinite, FS_Subset DEF Refs
  <1>2. RefCount(c, W, x) \in Nat /\ (RefCount(c, W, x) = 0 <=> Refs(c, W, x) = {})
    BY <1>1, FS_CardinalityType, FS_EmptySet DEF RefCount
  <1> QED
    BY <1>1, <1>2 DEF Refs

\* One place more or less.
LEMMA RefsButOne ==
  ASSUME NEW c, NEW p \in Place, NEW x
  PROVE  RefCount(c, {}, x) = RefCount(c, {p}, x) + (IF c[p] = x THEN 1 ELSE 0)
  <1>1. IsFiniteSet(Refs(c, {p}, x)) /\ Cardinality(Refs(c, {p}, x)) \in Nat
    BY RefsFinite DEF RefCount
  <1>2. p \notin Refs(c, {p}, x)
    BY DEF Refs
  <1>3. CASE c[p] = x
    <2>1. Refs(c, {}, x) = Refs(c, {p}, x) \cup {p}
      BY <1>3 DEF Refs
    <2>2. Cardinality(Refs(c, {p}, x) \cup {p}) = Cardinality(Refs(c, {p}, x)) + 1
      BY <1>1, <1>2, FS_AddElement
    <2> QED
      BY <1>3, <2>1, <2>2 DEF RefCount
  <1>4. CASE c[p] # x
    <2>1. Refs(c, {}, x) = Refs(c, {p}, x)
      BY <1>4 DEF Refs
    <2> QED
      BY <1>1, <1>4, <2>1 DEF RefCount
  <1> QED
    BY <1>3, <1>4

\* The contents of one place change.
Put(c, p, v) == [c EXCEPT ![p] = v]

\* A write adds one reference to what is written.
LEMMA RefsPut ==
  ASSUME NEW c \in [Place -> Ptr], NEW p \in Place, NEW v, NEW x
  PROVE  RefCount(Put(c, p, v), {}, x) = RefCount(c, {p}, x) + (IF v = x THEN 1 ELSE 0)
  <1> DEFINE e == Put(c, p, v)
  <1>1. e[p] = v /\ \A q \in Place : q # p => e[q] = c[q]
    BY DEF Put
  <1> HIDE DEF e
  <1>2. Refs(e, {p}, x) = Refs(c, {p}, x)
    BY <1>1 DEF Refs
  <1>3. RefCount(e, {}, x) = RefCount(e, {p}, x) + (IF e[p] = x THEN 1 ELSE 0)
    BY RefsButOne
  <1>4. RefCount(e, {}, x) = RefCount(c, {p}, x) + (IF v = x THEN 1 ELSE 0)
    BY <1>1, <1>2, <1>3 DEF RefCount
  <1> QED
    BY <1>4 DEF e

\* The places of an object are cleared.
Cleared(c, o) == [p \in Place |-> IF p \in PlacesOf(o) THEN Nil ELSE c[p]]

\* Clearing an object's places takes away as many references as they held.
LEMMA RefsCleared ==
  ASSUME NEW c, NEW o \in Obj, NEW W, NEW x \in Obj
  PROVE  /\ Cardinality({p \in PlacesOf(o) \ W : c[p] = x}) \in Nat
         /\ RefCount(c, W, x) =
              RefCount(Cleared(c, o), W, x) + Cardinality({p \in PlacesOf(o) \ W : c[p] = x})
  <1> DEFINE A == Refs(Cleared(c, o), W, x)
             B == {p \in PlacesOf(o) \ W : c[p] = x}
  <1>1. PlacesOf(o) \subseteq Place /\ x # Nil
    BY PlacesFinite, ScopeFacts
  <1>2. /\ \A p \in PlacesOf(o) : Cleared(c, o)[p] = Nil
        /\ \A p \in Place \ PlacesOf(o) : Cleared(c, o)[p] = c[p]
    BY <1>1 DEF Cleared
  <1>3. A \cap B = {} /\ Refs(c, W, x) = A \cup B
    BY <1>1, <1>2 DEF Refs
  <1>4. IsFiniteSet(A) /\ IsFiniteSet(B)
    <2>1. IsFiniteSet(B)
      BY <1>1, PlacesFinite, FS_Subset
    <2> QED
      BY <2>1, RefsFinite
  <1> HIDE DEF A, B
  <1>5. Cardinality(A \cup B) = Cardinality(A) + Cardinality(B)
    <2>1. Cardinality(A \cap B) = 0
      BY <1>3, FS_EmptySet
    <2>2. Cardinality(A) \in Nat /\ Cardinality(B) \in Nat
      BY <1>4, FS_CardinalityType
    <2>3. Cardinality(A \cup B) = Cardinality(A) + Cardinality(B) - Cardinality(A \cap B)
      BY <1>4, FS_Union
    <2> QED
      BY <2>1, <2>2, <2>3
  <1>6. Cardinality(B) \in Nat
    BY <1>4, FS_CardinalityType
  <1> QED
    BY <1>3, <1>5, <1>6 DEF RefCount, A, B

---------------------------------------------------------------------------
\* What the count of an object is made of.

ListNum(ch, x) == IF \E d \in Scope : x \in Range(ch[d]) THEN 1 ELSE 0
RestNum(r, x) == IF x \in Range(r) THEN 1 ELSE 0
SavedNum(cl, x) == IF cl.op = "store" THEN (IF cl.val = x THEN 1 ELSE 0) ELSE 0

Count(x) ==
  RefCount(cell, Written(call), x) + ListNum(chain, x) + RestNum(rest, x)
  + SavedNum(call, x) + given[x] + pending[x]

CountInv ==
  /\ \A x \in live : refcount[x] = Count(x) /\ refcount[x] > 0
  /\ \A p \in Place \ Written(call) : cell[p] # Nil => cell[p] \in live
  /\ \A x \in Obj \ live : given[x] = 0 /\ \A i \in Index : cell[<<x, i>>] = Nil
  /\ \A p \in Place : cell[p] \in live => scope_id[cell[p]] = -1

\* Only one list has it.
LEMMA OneList ==
  ASSUME ListInv, NEW x
  PROVE  Cardinality(ListedIn(x)) = ListNum(chain, x)
  <1>1. CASE \E d \in Scope : x \in Range(chain[d])
    <2>1. PICK d \in Scope : x \in Range(chain[d])
      BY <1>1
    <2>2. \A e \in Scope : x \in Range(chain[e]) => e = d
      <3>1. \A e \in Scope : x \in Range(chain[e]) => scope_id[x] = e
        BY DEF ListInv
      <3> QED
        BY <2>1, <3>1
    <2>3. ListedIn(x) = {d}
      BY <2>1, <2>2 DEF ListedIn
    <2> QED
      BY <1>1, <2>3, FS_Singleton DEF ListNum
  <1>2. CASE ~ \E d \in Scope : x \in Range(chain[d])
    <2>1. ListedIn(x) = {}
      BY <1>2 DEF ListedIn
    <2> QED
      BY <1>2, <2>1, FS_EmptySet DEF ListNum
  <1> QED
    BY <1>1, <1>2

\* The counts of the invariant are those of RcExact.
LEMMA CountsFollow ==
  ASSUME TypeOK, ListInv, CountInv
  PROVE  RcExact /\ NoDanglingCell
  <1>1. \A x \in live : RefCount(cell, Written(call), x) = Cardinality(Owned(x))
    BY DEF RefCount, Refs, Written, Owned, Overwritten
  <1>2. \A x \in live : RestNum(rest, x) + SavedNum(call, x) = InTransit(x)
    BY DEF RestNum, SavedNum, InTransit
  <1>3. RcExact
    <2> SUFFICES ASSUME NEW x \in live
                 PROVE  refcount[x] = Cardinality(Owned(x)) + Cardinality(ListedIn(x))
                                      + InTransit(x) + given[x] + pending[x]
      BY DEF RcExact
    <2>1. refcount[x] = Count(x)
      BY DEF CountInv
    <2>2. RestNum(rest, x) \in Nat /\ SavedNum(call, x) \in Nat /\ ListNum(chain, x) \in Nat
      BY DEF RestNum, SavedNum, ListNum
    <2>3. RefCount(cell, Written(call), x) \in Nat /\ given[x] \in Nat /\ pending[x] \in Nat
      BY RefsFinite, ListTypes
    <2> HIDE DEF RcExact
    <2> QED
      BY <1>1, <1>2, <2>1, <2>2, <2>3, OneList DEF Count
  <1>4. NoDanglingCell
    <2>1. Global \cup (live \X Index) \subseteq Place
      BY ListTypes DEF Place
    <2> QED
      BY <2>1 DEF NoDanglingCell, CountInv, Written, Overwritten
  <1> QED
    BY <1>3, <1>4

---------------------------------------------------------------------------
\* A call in progress.

\* A store has nothing to walk; the new value is alive and in no scope; as long as
\* the overwritten value lives its release is the only one outstanding.  The
\* fields that runtime_struct_new has still to fill are empty, and what goes
\* there was obtained by the function that creates the object.
CallInv ==
  /\ call.op = "store" =>
       /\ walk = Nil
       /\ call.val # Nil => call.val \in live /\ scope_id[call.val] = -1
       /\ cell[call.to] \in live =>
            \A x \in Obj : pending[x] <= IF x = cell[call.to] THEN 1 ELSE 0
  /\ call.op = "struct_new" =>
       /\ Quiet /\ call.obj \in live /\ frames # <<>>
       /\ \A i \in Index : call.vals[i] # Nil =>
            call.vals[i] \in Locals(top) \ top.args /\ cell[<<call.obj, i>>] = Nil

Inv == TypeOK /\ ScopeInv /\ ListInv /\ CallInv /\ FrameInv /\ CountInv
Keeps == ListInv' /\ CallInv' /\ FrameInv' /\ CountInv'

\* Every summand of a count is a natural number.
LEMMA CountParts ==
  ASSUME TypeOK, NEW x \in Obj
  PROVE  /\ RefCount(cell, Written(call), x) \in Nat /\ ListNum(chain, x) \in Nat
         /\ RestNum(rest, x) \in Nat /\ SavedNum(call, x) \in Nat
         /\ given[x] \in Nat /\ pending[x] \in Nat /\ refcount[x] \in Nat
  <1>1. ListNum(chain, x) \in Nat
    BY DEF ListNum
  <1>2. RestNum(rest, x) \in Nat /\ SavedNum(call, x) \in Nat
    BY DEF RestNum, SavedNum
  <1> QED
    BY <1>1, <1>2, RefsFinite, ListTypes

\* What the last reference being released says.
LEMMA LastReference ==
  ASSUME TypeOK, CountInv, NEW x \in live, pending[x] > 0, refcount[x] <= 1
  PROVE  /\ pending[x] = 1 /\ given[x] = 0 /\ SavedNum(call, x) = 0
         /\ x \notin Range(rest) /\ \A d \in Scope : x \notin Range(chain[d])
         /\ \A p \in Place \ Written(call) : cell[p] # x
  <1>1. x \in Obj /\ refcount[x] = Count(x)
    BY ListTypes DEF CountInv
  <1> DEFINE a == RefCount(cell, Written(call), x)
             b == ListNum(chain, x)
             c == RestNum(rest, x)
             d == SavedNum(call, x)
  <1>2. refcount[x] = a + b + c + d + given[x] + pending[x]
    BY <1>1 DEF Count
  <1>3. /\ a \in Nat /\ b \in Nat /\ c \in Nat /\ d \in Nat
        /\ given[x] \in Nat /\ pending[x] \in Nat /\ refcount[x] \in Nat
    BY <1>1, CountParts
  <1> HIDE DEF a, b, c, d
  <1>4. pending[x] = 1 /\ given[x] = 0 /\ a = 0 /\ b = 0 /\ c = 0 /\ d = 0
    BY <1>2, <1>3
  <1>5. x \notin Range(rest)
    BY <1>4 DEF c, RestNum
  <1>6. \A e \in Scope : x \notin Range(chain[e])
    BY <1>4 DEF b, ListNum
  <1>7. \A p \in Place \ Written(call) : cell[p] # x
    BY <1>4, RefsFinite DEF a
  <1> QED
    BY <1>4, <1>5, <1>6, <1>7 DEF d

\* A new owner takes over: one reference more, or one list less.
LEMMA AdoptKeeps ==
  ASSUME TypeOK, ListInv, NEW v, v \in live => Listed(v), Adopt(v),
         live' = live, depth' = depth, walk' = walk, rest' = rest
  PROVE  /\ ListInv'
         /\ \A x \in live : Stays(x)
         /\ \A x \in live : scope_id[x] = -1 => scope_id'[x] = -1
         /\ v \in live /\ scope_id[v] = depth - 1 => scope_id'[v] = -1
         /\ \A x \in live : /\ refcount'[x] \in Nat /\ refcount'[x] >= refcount[x]
                            /\ ListNum(chain', x) \in Nat
                            /\ refcount'[x] - ListNum(chain', x) =
                                 refcount[x] - ListNum(chain, x) + (IF x = v THEN 1 ELSE 0)
  <1>1. /\ ListInv'
        /\ Forgets(v) => v \in live /\ scope_id[v] \in Scope
        /\ \A x \in Obj : scope_id'[x] = IF x = v /\ Forgets(v) THEN -1 ELSE scope_id[x]
        /\ \A e \in Scope : \A x :
             x \in Range(chain'[e]) <=> x \in Range(chain[e]) /\ ~(x = v /\ Forgets(v))
        /\ \A x \in Obj :
             refcount'[x] = refcount[x] + (IF x = v /\ v \in live /\ ~Forgets(v) THEN 1 ELSE 0)
    BY AdoptEffect
  <1>2. live \subseteq Obj /\ refcount \in [Obj -> Nat] /\ scope_id \in [Obj -> Scope \cup {-1}]
    BY ListTypes
  <1>3. \A x \in live : Stays(x)
    <2> TAKE x \in live
    <2>1. CASE x = v /\ Forgets(v)
      BY <1>1, <1>2, <2>1 DEF Stays
    <2>2. CASE ~(x = v /\ Forgets(v))
      <3>1. scope_id'[x] = scope_id[x]
        BY <1>1, <1>2, <2>2
      <3>2. scope_id[x] # -1 => scope_id[x] \in Scope
        BY <1>2
      <3>3. scope_id[x] # -1 /\ x \in Range(chain[scope_id[x]]) => x \in Range(chain'[scope_id[x]])
        BY <1>1, <2>2, <3>2
      <3> QED
        BY <3>1, <3>3 DEF Stays
    <2> QED
      BY <2>1, <2>2
  <1>4. \A x \in live : scope_id[x] = -1 => scope_id'[x] = -1
    BY <1>1, <1>2
  <1>5. v \in live /\ scope_id[v] = depth - 1 => scope_id'[v] = -1
    <2> SUFFICES ASSUME v \in live, scope_id[v] = depth - 1, scope_id[v] # -1
                 PROVE  scope_id'[v] = -1
      BY <1>4
    <2>1. depth > 0
      BY <1>2, ListTypes
    <2> QED
      BY <1>1, <1>2, <2>1 DEF Forgets
  <1>6. ASSUME NEW x \in live
        PROVE  /\ refcount'[x] \in Nat /\ refcount'[x] >= refcount[x]
               /\ ListNum(chain', x) \in Nat
               /\ refcount'[x] - ListNum(chain', x) =
                    refcount[x] - ListNum(chain, x) + (IF x = v THEN 1 ELSE 0)
    <2>1. ListNum(chain', x) \in Nat /\ ListNum(chain, x) \in Nat /\ refcount[x] \in Nat
      BY <1>2 DEF ListNum
    <2>2. CASE x = v /\ Forgets(v)
      <3>1. ListNum(chain', x) = 0
        BY <1>1, <2>2 DEF ListNum
      <3>2. ListNum(chain, x) = 1
        <4>1. scope_id[v] \in Scope /\ v \in Range(chain[scope_id[v]])
          BY <1>1, <2>2, ListTypes DEF Listed
        <4> QED
          BY <2>2, <4>1 DEF ListNum
      <3>3. refcount'[x] = refcount[x] + 0
        BY <1>1, <1>2, <2>2
      <3> QED
        BY <2>1, <2>2, <3>1, <3>2, <3>3
    <2>3. CASE ~(x = v /\ Forgets(v))
      <3>1. ListNum(chain', x) = ListNum(chain, x)
        BY <1>1, <2>3 DEF ListNum
      <3>2. refcount'[x] = refcount[x] + (IF x = v THEN 1 ELSE 0)
        BY <1>1, <1>2, <2>3
      <3> QED
        BY <2>1, <3>1, <3>2
    <2> QED
      BY <2>2, <2>3
  <1> QED
    BY <1>1, <1>3, <1>4, <1>5, <1>6

\* Frames of which every local stays.
LEMMA AllStay ==
  ASSUME TypeOK, FrameInv, frames' = frames, \A x \in live : Stays(x)
  PROVE  FrameInv'
  <1>1. \A k \in 1 .. Len(frames) : Locals(frames[k]) \subseteq live
    BY DEF FrameInv, FrameOK
  <1> QED
    BY <1>1, FramesSame

\* Nothing moves but counts.
LEMMA StillThere ==
  ASSUME live' = live, scope_id' = scope_id, chain' = chain
  PROVE  \A x \in live : Stays(x)
  BY DEF Stays

---------------------------------------------------------------------------
\* Release calls.

\* runtime_release above one: one pending release and one count less.
LEMMA ReleaseKeeps ==
  ASSUME Inv, NEW o \in Obj, Release(o)
  PROVE  Keeps
  <1> USE DEF Inv
  <1>1. /\ pending[o] > 0 /\ (o \notin live \/ refcount[o] > 1)
        /\ pending' = [pending EXCEPT ![o] = @ - 1]
        /\ refcount' = IF o \in live THEN [refcount EXCEPT ![o] = @ - 1] ELSE refcount
        /\ live' = live /\ cell' = cell /\ given' = given /\ scope_id' = scope_id
        /\ chain' = chain /\ heads' = heads /\ next_scope' = next_scope
        /\ prev_scope' = prev_scope /\ depth' = depth /\ frames' = frames /\ walk' = walk
        /\ rest' = rest /\ call' = call
    BY DEF Release, linkVars, scopeVars
  <1>2. ListInv'
    BY <1>1, ListsStay, ListTypes DEF linkVars
  <1>3. FrameInv'
    BY <1>1, StillThere, AllStay
  <1>4. /\ \A x \in Obj : pending'[x] = pending[x] - (IF x = o THEN 1 ELSE 0)
        /\ \A x \in live : refcount'[x] = refcount[x] - (IF x = o THEN 1 ELSE 0)
    <2>1. \A x \in Obj : pending[x] \in Nat /\ refcount[x] \in Nat
      BY ListTypes
    <2> QED
      BY <1>1, <2>1, ListTypes
  <1>5. CallInv'
    <2>1. call.op # "struct_new"
      BY <1>1 DEF CallInv, Quiet
    <2>2. call.op = "store" /\ cell[call.to] \in live =>
            \A x \in Obj : pending'[x] <= IF x = cell[call.to] THEN 1 ELSE 0
      <3>1. \A x \in Obj : pending[x] \in Nat /\ pending'[x] <= pending[x]
        <4>1. \A x \in Obj : pending[x] \in Nat
          BY ListTypes
        <4> QED
          BY <1>4, <4>1
      <3>2. cell[call.to] \in live => cell[call.to] \in Obj
        BY ListTypes
      <3>3. call.op = "store" /\ cell[call.to] \in live =>
              \A x \in Obj : pending[x] <= IF x = cell[call.to] THEN 1 ELSE 0
        BY DEF CallInv
      <3>4. \A x \in Obj : pending'[x] \in Int
        BY <1>4, <3>1
      <3> QED
        BY <3>1, <3>3, <3>4
    <2> QED
      BY <1>1, <2>1, <2>2 DEF CallInv
  <1>6. CountInv'
    <2>1. ASSUME NEW x \in live PROVE refcount'[x] = Count(x)' /\ refcount'[x] > 0
      <3>1. x \in Obj /\ refcount[x] = Count(x) /\ refcount[x] > 0
        BY ListTypes DEF CountInv
      <3>2. Count(x)' = Count(x) - (IF x = o THEN 1 ELSE 0)
        <4>1. Count(x)' = RefCount(cell, Written(call), x) + ListNum(chain, x) + RestNum(rest, x)
                          + SavedNum(call, x) + given[x] + pending'[x]
          BY <1>1 DEF Count
        <4> QED
          BY <1>4, <3>1, <4>1, CountParts DEF Count
      <3>3. refcount'[x] > 0
        BY <1>1, <1>4, <3>1, CountParts
      <3> QED
        BY <1>4, <3>1, <3>2, <3>3
    <2> QED
      BY <1>1, <2>1 DEF CountInv
  <1> QED
    BY <1>2, <1>3, <1>5, <1>6 DEF Keeps

\* The places of a dying object are released with it.
LEMMA DieRefs ==
  ASSUME Inv, NEW o \in live, pending[o] > 0, refcount[o] <= 1, Die(o), NEW x \in live, x # o
  PROVE  /\ RefCount(cell', Written(call), x) \in Nat /\ Held(o, x) \in Nat
         /\ RefCount(cell, Written(call), x) = RefCount(cell', Written(call), x) + Held(o, x)
  <1> USE DEF Inv
  <1>1. o \in Obj /\ x \in Obj /\ cell' = Cleared(cell, o)
    BY ListTypes DEF Die, Cleared
  <1> DEFINE B == {p \in PlacesOf(o) \ Written(call) : cell[p] = x}
  <1>2. /\ Cardinality(B) \in Nat
        /\ RefCount(cell, Written(call), x) = RefCount(cell', Written(call), x) + Cardinality(B)
    BY <1>1, RefsCleared
  <1>3. \A p \in Written(call) : cell[p] # x
    <2> SUFFICES ASSUME call.op = "store", cell[call.to] = x PROVE FALSE
      BY DEF Written
    <2>1. pending[o] <= IF o = x THEN 1 ELSE 0
      BY <1>1 DEF CallInv
    <2> QED
      BY <1>1, <2>1, ListTypes
  <1>4. B = {p \in PlacesOf(o) : cell[p] = x}
    BY <1>3
  <1>5. Cardinality(B) = Held(o, x)
    BY <1>4 DEF Held
  <1> HIDE DEF B
  <1> QED
    BY <1>2, <1>5, RefsFinite

\* runtime_release of the last reference: nothing refers to the object, what it
\* referred to gets a pending release for each reference, or keeps the reference a
\* raw cell never gives back.
LEMMA DieKeeps ==
  ASSUME Inv, NEW o \in Obj, ReleaseLast(o)
  PROVE  Keeps
  <1> USE DEF Inv
  <1>1. o \in live /\ pending[o] > 0 /\ refcount[o] <= 1 /\ Die(o)
    BY DEF ReleaseLast
  <1>2. /\ pending[o] = 1 /\ given[o] = 0 /\ SavedNum(call, o) = 0
        /\ o \notin Range(rest) /\ \A d \in Scope : o \notin Range(chain[d])
        /\ \A p \in Place \ Written(call) : cell[p] # o
    BY <1>1, LastReference
  <1>3. /\ live' = live \ {o} /\ chain' = chain /\ rest' = rest /\ walk' = walk /\ call' = call
        /\ frames' = Without(frames, o) /\ cell' = Cleared(cell, o)
    BY <1>1 DEF Die, Without, Cleared
  <1>4. /\ \A x \in Obj : refcount'[x] = IF x = o THEN 0 ELSE refcount[x]
        /\ \A x \in Obj : scope_id'[x] = IF x = o THEN -1 ELSE scope_id[x]
    BY <1>1, ListTypes DEF Die
  <1>5. \A x \in Obj : x # o =>
           /\ pending'[x] = pending[x] + (IF kind[o] = "raw" THEN 0 ELSE Held(o, x))
           /\ given'[x] = given[x] + (IF kind[o] = "raw" /\ x \in live THEN Held(o, x) ELSE 0)
    <2>1. /\ pending' = [x \in Obj |-> pending[x] - (IF x = o THEN 1 ELSE 0)
                               + (IF kind[o] = "raw" THEN 0 ELSE Held(o, x))]
          /\ given' = [x \in Obj |-> IF x = o THEN 0
                ELSE given[x] + (IF kind[o] = "raw" /\ x \in live THEN Held(o, x) ELSE 0)]
      BY <1>1 DEF Die
    <2> TAKE x \in Obj
    <2> HAVE x # o
    <2>2. pending[x] \in Nat /\ Held(o, x) \in Nat
      BY ListTypes, HeldNat
    <2> QED
      BY <2>1, <2>2
  <1>6. given'[o] = 0
    BY <1>1 DEF Die
  <1>7. /\ \A p \in PlacesOf(o) : cell'[p] = Nil
        /\ \A p \in Place : p \notin PlacesOf(o) => cell'[p] = cell[p]
    BY <1>3, PlacesFinite DEF Cleared
  <1>8. ListInv'
    BY <1>1, <1>2, DieLists
  <1>9. \A x \in live : x # o => x \in Obj /\ Stays(x)
    <2> TAKE x \in live
    <2> HAVE x # o
    <2>1. x \in Obj /\ x \in live' /\ scope_id'[x] = scope_id[x]
      BY <1>3, <1>4, ListTypes
    <2> QED
      BY <1>3, <2>1 DEF Stays
  <1>10. FrameInv'
    <2>1. frames \in Seq(Frame) /\ Len(frames) \in Nat
      BY ListTypes, FrameAt
    <2>2. /\ Len(Without(frames, o)) = Len(frames)
          /\ \A k \in 1 .. Len(frames) :
               /\ Without(frames, o)[k].base = frames[k].base
               /\ Without(frames, o)[k].args = frames[k].args \ {o}
               /\ Without(frames, o)[k].own = frames[k].own \ {o}
      BY <2>1, WithoutOf
    <2>3. \A k \in 1 .. Len(frames) : Locals(frames'[k]) = Locals(frames[k]) \ {o}
      BY <1>3, <2>2 DEF Locals
    <2>4. ArgsOK(frames')
      <3> SUFFICES ASSUME NEW k \in 1 .. Len(frames)
                   PROVE  frames'[k].args \subseteq IF k = 1 THEN {} ELSE Locals(frames'[k - 1])
        BY <1>3, <2>2 DEF ArgsOK
      <3>1. frames[k].args \subseteq IF k = 1 THEN {} ELSE Locals(frames[k - 1])
        BY DEF FrameInv, ArgsOK
      <3>2. k # 1 => k - 1 \in 1 .. Len(frames)
        BY <2>1
      <3>3. frames'[k].args = frames[k].args \ {o}
        BY <1>3, <2>2
      <3>4. k # 1 => Locals(frames'[k - 1]) = Locals(frames[k - 1]) \ {o}
        BY <2>3, <3>2
      <3> QED
        BY <3>1, <3>3, <3>4
    <2>5. ASSUME NEW k \in 1 .. Len(frames) PROVE FrameOK(frames'[k], live', scope_id', chain')
      <3>1. FrameOK(frames[k], live, scope_id, chain)
        BY DEF FrameInv
      <3>2. /\ frames'[k].base = frames[k].base /\ frames'[k].own \subseteq frames[k].own
            /\ frames'[k].args \subseteq frames[k].args
        BY <1>3, <2>2
      <3>3. \A x \in Locals(frames'[k]) : Stays(x)
        BY <1>9, <2>3, <3>1 DEF FrameOK
      <3> QED
        BY <3>1, <3>2, <3>3, LessLocals
    <2> QED
      BY <1>3, <2>2, <2>4, <2>5 DEF FrameInv
  <1>11. CallInv'
    <2>1. call.op # "struct_new"
      BY <1>1 DEF CallInv, Quiet
    <2>2. ASSUME call.op = "store"
          PROVE  /\ call.val # Nil => call.val \in live' /\ scope_id'[call.val] = -1
                 /\ cell'[call.to] \notin live'
      <3>1. call.val # Nil => call.val \in live /\ scope_id[call.val] = -1 /\ call.val \in Obj
        BY <2>2, ListTypes DEF CallInv
      <3>2. call.val # o
        BY <1>2, <2>2 DEF SavedNum
      <3>3. ASSUME cell'[call.to] \in live' PROVE FALSE
        <4>1. call.to \in Place
          BY <2>2, CallKinds DEF TypeOK, CountsOK
        <4>2. cell'[call.to] # Nil
          BY <1>3, <3>3, ListTypes
        <4>3. cell[call.to] \in live /\ cell[call.to] # o
          BY <1>3, <1>7, <3>3, <4>1, <4>2
        <4>4. pending[o] <= IF o = cell[call.to] THEN 1 ELSE 0
          BY <2>2, <4>3 DEF CallInv
        <4> QED
          BY <1>2, <4>3, <4>4
      <3> QED
        BY <1>3, <1>4, <3>1, <3>2, <3>3
    <2> QED
      BY <1>3, <2>1, <2>2 DEF CallInv
  <1>12. CountInv'
    <2>1. ASSUME NEW x \in live, x # o PROVE refcount'[x] = Count(x)' /\ refcount'[x] > 0
      <3>1. x \in Obj /\ refcount[x] = Count(x) /\ refcount[x] > 0 /\ refcount'[x] = refcount[x]
        BY <1>4, <2>1, ListTypes DEF CountInv
      <3>2. Count(x)' = RefCount(cell', Written(call), x) + ListNum(chain, x) + RestNum(rest, x)
                        + SavedNum(call, x) + given'[x] + pending'[x]
        BY <1>3 DEF Count
      <3>3. /\ RefCount(cell', Written(call), x) \in Nat /\ Held(o, x) \in Nat
            /\ RefCount(cell, Written(call), x) = RefCount(cell', Written(call), x) + Held(o, x)
        BY <1>1, <2>1, DieRefs
      <3>4. given'[x] + pending'[x] = given[x] + pending[x] + Held(o, x)
        BY <1>5, <2>1, <3>1, <3>3, CountParts
      <3>5. given'[x] \in Nat /\ pending'[x] \in Nat
        BY <1>5, <2>1, <3>1, <3>3, CountParts
      <3> QED
        BY <3>1, <3>2, <3>3, <3>4, <3>5, CountParts DEF Count
    <2>2. \A p \in Place \ Written(call) : cell'[p] # Nil => cell'[p] \in live'
      BY <1>2, <1>3, <1>7 DEF CountInv
    <2>3. ASSUME NEW x \in Obj \ live' PROVE given'[x] = 0 /\ \A i \in Index : cell'[<<x, i>>] = Nil
      <3>1. CASE x = o
        BY <1>6, <1>7, <3>1 DEF PlacesOf
      <3>2. CASE x # o
        <4>1. x \in Obj \ live
          BY <1>3, <3>2
        <4>2. given[x] = 0 /\ given'[x] = given[x] + 0
          BY <1>5, <3>2, <4>1 DEF CountInv
        <4>3. \A i \in Index : <<x, i>> \in Place /\ <<x, i>> \notin PlacesOf(o)
          BY <3>2, PlacesFinite DEF PlacesOf
        <4> QED
          BY <1>7, <4>1, <4>2, <4>3 DEF CountInv
      <3> QED
        BY <3>1, <3>2
    <2>4. ASSUME NEW p \in Place, cell'[p] \in live' PROVE scope_id'[cell'[p]] = -1
      <3>1. cell'[p] \in live /\ cell'[p] # o /\ cell'[p] \in Obj
        BY <1>3, <2>4, ListTypes
      <3>2. cell'[p] = cell[p]
        BY <1>7, <3>1, ListTypes
      <3> QED
        BY <1>4, <3>1, <3>2 DEF CountInv
    <2> QED
      BY <1>3, <2>1, <2>2, <2>3, <2>4 DEF CountInv
  <1> QED
    BY <1>8, <1>10, <1>11, <1>12 DEF Keeps

---------------------------------------------------------------------------
\* Scopes are popped.

\* The scope's reference becomes a pending release.
LEMMA WalkKeeps ==
  ASSUME Inv, WalkScope
  PROVE  Keeps
  <1> USE DEF Inv
  <1>1. /\ walk # Nil /\ pending' = [pending EXCEPT ![walk] = @ + 1]
        /\ live' = live /\ refcount' = refcount /\ cell' = cell /\ given' = given
        /\ scope_id' = scope_id /\ chain' = chain /\ frames' = frames /\ call' = call
    BY DEF WalkScope, objVars
  <1>2. /\ ListInv' /\ walk \in live /\ walk \in Range(rest) /\ walk \in Obj
        /\ \A x : x \in Range(rest') <=> x \in Range(rest) /\ x # walk
    BY WalkLists, ListTypes
  <1>3. FrameInv'
    BY <1>1, StillThere, AllStay
  <1>4. CallInv'
    BY <1>1 DEF CallInv, Quiet
  <1>5. CountInv'
    <2>1. ASSUME NEW x \in live PROVE refcount'[x] = Count(x)' /\ refcount'[x] > 0
      <3>1. x \in Obj /\ refcount[x] = Count(x) /\ refcount[x] > 0
        BY ListTypes DEF CountInv
      <3>2. Count(x)' = RefCount(cell, Written(call), x) + ListNum(chain, x) + RestNum(rest', x)
                        + SavedNum(call, x) + given[x] + pending'[x]
        BY <1>1 DEF Count
      <3>3. pending'[x] = pending[x] + (IF x = walk THEN 1 ELSE 0)
        BY <1>1, <1>2, <3>1, ListTypes
      <3>4. RestNum(rest, x) = RestNum(rest', x) + (IF x = walk THEN 1 ELSE 0)
            /\ RestNum(rest', x) \in Nat
        BY <1>2 DEF RestNum
      <3> QED
        BY <1>1, <3>1, <3>2, <3>3, <3>4, CountParts DEF Count
    <2> QED
      BY <1>1, <2>1 DEF CountInv
  <1> QED
    BY <1>2, <1>3, <1>4, <1>5 DEF Keeps

\* The list of a scope no frame has locals in becomes the one to be walked.
LEMMA ScopePopKeeps ==
  ASSUME Inv, ScopePop, Quiet, frames' = frames, call.op \in Popping,
         UNCHANGED <<objVars, scope_id, next_scope, prev_scope, pending>>,
         call' = call \/ call' = NoCall,
         overflow = 0 /\ depth > 0 => \A k \in 1 .. Len(frames) : frames[k].base <= depth - 1
  PROVE  Keeps
  <1> USE DEF Inv
  <1>1. /\ live' = live /\ refcount' = refcount /\ cell' = cell /\ given' = given
        /\ scope_id' = scope_id /\ pending' = pending
    BY DEF objVars
  <1>2. /\ ListInv' /\ rest = <<>>
        /\ \/ chain' = chain /\ rest' = rest
           \/ /\ overflow = 0 /\ depth > 0 /\ depth - 1 \in Scope /\ rest' = chain[depth - 1]
              /\ \A e \in Scope : chain'[e] = IF e = depth - 1 THEN <<>> ELSE chain[e]
    <2>1. walk = Nil /\ UNCHANGED <<next_scope, prev_scope, scope_id, live>>
      BY <1>1 DEF Quiet
    <2> QED
      BY <2>1, ScopePopLists
  <1>3. /\ call.op # "store" /\ call'.op # "store" /\ call'.op # "struct_new"
        /\ Written(call) = {} /\ Written(call') = {}
        /\ \A x : SavedNum(call, x) = 0 /\ SavedNum(call', x) = 0
    <2>1. call.op # "store" /\ call'.op # "store" /\ call'.op # "struct_new"
      BY CallForms DEF Popping
    <2> QED
      BY <2>1 DEF Written, SavedNum
  <1>4. \A x : x \notin Range(rest)
    <2>1. rest \in Seq(Obj)
      BY ListTypes
    <2>2. \A x : x \in Range(rest) <=> \E i \in 1 .. Len(rest) : rest[i] = x
      BY <2>1, SeqObj
    <2>3. Len(rest) = 0
      BY <1>2, <2>1, SeqObj
    <2> QED
      BY <2>2, <2>3
  <1>5. \A x \in live :
          ListNum(chain', x) + RestNum(rest', x) = ListNum(chain, x) + RestNum(rest, x)
    <2> TAKE x \in live
    <2>1. CASE chain' = chain /\ rest' = rest
      BY <2>1
    <2>2. CASE /\ depth - 1 \in Scope /\ rest' = chain[depth - 1]
               /\ \A e \in Scope : chain'[e] = IF e = depth - 1 THEN <<>> ELSE chain[e]
      <3>1. RestNum(rest, x) = 0
        BY <1>4 DEF RestNum
      <3>2. \A e \in Scope : x \in Range(chain'[e]) => x \notin Range(rest')
        BY <1>2 DEF ListInv
      <3>3. x \notin Range(chain'[depth - 1])
        BY <1>2, <1>4, <2>2
      <3>4. CASE x \in Range(rest')
        <4>1. ListNum(chain', x) = 0
          BY <3>2, <3>4 DEF ListNum
        <4>2. ListNum(chain, x) = 1
          BY <2>2, <3>4 DEF ListNum
        <4>3. RestNum(rest', x) = 1
          BY <3>4 DEF RestNum
        <4> QED
          BY <3>1, <4>1, <4>2, <4>3
      <3>5. CASE x \notin Range(rest')
        <4>1. \A e \in Scope : x \in Range(chain'[e]) <=> x \in Range(chain[e])
          BY <2>2, <3>3, <3>5
        <4>2. ListNum(chain', x) = ListNum(chain, x)
          BY <4>1 DEF ListNum
        <4>3. RestNum(rest', x) = 0
          BY <3>5 DEF RestNum
        <4> QED
          BY <3>1, <4>2, <4>3
      <3> QED
        BY <3>4, <3>5
    <2> QED
      BY <1>2, <2>1, <2>2
  <1>6. FrameInv'
    <2>1. ASSUME NEW k \in 1 .. Len(frames), NEW x \in Locals(frames[k]) PROVE Stays(x)
      <3>1. x \in live /\ x \in Obj /\ (scope_id[x] # -1 => scope_id[x] < frames[k].base)
        BY ListTypes DEF FrameInv, FrameOK
      <3>2. frames[k].base \in Nat
        BY FrameAt, ListTypes
      <3>3. scope_id[x] # -1 /\ x \in Range(chain[scope_id[x]]) => x \in Range(chain'[scope_id[x]])
        <4> SUFFICES ASSUME scope_id[x] # -1, x \in Range(chain[scope_id[x]])
                     PROVE  x \in Range(chain'[scope_id[x]])
          OBVIOUS
        <4>1. scope_id[x] \in Scope /\ scope_id[x] \in Nat /\ depth \in Nat
          BY <3>1, ListTypes
        <4>2. CASE chain' = chain
          BY <4>2
        <4>3. CASE /\ overflow = 0 /\ depth > 0
                   /\ \A e \in Scope : chain'[e] = IF e = depth - 1 THEN <<>> ELSE chain[e]
          <5>1. frames[k].base <= depth - 1
            BY <4>3
          <5>2. scope_id[x] # depth - 1
            BY <3>1, <3>2, <4>1, <5>1
          <5> QED
            BY <4>1, <4>3, <5>2
        <4> QED
          BY <1>2, <4>2, <4>3
      <3> QED
        BY <1>1, <3>1, <3>3 DEF Stays
    <2> QED
      BY <2>1, FramesSame
  <1>7. CallInv'
    BY <1>3 DEF CallInv
  <1>8. CountInv'
    <2>1. ASSUME NEW x \in live PROVE refcount'[x] = Count(x)' /\ refcount'[x] > 0
      <3>1. x \in Obj /\ refcount[x] = Count(x) /\ refcount[x] > 0
        BY ListTypes DEF CountInv
      <3>2. Count(x)' = RefCount(cell, {}, x) + ListNum(chain', x) + RestNum(rest', x)
                        + 0 + given[x] + pending[x]
        BY <1>1, <1>3 DEF Count
      <3>3. Count(x) = RefCount(cell, {}, x) + ListNum(chain, x) + RestNum(rest, x)
                       + 0 + given[x] + pending[x]
        BY <1>3 DEF Count
      <3>4. ListNum(chain', x) \in Nat /\ RestNum(rest', x) \in Nat
        BY DEF ListNum, RestNum
      <3>5. /\ RefCount(cell, {}, x) \in Nat /\ given[x] \in Nat /\ pending[x] \in Nat
            /\ ListNum(chain, x) \in Nat /\ RestNum(rest, x) \in Nat
        BY <3>1, RefsFinite, CountParts
      <3>6. ListNum(chain', x) + RestNum(rest', x) = ListNum(chain, x) + RestNum(rest, x)
        BY <1>5
      <3>7. Count(x)' = Count(x)
        BY <3>2, <3>3, <3>4, <3>5, <3>6
      <3> QED
        BY <1>1, <3>1, <3>7
    <2> QED
      BY <1>1, <1>3, <2>1 DEF CountInv
  <1> QED
    BY <1>2, <1>6, <1>7, <1>8 DEF Keeps

\* The deeper a frame, the more scopes there were when it was entered.
LEMMA BasesGrow ==
  ASSUME TypeOK, ScopeInv, NEW k \in 1 .. Len(frames)
  PROVE  /\ frames[k].base <= frames[Len(frames)].base
         /\ frames[k].base <= ScopedIn(frames, Len(frames))
         /\ frames[k].base \in Nat /\ frames[Len(frames)].base \in Nat
  <1>1. Len(frames) \in 1 .. Len(frames) /\ Len(frames) \in Nat
    BY ScopeNumbers
  <1>2. /\ frames[k].base = Least(ScopedIn(frames, k))
        /\ frames[Len(frames)].base = Least(ScopedIn(frames, Len(frames)))
    BY <1>1 DEF ScopeInv
  <1>3. /\ ScopedIn(frames, k) \in Nat /\ ScopedIn(frames, Len(frames)) \in Nat
        /\ ScopedIn(frames, k) <= ScopedIn(frames, Len(frames)) /\ FR_MAX_SCOPES \in Nat
    BY ScopeNumbers
  <1> QED
    BY <1>2, <1>3 DEF Least

\* The epilogue's runtime_scope_pop: the frame is gone, no local is in its scope.
LEMMA PopScopeKeeps ==
  ASSUME Inv, PopScope
  PROVE  Keeps
  <1> USE DEF Inv
  <1>1. /\ Quiet /\ call = PopCall /\ ScopePop /\ call' = NoCall /\ frames' = frames
        /\ UNCHANGED <<objVars, scope_id, next_scope, prev_scope, pending>>
    BY DEF PopScope
  <1>2. call.op = "scope_pop" /\ call.op \in Popping
    BY <1>1, CallForms DEF Popping
  <1>3. ASSUME overflow = 0 PROVE \A k \in 1 .. Len(frames) : frames[k].base <= depth - 1
    <2>1. depth + 0 = ScopedIn(frames, Len(frames)) + 1
      BY <1>2, <1>3 DEF ScopeInv
    <2> QED
      BY <2>1, BasesGrow, ScopeNumbers
  <1> QED
    BY <1>1, <1>2, <1>3, ScopePopKeeps

\* runtime_scope_unwind pops only scopes above the frame that catches.
LEMMA UnwindScopeKeeps ==
  ASSUME Inv, UnwindScope
  PROVE  Keeps
  <1> USE DEF Inv
  <1>1. /\ Quiet /\ call = UnwindCall /\ frames' = frames
        /\ UNCHANGED <<objVars, scope_id, next_scope, prev_scope, pending>>
    BY DEF UnwindScope
  <1>2. call.op = "scope_unwind" /\ call.op \in Popping /\ NoCall.op = "none"
    BY <1>1, CallForms DEF Popping
  <1>3. CASE overflow > 0 \/ depth > top.base
    <2>1. ScopePop /\ call' = call
      BY <1>3 DEF UnwindScope
    <2>2. ASSUME overflow = 0 PROVE \A k \in 1 .. Len(frames) : frames[k].base <= depth - 1
      <3>1. depth > frames[Len(frames)].base
        BY <1>3, <2>2 DEF top
      <3> QED
        BY <3>1, BasesGrow, ScopeNumbers
    <2> QED
      BY <1>1, <1>2, <2>1, <2>2, ScopePopKeeps
  <1>4. CASE ~(overflow > 0 \/ depth > top.base)
    <2>1. call' = NoCall /\ UNCHANGED <<depth, overflow, heads, chain, walk, rest>>
      BY <1>4 DEF UnwindScope
    <2>2. /\ live' = live /\ refcount' = refcount /\ cell' = cell /\ given' = given
          /\ scope_id' = scope_id /\ pending' = pending /\ chain' = chain /\ rest' = rest
      BY <1>1, <2>1 DEF objVars
    <2>3. ListInv'
      BY <1>1, <2>1, <2>2, ListsStay, ListTypes DEF linkVars
    <2>4. FrameInv'
      BY <1>1, <2>2, StillThere, AllStay
    <2>5. Written(call) = {} /\ Written(call') = {} /\ \A x : SavedNum(call, x) = SavedNum(call', x)
      BY <1>2, <2>1 DEF Written, SavedNum
    <2>6. CallInv'
      BY <1>2, <2>1 DEF CallInv
    <2>7. CountInv'
      <3>1. \A x \in live : Count(x)' = Count(x)
        BY <2>2, <2>5 DEF Count
      <3> QED
        BY <2>2, <2>5, <3>1 DEF CountInv
    <2> QED
      BY <2>3, <2>4, <2>6, <2>7 DEF Keeps
  <1> QED
    BY <1>3, <1>4

---------------------------------------------------------------------------
\* Calls that write a place.

\* No call is stored to while none is stored.
LEMMA NoStore ==
  ASSUME NEW cl, cl.op # "store"
  PROVE  Written(cl) = {} /\ \A x : SavedNum(cl, x) = 0
  BY DEF Written, SavedNum

\* Between two calls nothing is pending.
LEMMA ReadyFacts ==
  ASSUME Ready
  PROVE  /\ call = NoCall /\ call.op = "none" /\ call.op \notin Popping /\ Quiet
         /\ Written(call) = {} /\ \A x : SavedNum(call, x) = 0
         /\ walk = Nil /\ \A x \in Obj : pending[x] = 0
  <1>1. call = NoCall /\ call.op = "none" /\ Quiet /\ call.op \notin Popping
    BY CallForms DEF Ready, Popping
  <1> QED
    BY <1>1, NoStore DEF Quiet

\* The write of a store: the reference in transit becomes one of the place.
LEMMA FinishStoreKeeps ==
  ASSUME Inv, FinishStore
  PROVE  Keeps
  <1> USE DEF Inv
  <1>1. /\ call.op = "store" /\ call' = NoCall /\ Quiet
        /\ live' = live /\ refcount' = refcount /\ scope_id' = scope_id /\ pending' = pending
        /\ chain' = chain /\ rest' = rest /\ walk' = walk /\ frames' = frames /\ depth' = depth
        /\ UNCHANGED linkVars
    BY DEF FinishStore, linkVars, scopeVars
  <1>2. /\ call.to \in Place /\ call.val \in Ptr /\ Written(call) = {call.to}
        /\ call.val # Nil => call.val \in live /\ scope_id[call.val] = -1 /\ call.val \in Obj
    BY <1>1, CallKinds, ListTypes DEF Written, TypeOK, CountsOK, CallInv
  <1>3. call'.op = "none" /\ Written(call') = {} /\ \A x : SavedNum(call', x) = 0
    BY <1>1, CallForms, NoStore
  <1>4. ListInv'
    BY <1>1, ListsStay, ListTypes
  <1>5. FrameInv'
    BY <1>1, StillThere, AllStay
  <1>6. CallInv'
    BY <1>3 DEF CallInv
  <1>7. ASSUME NEW x \in live, RefCount(cell', {}, x) + given'[x] =
                  RefCount(cell, {call.to}, x) + given[x] + (IF call.val = x THEN 1 ELSE 0),
               given'[x] \in Nat
        PROVE  refcount'[x] = Count(x)' /\ refcount'[x] > 0
    <2>1. x \in Obj /\ refcount[x] = Count(x) /\ refcount[x] > 0
      BY ListTypes DEF CountInv
    <2>2. Count(x)' = RefCount(cell', {}, x) + ListNum(chain, x) + RestNum(rest, x)
                      + 0 + given'[x] + pending[x]
      BY <1>1, <1>3 DEF Count
    <2>3. Count(x) = RefCount(cell, {call.to}, x) + ListNum(chain, x) + RestNum(rest, x)
                     + (IF call.val = x THEN 1 ELSE 0) + given[x] + pending[x]
      BY <1>1, <1>2 DEF Count, SavedNum
    <2>4. RefCount(cell', {}, x) \in Nat /\ RefCount(cell, {call.to}, x) \in Nat
      BY RefsFinite
    <2>5. /\ ListNum(chain, x) \in Nat /\ RestNum(rest, x) \in Nat
          /\ given[x] \in Nat /\ pending[x] \in Nat
      BY <2>1, CountParts
    <2>6. Count(x)' = Count(x)
      BY <1>7, <2>2, <2>3, <2>4, <2>5
    <2> QED
      BY <1>1, <2>1, <2>6
  <1>8. CASE /\ call.to \in Global \cup (live \X Index)
             /\ cell' = [cell EXCEPT ![call.to] = call.val]
             /\ UNCHANGED given
    <2>1. \A p \in Place : cell'[p] = IF p = call.to THEN call.val ELSE cell[p]
      BY <1>2, <1>8, ListTypes
    <2>2. ASSUME NEW x \in live PROVE refcount'[x] = Count(x)' /\ refcount'[x] > 0
      <3>1. RefCount(cell', {}, x) = RefCount(cell, {call.to}, x) + (IF call.val = x THEN 1 ELSE 0)
        <4>1. cell' = Put(cell, call.to, call.val) /\ cell \in [Place -> Ptr]
          BY <1>8, ListTypes DEF Put
        <4>2. RefCount(Put(cell, call.to, call.val), {}, x) =
                RefCount(cell, {call.to}, x) + (IF call.val = x THEN 1 ELSE 0)
          BY <1>2, <4>1, RefsPut
        <4> QED
          BY <4>1, <4>2
      <3>2. RefCount(cell, {call.to}, x) \in Nat /\ given[x] \in Nat
        BY RefsFinite, ListTypes
      <3>3. RefCount(cell', {}, x) + given'[x] =
              RefCount(cell, {call.to}, x) + given[x] + (IF call.val = x THEN 1 ELSE 0)
        BY <1>8, <3>1, <3>2
      <3> QED
        BY <1>7, <1>8, <3>2, <3>3
    <2>3. \A p \in Place : cell'[p] # Nil => cell'[p] \in live
      BY <1>2, <2>1 DEF CountInv
    <2>4. ASSUME NEW x \in Obj \ live PROVE given'[x] = 0 /\ \A i \in Index : cell'[<<x, i>>] = Nil
      <3>1. \A i \in Index : <<x, i>> \in Place /\ <<x, i>> # call.to
        BY <1>8, PlacesFinite
      <3> QED
        BY <1>8, <2>1, <3>1 DEF CountInv
    <2>5. \A p \in Place : cell'[p] \in live => scope_id[cell'[p]] = -1
      BY <1>2, <2>1, ListTypes DEF CountInv
    <2>6. CountInv'
      BY <1>1, <1>3, <2>2, <2>3, <2>4, <2>5 DEF CountInv
    <2> QED
      BY <1>4, <1>5, <1>6, <2>6 DEF Keeps
  <1>9. CASE /\ call.to \notin Global \cup (live \X Index)
             /\ given' = IF call.val = Nil THEN given ELSE [given EXCEPT ![call.val] = @ + 1]
             /\ UNCHANGED cell
    <2>1. cell[call.to] = Nil
      <3>1. PICK o \in Obj, i \in Index : call.to = <<o, i>>
        BY <1>2, <1>9 DEF Place
      <3>2. o \notin live
        BY <1>9, <3>1
      <3> QED
        BY <3>1, <3>2 DEF CountInv
    <2>2. \A x \in Obj : given'[x] = given[x] + (IF call.val = x THEN 1 ELSE 0)
      <3>1. \A x \in Obj : given[x] \in Nat /\ x # Nil
        BY ListTypes
      <3> QED
        BY <1>2, <1>9, <3>1, ListTypes
    <2>3. ASSUME NEW x \in live PROVE refcount'[x] = Count(x)' /\ refcount'[x] > 0
      <3>1. x \in Obj /\ x # Nil /\ given[x] \in Nat
        BY ListTypes
      <3>2. RefCount(cell, {}, x) =
              RefCount(cell, {call.to}, x) + (IF cell[call.to] = x THEN 1 ELSE 0)
        BY <1>2, RefsButOne
      <3>3. RefCount(cell, {call.to}, x) \in Nat
        BY RefsFinite
      <3>4. given'[x] = given[x] + (IF call.val = x THEN 1 ELSE 0)
        BY <2>2, <3>1
      <3>5. RefCount(cell', {}, x) = RefCount(cell, {call.to}, x)
        BY <1>9, <2>1, <3>1, <3>2, <3>3
      <3>6. given'[x] \in Nat
        BY <3>1, <3>4
      <3>7. RefCount(cell', {}, x) + given'[x] =
              RefCount(cell, {call.to}, x) + given[x] + (IF call.val = x THEN 1 ELSE 0)
        BY <3>1, <3>3, <3>4, <3>5
      <3> QED
        BY <1>7, <3>6, <3>7
    <2>4. \A p \in Place : cell'[p] # Nil => cell'[p] \in live
      BY <1>2, <1>9, <2>1 DEF CountInv
    <2>5. ASSUME NEW x \in Obj \ live PROVE given'[x] = 0 /\ \A i \in Index : cell'[<<x, i>>] = Nil
      <3>1. given'[x] = given[x] + 0
        BY <1>2, <2>2, ListTypes
      <3> QED
        BY <1>9, <3>1 DEF CountInv
    <2>6. \A p \in Place : cell'[p] \in live => scope_id[cell'[p]] = -1
      BY <1>9 DEF CountInv
    <2>7. CountInv'
      BY <1>1, <1>3, <2>3, <2>4, <2>5, <2>6 DEF CountInv
    <2> QED
      BY <1>4, <1>5, <1>6, <2>7 DEF Keeps
  <1> QED
    BY <1>8, <1>9 DEF FinishStore

\* The retain of a field of a new structure and its write.
LEMMA FillFieldKeeps ==
  ASSUME Inv, NEW i \in Index, FillField(i)
  PROVE  Keeps
  <1> USE DEF Inv
  <1> DEFINE v == call.vals[i]
             q == <<call.obj, i>>
             left == [call.vals EXCEPT ![i] = Nil]
  <1>1. /\ call.op = "struct_new" /\ v # Nil /\ Adopt(v) /\ Quiet
        /\ cell' = [cell EXCEPT ![q] = v]
        /\ call' = IF left = NoValues THEN NoCall ELSE FillCall(call.obj, left)
        /\ live' = live /\ given' = given /\ frames' = frames /\ pending' = pending
        /\ walk' = walk /\ rest' = rest /\ depth' = depth /\ overflow' = overflow
    BY DEF FillField, scopeVars
  <1>2. /\ call.obj \in live /\ frames # <<>> /\ call.obj \in Obj /\ q \in Place
        /\ v \in Locals(top) \ top.args /\ cell[q] = Nil
        /\ call.vals \in [Index -> Ptr]
    BY <1>1, CallKinds, ListTypes, PlacesFinite DEF CallInv, TypeOK, CountsOK
  <1>3. /\ Len(frames) \in 1 .. Len(frames) /\ top.base = depth /\ depth \in Nat
        /\ call.op \notin Popping
    BY <1>1, <1>2, TopBase, ListTypes DEF Popping
  <1>4. v \in live /\ v \in Obj /\ Listed(v)
    <2>1. v \in Locals(frames[Len(frames)])
      BY <1>2 DEF top
    <2> QED
      BY <1>3, <2>1, LocalFacts
  <1>5. scope_id[v] = -1 \/ scope_id[v] = depth - 1
    <2>1. FrameOK(top, live, scope_id, chain)
      BY <1>3 DEF FrameInv, top
    <2>2. v \in top.own
      BY <1>2 DEF Locals
    <2> QED
      BY <1>3, <2>1, <2>2 DEF FrameOK
  <1> HIDE DEF v, q, left
  <1>6. /\ ListInv'
        /\ \A x \in live : Stays(x)
        /\ \A x \in live : scope_id[x] = -1 => scope_id'[x] = -1
        /\ v \in live /\ scope_id[v] = depth - 1 => scope_id'[v] = -1
        /\ \A x \in live : /\ refcount'[x] \in Nat /\ refcount'[x] >= refcount[x]
                           /\ ListNum(chain', x) \in Nat
                           /\ refcount'[x] - ListNum(chain', x) =
                                refcount[x] - ListNum(chain, x) + (IF x = v THEN 1 ELSE 0)
    BY <1>1, <1>4, AdoptKeeps
  <1>7. FrameInv'
    BY <1>1, <1>6, AllStay
  <1>8. \A p \in Place : cell'[p] = IF p = q THEN v ELSE cell[p]
    BY <1>1, <1>2, ListTypes
  <1>9. left \in [Index -> Ptr] /\ \A j \in Index : left[j] = IF j = i THEN Nil ELSE call.vals[j]
    BY <1>2 DEF left, Ptr
  <1>10. call' = NoCall \/ (call' = FillCall(call.obj, left) /\ call'.op = "struct_new"
                            /\ call'.obj = call.obj /\ call'.vals = left)
    BY <1>1, <1>2, <1>9, CallForms
  <1>11. /\ Written(call) = {} /\ \A x : SavedNum(call, x) = 0
         /\ Written(call') = {} /\ \A x : SavedNum(call', x) = 0 /\ call'.op # "store"
    <2>1. call.op # "store" /\ call'.op # "store"
      BY <1>1, <1>10, CallForms
    <2> QED
      BY <2>1, NoStore
  <1>12. CallInv'
    <2>1. CASE call' = NoCall
      BY <2>1, CallForms DEF CallInv
    <2>2. CASE call'.op = "struct_new" /\ call'.obj = call.obj /\ call'.vals = left
      <3>1. Quiet' /\ call'.obj \in live' /\ frames' # <<>>
        BY <1>1, <1>2, <2>2 DEF Quiet
      <3>2. ASSUME NEW j \in Index, left[j] # Nil
            PROVE  left[j] \in Locals(top) \ top.args /\ cell'[<<call.obj, j>>] = Nil
        <4>1. j # i /\ left[j] = call.vals[j]
          BY <1>9, <3>2
        <4>2. call.vals[j] \in Locals(top) \ top.args /\ cell[<<call.obj, j>>] = Nil
          BY <1>1, <3>2, <4>1 DEF CallInv
        <4>3. <<call.obj, j>> \in Place /\ <<call.obj, j>> # q
          BY <1>2, <4>1, PlacesFinite DEF q
        <4> QED
          BY <1>8, <4>1, <4>2, <4>3
      <3>3. top' = top
        BY <1>1 DEF top
      <3> QED
        BY <2>2, <3>1, <3>2, <3>3 DEF CallInv
    <2> QED
      BY <1>10, <2>1, <2>2
  <1>13. CountInv'
    <2>1. ASSUME NEW x \in live PROVE refcount'[x] = Count(x)' /\ refcount'[x] > 0
      <3>1. x \in Obj /\ x # Nil /\ refcount[x] = Count(x) /\ refcount[x] > 0
        BY ListTypes DEF CountInv
      <3>2. Count(x)' = RefCount(cell', {}, x) + ListNum(chain', x) + RestNum(rest, x)
                        + 0 + given[x] + pending[x]
        BY <1>1, <1>11 DEF Count
      <3>3. Count(x) = RefCount(cell, {}, x) + ListNum(chain, x) + RestNum(rest, x)
                       + 0 + given[x] + pending[x]
        BY <1>11 DEF Count
      <3>4. /\ RefCount(cell', {}, x) = RefCount(cell, {q}, x) + (IF v = x THEN 1 ELSE 0)
            /\ RefCount(cell, {}, x) = RefCount(cell, {q}, x) + (IF cell[q] = x THEN 1 ELSE 0)
            /\ RefCount(cell, {q}, x) \in Nat
        <4>1. cell' = Put(cell, q, v) /\ cell \in [Place -> Ptr]
          BY <1>1, ListTypes DEF Put
        <4>2. RefCount(Put(cell, q, v), {}, x) = RefCount(cell, {q}, x) + (IF v = x THEN 1 ELSE 0)
          BY <1>2, <4>1, RefsPut
        <4> QED
          BY <1>2, <4>1, <4>2, RefsButOne, RefsFinite
      <3>5. /\ ListNum(chain, x) \in Nat /\ RestNum(rest, x) \in Nat
            /\ given[x] \in Nat /\ pending[x] \in Nat /\ refcount[x] \in Nat
        BY <3>1, CountParts
      <3>6. /\ refcount'[x] \in Nat /\ refcount'[x] >= refcount[x] /\ ListNum(chain', x) \in Nat
            /\ refcount'[x] - ListNum(chain', x) =
                 refcount[x] - ListNum(chain, x) + (IF x = v THEN 1 ELSE 0)
        BY <1>6
      <3>7. RefCount(cell', {}, x) = RefCount(cell, {}, x) + (IF x = v THEN 1 ELSE 0)
            /\ RefCount(cell, {}, x) \in Nat
        BY <1>2, <3>1, <3>4
      <3>8. Count(x)' = Count(x) + ListNum(chain', x) - ListNum(chain, x) + (IF x = v THEN 1 ELSE 0)
        BY <3>2, <3>3, <3>5, <3>6, <3>7
      <3> QED
        BY <3>1, <3>5, <3>6, <3>8
    <2>2. \A p \in Place : cell'[p] # Nil => cell'[p] \in live
      BY <1>4, <1>8, <1>11 DEF CountInv
    <2>3. ASSUME NEW x \in Obj \ live PROVE given'[x] = 0 /\ \A j \in Index : cell'[<<x, j>>] = Nil
      <3>1. \A j \in Index : <<x, j>> \in Place /\ <<x, j>> # q
        BY <1>2, PlacesFinite DEF q
      <3> QED
        BY <1>1, <1>8, <3>1 DEF CountInv
    <2>4. \A p \in Place : cell'[p] \in live => scope_id'[cell'[p]] = -1
      BY <1>4, <1>5, <1>6, <1>8 DEF CountInv
    <2> QED
      BY <1>1, <1>11, <2>1, <2>2, <2>3, <2>4 DEF CountInv
  <1> QED
    BY <1>6, <1>7, <1>12, <1>13 DEF Keeps

---------------------------------------------------------------------------
\* The program.

\* What the running function holds is alive; what it obtained itself is in its own
\* scope or in none.
LEMMA TopLocal ==
  ASSUME Inv, frames # <<>>, call.op \notin Popping, NEW v \in Locals(top)
  PROVE  /\ v \in live /\ v \in Obj /\ v # Nil /\ Listed(v)
         /\ v \notin top.args => scope_id[v] = -1 \/ scope_id[v] = depth - 1
  <1> USE DEF Inv
  <1>1. /\ Len(frames) \in 1 .. Len(frames) /\ top.base = depth
    BY TopBase
  <1>2. v \in live /\ v \in Obj /\ v # Nil /\ Listed(v)
    <2>1. v \in Locals(frames[Len(frames)])
      BY DEF top
    <2> QED
      BY <1>1, <2>1, LocalFacts
  <1>3. ASSUME v \notin top.args PROVE scope_id[v] = -1 \/ scope_id[v] = depth - 1
    <2>1. FrameOK(top, live, scope_id, chain)
      BY <1>1 DEF FrameInv, top
    <2>2. v \in top.own
      BY <1>3 DEF Locals
    <2> QED
      BY <1>1, <2>1, <2>2 DEF FrameOK
  <1> QED
    BY <1>2, <1>3

\* A new object: one count, one scope.
LEMMA NewObjectKeeps ==
  ASSUME Inv, Ready, frames # <<>>, NEW o \in Obj, NEW k, NewObject(o, k), call'.op # "store"
  PROVE  ListInv' /\ FrameInv' /\ CountInv'
  <1> USE DEF Inv
  <1>1. /\ live' = live \cup {o} /\ o \notin live /\ cell' = cell /\ pending' = pending
        /\ rest' = rest /\ refcount' = [refcount EXCEPT ![o] = 1]
        /\ frames' = Grow(frames, Len(frames), o)
        /\ given' = IF depth > 0 THEN given ELSE [given EXCEPT ![o] = 1]
    BY DEF NewObject, Grow
  <1>2. /\ ListInv'
        /\ \A x \in Obj : scope_id'[x] = IF x = o THEN depth - 1 ELSE scope_id[x]
        /\ \A e \in Scope : \A x :
             x \in Range(chain'[e]) <=> x \in Range(chain[e]) \/ (x = o /\ e = depth - 1)
        /\ depth > 0 => depth - 1 \in Scope
        /\ o \notin Range(rest) /\ \A e \in Scope : o \notin Range(chain[e])
    BY NewObjectLists
  <1>3. /\ call.op \notin Popping /\ Written(call) = {} /\ \A x : SavedNum(call, x) = 0
        /\ Written(call') = {} /\ \A x : SavedNum(call', x) = 0
        /\ \A x \in Obj : pending[x] = 0
    BY ReadyFacts, NoStore
  <1>4. /\ Len(frames) \in 1 .. Len(frames) /\ Len(frames) >= 1 /\ top.base = depth /\ depth \in Nat
        /\ frames \in Seq(Frame) /\ live \subseteq Obj /\ \A e \in Scope : e # -1
    BY <1>3, TopBase, ListTypes, ScopeNumbers
  <1>5. \A x \in live : Stays(x)
    <2> TAKE x \in live
    <2>1. x \in Obj /\ x # o /\ x \in live' /\ scope_id'[x] = scope_id[x]
      BY <1>1, <1>2, <1>4
    <2>2. scope_id[x] # -1 => scope_id[x] \in Scope
      BY <2>1, ListTypes
    <2> QED
      BY <1>2, <2>1, <2>2 DEF Stays
  <1>6. FrameInv'
    <2>1. \A j \in 1 .. Len(frames) : Locals(frames[j]) \subseteq live
      BY DEF FrameInv, FrameOK
    <2>2. Fits(frames[Len(frames)], o)
      <3>1. o \in live' /\ scope_id'[o] = depth - 1 /\ frames[Len(frames)].base = depth
        BY <1>1, <1>2, <1>4 DEF top
      <3>2. depth > 0 => o \in Range(chain'[depth - 1])
        BY <1>2
      <3>3. depth > 0 \/ depth - 1 = -1
        BY <1>4
      <3> QED
        BY <3>1, <3>2, <3>3 DEF Fits
    <2> QED
      BY <1>1, <1>4, <1>5, <2>1, <2>2, FramesAfter
  <1>7. CountInv'
    <2>1. \A p \in Place : cell[p] # Nil => cell[p] \in live
      BY <1>3 DEF CountInv
    <2>2. ASSUME NEW x \in live PROVE refcount'[x] = Count(x)' /\ refcount'[x] > 0
      <3>1. x \in Obj /\ x # o /\ refcount[x] = Count(x) /\ refcount[x] > 0
        BY <1>1, ListTypes DEF CountInv
      <3>2. ListNum(chain', x) = ListNum(chain, x)
        BY <1>2, <3>1 DEF ListNum
      <3>3. given'[x] = given[x] /\ refcount'[x] = refcount[x]
        BY <1>1, <3>1, ListTypes
      <3>4. Count(x)' = Count(x)
        BY <1>1, <1>3, <3>2, <3>3 DEF Count
      <3> QED
        BY <3>1, <3>3, <3>4
    <2>3. refcount'[o] = Count(o)' /\ refcount'[o] > 0
      <3>1. refcount'[o] = 1
        BY <1>1, ListTypes
      <3>2. Count(o)' = RefCount(cell, {}, o) + ListNum(chain', o) + RestNum(rest, o)
                        + 0 + given'[o] + 0
        BY <1>1, <1>3 DEF Count
      <3>3. RefCount(cell, {}, o) = 0
        <4>1. \A p \in Place \ {} : cell[p] # o
          BY <1>1, <2>1, ListTypes
        <4> QED
          BY <4>1, RefsFinite
      <3>4. RestNum(rest, o) = 0
        BY <1>2 DEF RestNum
      <3>5. CASE depth > 0
        <4>1. ListNum(chain', o) = 1
          BY <1>2, <3>5 DEF ListNum
        <4>2. given'[o] = 0
          BY <1>1, <3>5 DEF CountInv
        <4> QED
          BY <3>1, <3>2, <3>3, <3>4, <4>1, <4>2
      <3>6. CASE ~(depth > 0)
        <4>1. \A e \in Scope : e # depth - 1
          BY <1>4, <3>6
        <4>2. ListNum(chain', o) = 0
          BY <1>2, <4>1 DEF ListNum
        <4>3. given'[o] = 1
          BY <1>1, <3>6, ListTypes
        <4> QED
          BY <3>1, <3>2, <3>3, <3>4, <4>2, <4>3
      <3> QED
        BY <3>5, <3>6
    <2>4. ASSUME NEW x \in Obj \ live' PROVE given'[x] = 0 /\ \A i \in Index : cell'[<<x, i>>] = Nil
      <3>1. x \in Obj \ live /\ x # o
        BY <1>1
      <3>2. given'[x] = given[x]
        BY <1>1, <3>1, ListTypes
      <3> QED
        BY <1>1, <3>1, <3>2 DEF CountInv
    <2>5. \A p \in Place : cell'[p] \in live' => scope_id'[cell'[p]] = -1
      <3> TAKE p \in Place
      <3> HAVE cell'[p] \in live'
      <3>1. cell[p] \in live /\ cell[p] # o /\ cell[p] \in Obj
        BY <1>1, <1>4, <2>1, ListTypes
      <3> QED
        BY <1>1, <1>2, <3>1 DEF CountInv
    <2> QED
      BY <1>1, <1>3, <2>1, <2>2, <2>3, <2>4, <2>5 DEF CountInv
  <1> QED
    BY <1>2, <1>6, <1>7

\* runtime_list_new, runtime_set_new and runtime_alloc.
LEMMA AllocKeeps ==
  ASSUME Inv, NEW o \in Obj, NEW k, Alloc(o, k)
  PROVE  Keeps
  <1>1. Ready /\ frames # <<>> /\ NewObject(o, k) /\ call' = NoCall /\ call'.op = "none"
    BY CallForms DEF Alloc, Ready
  <1>2. ListInv' /\ FrameInv' /\ CountInv'
    BY <1>1, NewObjectKeeps
  <1>3. CallInv'
    BY <1>1 DEF CallInv
  <1> QED
    BY <1>2, <1>3 DEF Keeps

\* runtime_struct_new: the fields it has to fill are empty and the values local.
LEMMA StructNewKeeps ==
  ASSUME Inv, ~StoreArgs, NEW o \in Obj, NEW vals \in [Index -> live \cup {Nil}], StructNew(o, vals)
  PROVE  Keeps
  <1> USE DEF Inv
  <1>1. /\ Ready /\ frames # <<>> /\ NewObject(o, "struct")
        /\ call' = IF vals = NoValues THEN NoCall ELSE FillCall(o, vals)
        /\ \A i \in Index : vals[i] # Nil => vals[i] \in Locals(top) \ top.args
    BY DEF StructNew, Storable
  <1>2. call' = NoCall \/ (/\ call' = FillCall(o, vals) /\ call'.op = "struct_new"
                           /\ call'.obj = o /\ call'.vals = vals)
    <2>1. vals \in [Index -> Ptr]
      BY ListTypes DEF Ptr
    <2> QED
      BY <1>1, <2>1, CallForms
  <1>3. call'.op # "store"
    BY <1>2, CallForms
  <1>4. ListInv' /\ FrameInv' /\ CountInv'
    BY <1>1, <1>3, NewObjectKeeps
  <1>5. CallInv'
    <2>1. CASE call' = NoCall
      BY <2>1, CallForms DEF CallInv
    <2>2. CASE call'.op = "struct_new" /\ call'.obj = o /\ call'.vals = vals
      <3>1. /\ live' = live \cup {o} /\ o \notin live /\ cell' = cell /\ pending' = pending
            /\ walk' = walk /\ frames' = Grow(frames, Len(frames), o)
        BY <1>1 DEF NewObject, Grow
      <3>2. frames \in Seq(Frame) /\ Len(frames) \in Nat /\ Len(frames) >= 1
        BY <1>1, ListTypes, FrameAt
      <3>3. /\ Len(Grow(frames, Len(frames), o)) = Len(frames)
            /\ \A j \in 1 .. Len(frames) :
                 /\ Grow(frames, Len(frames), o)[j].args = frames[j].args
                 /\ Grow(frames, Len(frames), o)[j].own =
                      IF j = Len(frames) THEN frames[j].own \cup {o} ELSE frames[j].own
        BY <3>2, GrowTop
      <3>4. Len(frames') = Len(frames) /\ top'.args = top.args /\ top'.own = top.own \cup {o}
        <4> DEFINE n == Len(frames)
                   g == Grow(frames, n, o)
        <4>1. frames' = g /\ Len(g) = n /\ n \in 1 .. n
          BY <3>1, <3>2, <3>3
        <4>2. g[n].args = frames[n].args /\ g[n].own = frames[n].own \cup {o}
          BY <3>3, <4>1
        <4> HIDE DEF g
        <4>3. top' = g[n] /\ top = frames[n]
          BY <4>1 DEF top
        <4> HIDE DEF n
        <4> QED
          BY <4>1, <4>2, <4>3 DEF n
      <3>5. frames' # <<>>
        BY <3>2, <3>4
      <3>6. Quiet' /\ o \in live'
        BY <1>1, <3>1, ReadyFacts DEF Quiet
      <3>7. Locals(top) \ top.args \subseteq (Locals(top) \ top.args)'
        BY <3>4 DEF Locals
      <3>8. \A i \in Index : cell'[<<o, i>>] = Nil
        BY <3>1 DEF CountInv
      <3> QED
        BY <1>1, <2>2, <3>5, <3>6, <3>7, <3>8 DEF CallInv
    <2> QED
      BY <1>2, <2>1, <2>2
  <1> QED
    BY <1>4, <1>5 DEF Keeps

\* A step that moves no object and no reference.
LEMMA CountsSame ==
  ASSUME CountInv, UNCHANGED objVars, pending' = pending, rest' = rest, chain' = chain,
         scope_id' = scope_id, Written(call') = Written(call),
         \A x : SavedNum(call', x) = SavedNum(call, x)
  PROVE  CountInv'
  <1>1. /\ live' = live /\ refcount' = refcount /\ cell' = cell /\ given' = given
    BY DEF objVars
  <1>2. \A x \in live : Count(x)' = Count(x)
    BY <1>1 DEF Count
  <1> QED
    BY <1>1, <1>2 DEF CountInv

\* The list of the scope that runtime_scope_push opens was empty already.
LEMMA CallFunctionLists ==
  ASSUME TypeOK, ListInv, NEW scoped, NEW args, CallFunction(scoped, args)
  PROVE  chain' = chain /\ heads' = heads
  <1>1. CASE depth \in Scope /\ heads' = [heads EXCEPT ![depth] = Nil]
             /\ chain' = [chain EXCEPT ![depth] = <<>>]
    <2>1. ListOf(next_scope, prev_scope, heads[depth], chain[depth])
          /\ (chain[depth] # <<>> => depth < depth)
      BY <1>1 DEF ListInv
    <2>2. chain[depth] = <<>> /\ heads[depth] = Nil
      BY <2>1, ListTypes DEF ListOf, Forward
    <2> QED
      BY <1>1, <2>2, ListTypes
  <1>2. depth \in Nat /\ FR_MAX_SCOPES \in Nat
    BY ListTypes
  <1>3. depth \in Scope \/ depth >= FR_MAX_SCOPES
    BY <1>2 DEF Scope
  <1> QED
    BY <1>1, <1>3 DEF CallFunction

\* A call: arguments are locals of the caller, older than the new scope.
LEMMA CallFunctionKeeps ==
  ASSUME Inv, NEW scoped \in BOOLEAN, NEW args \in SUBSET live, CallFunction(scoped, args)
  PROVE  Keeps
  <1> USE DEF Inv
  <1>1. /\ Ready /\ frames # <<>> /\ args \subseteq Locals(top) /\ call' = call
        /\ live' = live /\ scope_id' = scope_id /\ pending' = pending /\ walk' = walk
        /\ rest' = rest /\ next_scope' = next_scope /\ prev_scope' = prev_scope
        /\ UNCHANGED objVars
    BY DEF CallFunction, objVars, runVars
  <1>2. /\ Len(frames') = Len(frames) + 1
        /\ \A k \in 1 .. Len(frames) : frames'[k] = frames[k]
        /\ frames'[Len(frames) + 1] = NewFrame(scoped, depth', args)
        /\ depth <= depth' /\ depth' \in Nat
    <2>1. TypeOK'
      BY CallFunctionTypes
    <2>2. depth' \in Nat
      BY <2>1, ScopeFacts DEF TypeOK, StackOK
    <2> QED
      BY <2>2, CallFunctionScopes
  <1>3. chain' = chain /\ heads' = heads
    BY CallFunctionLists
  <1>4. ListInv'
    BY <1>1, <1>2, <1>3, ListsStay DEF linkVars
  <1>5. /\ Len(frames) \in 1 .. Len(frames) /\ Len(frames) >= 1 /\ top.base = depth
        /\ call.op = "none" /\ depth \in Nat
    BY <1>1, ReadyFacts, TopBase, ListTypes, ScopeNumbers
  <1>6. FrameInv'
    <2> DEFINE n == Len(frames)
               f == NewFrame(scoped, depth', args)
    <2>1. f.base = depth' /\ f.own = {} /\ f.args = args /\ Locals(f) = args
      BY DEF NewFrame, Locals
    <2> HIDE DEF f
    <2>2. FrameOK(top, live, scope_id, chain)
      BY <1>5 DEF FrameInv, top
    <2>3. FrameOK(f, live, scope_id, chain)
      <3>1. \A x \in args : x \in live /\ (scope_id[x] # -1 => x \in Range(chain[scope_id[x]])
                                             /\ scope_id[x] < depth /\ scope_id[x] \in Nat)
        BY <1>1, <1>5, <2>2, ListTypes DEF FrameOK
      <3>2. \A x \in args : scope_id[x] # -1 => scope_id[x] < depth'
        BY <1>2, <1>5, <3>1
      <3> QED
        BY <2>1, <3>1, <3>2 DEF FrameOK
    <2>4. \A k \in 1 .. n + 1 : k \in 1 .. n \/ k = n + 1
      BY <1>5
    <2>5. \A k \in 1 .. Len(frames') : FrameOK(frames'[k], live, scope_id, chain)
      BY <1>2, <2>3, <2>4 DEF FrameInv, f
    <2>6. ASSUME NEW k \in 1 .. Len(frames')
          PROVE  frames'[k].args \subseteq IF k = 1 THEN {} ELSE Locals(frames'[k - 1])
      <3>1. CASE k \in 1 .. n
        <4>1. frames[k].args \subseteq IF k = 1 THEN {} ELSE Locals(frames[k - 1])
          BY <3>1 DEF FrameInv, ArgsOK
        <4>2. k # 1 => k - 1 \in 1 .. n
          BY <1>5, <3>1
        <4> QED
          BY <1>2, <3>1, <4>1, <4>2
      <3>2. CASE k = n + 1
        <4>1. k # 1 /\ k - 1 = n /\ n \in 1 .. n
          BY <1>5, <3>2
        <4>2. frames'[k] = f /\ frames'[k - 1] = top
          BY <1>2, <3>2, <4>1 DEF f, top
        <4> QED
          BY <1>1, <2>1, <4>1, <4>2
      <3> QED
        BY <1>2, <2>4, <3>1, <3>2
    <2> QED
      BY <1>1, <1>3, <2>5, <2>6 DEF FrameInv, ArgsOK
  <1>7. CallInv'
    BY <1>1, <1>5 DEF CallInv
  <1>8. CountInv'
    BY <1>1, <1>3, CountsSame
  <1> QED
    BY <1>4, <1>6, <1>7, <1>8 DEF Keeps

\* The retain of a store.  What is stored is not an argument: it leaves the list of
\* the running function, so no scope lists what a place refers to.
LEMMA StoreCellKeeps ==
  ASSUME Inv, ~StoreArgs, NEW p \in Place, NEW v \in live \cup {Nil}, StoreCell(p, v)
  PROVE  Keeps
  <1> USE DEF Inv
  <1>1. /\ Ready /\ frames # <<>> /\ Adopt(v) /\ call' = StoreCall(p, v)
        /\ (v # Nil => v \in Locals(top) \ top.args)
        /\ pending' = IF cell[p] = Nil THEN pending ELSE [pending EXCEPT ![cell[p]] = @ + 1]
        /\ live' = live /\ cell' = cell /\ given' = given /\ frames' = frames
        /\ walk' = walk /\ rest' = rest /\ depth' = depth
    BY DEF StoreCell, Storable, scopeVars
  <1>2. /\ call.op \notin Popping /\ Written(call) = {} /\ \A x : SavedNum(call, x) = 0
        /\ walk = Nil /\ \A x \in Obj : pending[x] = 0
    BY <1>1, ReadyFacts
  <1>3. v \in live => Listed(v) /\ v # Nil /\ (scope_id[v] = -1 \/ scope_id[v] = depth - 1)
    <2>1. v \in live => v \in Locals(top) /\ v \notin top.args
      BY <1>1, ListTypes
    <2> QED
      BY <1>1, <1>2, <2>1, TopLocal
  <1>4. /\ ListInv'
        /\ \A x \in live : Stays(x)
        /\ \A x \in live : scope_id[x] = -1 => scope_id'[x] = -1
        /\ v \in live /\ scope_id[v] = depth - 1 => scope_id'[v] = -1
        /\ \A x \in live : /\ refcount'[x] \in Nat /\ refcount'[x] >= refcount[x]
                           /\ ListNum(chain', x) \in Nat
                           /\ refcount'[x] - ListNum(chain', x) =
                                refcount[x] - ListNum(chain, x) + (IF x = v THEN 1 ELSE 0)
    BY <1>1, <1>3, AdoptKeeps
  <1>5. FrameInv'
    BY <1>1, <1>4, AllStay
  <1>6. /\ call'.op = "store" /\ call'.to = p /\ call'.val = v
        /\ Written(call') = {p} /\ \A x : SavedNum(call', x) = IF x = v THEN 1 ELSE 0
    <2>1. v \in Ptr
      BY ListTypes DEF Ptr
    <2>2. call'.op = "store" /\ call'.to = p /\ call'.val = v
      BY <1>1, <2>1, CallForms
    <2> QED
      BY <2>2 DEF Written, SavedNum
  <1>7. \A x \in Obj : pending'[x] = IF x = cell[p] THEN 1 ELSE 0
    <2>1. cell[p] \in Ptr
      BY ListTypes
    <2> QED
      BY <1>1, <1>2, <2>1, ListTypes DEF Ptr
  <1>8. CallInv'
    <2>1. v # Nil => v \in live /\ scope_id'[v] = -1
      BY <1>3, <1>4
    <2>2. \A x \in Obj : pending'[x] <= IF x = cell[p] THEN 1 ELSE 0
      BY <1>7
    <2> QED
      <3>1. call'.op = "store" /\ walk' = Nil
        BY <1>1, <1>2, <1>6
      <3>2. call'.val # Nil => call'.val \in live' /\ scope_id'[call'.val] = -1
        BY <1>1, <1>6, <2>1
      <3>3. \A x \in Obj : pending'[x] <= IF x = cell'[call'.to] THEN 1 ELSE 0
        BY <1>1, <1>6, <2>2
      <3> QED
        BY <3>1, <3>2, <3>3 DEF CallInv
  <1>9. CountInv'
    <2>1. ASSUME NEW x \in live PROVE refcount'[x] = Count(x)' /\ refcount'[x] > 0
      <3>1. x \in Obj /\ refcount[x] = Count(x) /\ refcount[x] > 0
        BY ListTypes DEF CountInv
      <3>2. Count(x)' = RefCount(cell, {p}, x) + ListNum(chain', x) + RestNum(rest, x)
                        + (IF x = v THEN 1 ELSE 0) + given[x] + (IF x = cell[p] THEN 1 ELSE 0)
        BY <1>1, <1>6, <1>7, <3>1 DEF Count
      <3>3. Count(x) = RefCount(cell, {}, x) + ListNum(chain, x) + RestNum(rest, x)
                       + 0 + given[x] + 0
        BY <1>2, <3>1 DEF Count
      <3>4. /\ RefCount(cell, {}, x) = RefCount(cell, {p}, x) + (IF cell[p] = x THEN 1 ELSE 0)
            /\ RefCount(cell, {p}, x) \in Nat
        BY RefsButOne, RefsFinite
      <3>5. /\ ListNum(chain, x) \in Nat /\ RestNum(rest, x) \in Nat
            /\ given[x] \in Nat /\ refcount[x] \in Nat
        BY <3>1, CountParts
      <3>6. /\ refcount'[x] \in Nat /\ refcount'[x] >= refcount[x] /\ ListNum(chain', x) \in Nat
            /\ refcount'[x] - ListNum(chain', x) =
                 refcount[x] - ListNum(chain, x) + (IF x = v THEN 1 ELSE 0)
        BY <1>4
      <3>7. Count(x)' = Count(x) + ListNum(chain', x) - ListNum(chain, x) + (IF x = v THEN 1 ELSE 0)
        BY <3>2, <3>3, <3>4, <3>5, <3>6
      <3> QED
        BY <3>1, <3>5, <3>6, <3>7
    <2>2. \A q \in Place \ Written(call') : cell'[q] # Nil => cell'[q] \in live'
      BY <1>1, <1>2 DEF CountInv
    <2>3. \A q \in Place : cell'[q] \in live' => scope_id'[cell'[q]] = -1
      BY <1>1, <1>4 DEF CountInv
    <2> QED
      BY <1>1, <2>1, <2>2, <2>3 DEF CountInv
  <1> QED
    BY <1>4, <1>5, <1>8, <1>9 DEF Keeps

\* A load: what a place refers to is in no scope.
LEMMA LoadKeeps ==
  ASSUME Inv, NEW p \in Place, Load(p)
  PROVE  Keeps
  <1> USE DEF Inv
  <1>1. /\ Ready /\ frames # <<>> /\ cell[p] \in Obj
        /\ frames' = Grow(frames, Len(frames), cell[p]) /\ UNCHANGED <<objVars, linkVars>>
        /\ call' = call /\ pending' = pending /\ rest' = rest /\ walk' = walk /\ depth' = depth
    BY DEF Load, Grow, scopeVars, runVars
  <1>2. call.op = "none" /\ Written(call) = {}
    BY <1>1, ReadyFacts
  <1>3. /\ live' = live /\ scope_id' = scope_id /\ chain' = chain
    BY <1>1 DEF objVars, linkVars
  <1>4. ListInv'
    BY <1>1, <1>3, ListsStay, ListTypes
  <1>5. cell[p] \in live /\ scope_id[cell[p]] = -1
    BY <1>1, <1>2, ListTypes DEF CountInv
  <1>6. FrameInv'
    <2>1. frames \in Seq(Frame) /\ Len(frames) \in Nat /\ Len(frames) >= 1
      BY <1>1, ListTypes, FrameAt
    <2>2. \A k \in 1 .. Len(frames) : \A x \in Locals(frames[k]) : Stays(x)
      BY <1>3, StillThere DEF FrameInv, FrameOK
    <2>3. Fits(frames[Len(frames)], cell[p])
      BY <1>3, <1>5 DEF Fits
    <2> QED
      BY <1>1, <2>1, <2>2, <2>3, FramesAfter
  <1>7. CallInv'
    BY <1>1, <1>2 DEF CallInv
  <1>8. CountInv'
    BY <1>1, <1>3, CountsSame
  <1> QED
    BY <1>4, <1>6, <1>7, <1>8 DEF Keeps

\* runtime_list_pop: the place's reference is handed out.
LEMMA ListPopKeeps ==
  ASSUME Inv, NEW o \in live, NEW i \in Index, ListPop(o, i)
  PROVE  Keeps
  <1> USE DEF Inv
  <1> DEFINE q == <<o, i>>
             v == cell[q]
  <1>1. /\ Ready /\ frames # <<>> /\ v # Nil
        /\ cell' = [cell EXCEPT ![q] = Nil] /\ given' = [given EXCEPT ![v] = @ + 1]
        /\ (frames' = frames \/ frames' = Grow(frames, Len(frames), v))
        /\ live' = live /\ refcount' = refcount /\ UNCHANGED linkVars
        /\ call' = call /\ pending' = pending /\ rest' = rest /\ walk' = walk /\ depth' = depth
    BY DEF ListPop, Grow, scopeVars, runVars
  <1>2. /\ call.op = "none" /\ Written(call) = {} /\ \A x : SavedNum(call, x) = 0
    BY <1>1, ReadyFacts
  <1>3. scope_id' = scope_id /\ chain' = chain
    BY <1>1 DEF linkVars
  <1>4. q \in Place /\ q = <<o, i>>
    BY ListTypes, PlacesFinite
  <1> HIDE DEF q
  <1>5. v \in live /\ v \in Obj /\ scope_id[v] = -1
    BY <1>1, <1>2, <1>4, ListTypes DEF CountInv
  <1> HIDE DEF v
  <1>6. ListInv'
    BY <1>1, ListsStay, ListTypes
  <1>7. FrameInv'
    <2>1. frames \in Seq(Frame) /\ Len(frames) \in Nat /\ Len(frames) >= 1
      BY <1>1, ListTypes, FrameAt
    <2>2. \A k \in 1 .. Len(frames) : \A x \in Locals(frames[k]) : Stays(x)
      BY <1>1, <1>3, StillThere DEF FrameInv, FrameOK
    <2>3. Fits(frames[Len(frames)], v)
      BY <1>1, <1>3, <1>5 DEF Fits
    <2> QED
      BY <1>1, <1>5, <2>1, <2>2, <2>3, FramesAfter
  <1>8. CallInv'
    BY <1>1, <1>2 DEF CallInv
  <1>9. CountInv'
    <2>1. \A p \in Place : cell'[p] = IF p = q THEN Nil ELSE cell[p]
      BY <1>1, ListTypes
    <2>2. \A x \in Obj : given'[x] = given[x] + (IF x = v THEN 1 ELSE 0)
      <3>1. \A x \in Obj : given[x] \in Nat
        BY ListTypes
      <3> QED
        BY <1>1, <1>5, <3>1, ListTypes
    <2>3. ASSUME NEW x \in live PROVE refcount'[x] = Count(x)' /\ refcount'[x] > 0
      <3>1. x \in Obj /\ x # Nil /\ refcount[x] = Count(x) /\ refcount[x] > 0
        BY ListTypes DEF CountInv
      <3>2. Count(x)' = RefCount(cell', {}, x) + ListNum(chain, x) + RestNum(rest, x)
                        + 0 + given'[x] + pending[x]
        BY <1>1, <1>2, <1>3 DEF Count
      <3>3. Count(x) = RefCount(cell, {}, x) + ListNum(chain, x) + RestNum(rest, x)
                       + 0 + given[x] + pending[x]
        BY <1>2 DEF Count
      <3>4. RefCount(cell', {}, x) = RefCount(cell, {q}, x)
        <4>1. cell' = Put(cell, q, Nil) /\ cell \in [Place -> Ptr]
          BY <1>1, ListTypes DEF Put
        <4>2. RefCount(Put(cell, q, Nil), {}, x) =
                RefCount(cell, {q}, x) + (IF Nil = x THEN 1 ELSE 0)
          BY <1>4, <4>1, RefsPut
        <4> QED
          BY <3>1, <4>1, <4>2, RefsFinite
      <3>5. RefCount(cell, {}, x) = RefCount(cell, {q}, x) + (IF v = x THEN 1 ELSE 0)
        BY <1>4, RefsButOne DEF v
      <3>6. /\ ListNum(chain, x) \in Nat /\ RestNum(rest, x) \in Nat
            /\ given[x] \in Nat /\ pending[x] \in Nat /\ RefCount(cell, {q}, x) \in Nat
        BY <3>1, CountParts, RefsFinite
      <3>7. given'[x] = given[x] + (IF v = x THEN 1 ELSE 0)
        BY <2>2, <3>1
      <3>8. Count(x)' = Count(x)
        BY <3>2, <3>3, <3>4, <3>5, <3>6, <3>7
      <3> QED
        BY <1>1, <3>1, <3>8
    <2>4. \A p \in Place : cell'[p] # Nil => cell'[p] \in live
      BY <1>2, <2>1 DEF CountInv
    <2>5. ASSUME NEW x \in Obj \ live PROVE given'[x] = 0 /\ \A j \in Index : cell'[<<x, j>>] = Nil
      <3>1. given'[x] = given[x] + 0
        BY <1>5, <2>2
      <3>2. \A j \in Index : <<x, j>> \in Place
        BY PlacesFinite
      <3> QED
        BY <2>1, <3>1, <3>2 DEF CountInv
    <2>6. \A p \in Place : cell'[p] \in live => scope_id[cell'[p]] = -1
      <3>1. Nil \notin live
        BY ListTypes
      <3> QED
        BY <2>1, <3>1 DEF CountInv
    <2> QED
      BY <1>1, <1>2, <1>3, <2>3, <2>4, <2>5, <2>6 DEF CountInv
  <1> QED
    BY <1>6, <1>7, <1>8, <1>9 DEF Keeps

\* A return: the caller gets a reference, and a local that is in no younger scope.
LEMMA ReturnKeeps ==
  ASSUME Inv, NEW v \in live \cup {Nil}, Return(v)
  PROVE  Keeps
  <1> USE DEF Inv
  <1> DEFINE n == Len(frames) - 1
             up == SubSeq(frames, 1, n)
  <1>1. /\ Ready /\ frames # <<>> /\ Adopt(v) /\ (v # Nil => v \in Locals(top))
        /\ given' = IF v = Nil THEN given ELSE [given EXCEPT ![v] = @ + 1]
        /\ call' = IF top.scoped THEN PopCall ELSE NoCall
        /\ live' = live /\ cell' = cell /\ pending' = pending
        /\ walk' = walk /\ rest' = rest /\ depth' = depth
    BY DEF Return, scopeVars
  <1>2. /\ up \in Seq(Frame) /\ Len(up) = n /\ n \in Nat /\ \A k \in 1 .. n : up[k] = frames[k]
        /\ \/ frames' = up
           \/ /\ v # Nil /\ n >= 1 /\ v \notin Locals(frames[n])
              /\ frames' = Grow(up, n, v)
    BY ReturnFrames
  <1>3. /\ call.op \notin Popping /\ Written(call) = {} /\ \A x : SavedNum(call, x) = 0
    BY <1>1, ReadyFacts
  <1>4. v \in live => /\ v \in Obj /\ v # Nil /\ Listed(v) /\ v \in Locals(top)
                      /\ v \notin top.args => scope_id[v] = -1 \/ scope_id[v] = depth - 1
    <2>1. v \in live => v \in Locals(top)
      BY <1>1, ListTypes
    <2> QED
      BY <1>1, <1>3, <2>1, TopLocal
  <1>5. /\ ListInv'
        /\ \A x \in live : Stays(x)
        /\ \A x \in live : scope_id[x] = -1 => scope_id'[x] = -1
        /\ v \in live /\ scope_id[v] = depth - 1 => scope_id'[v] = -1
        /\ \A x \in live : /\ refcount'[x] \in Nat /\ refcount'[x] >= refcount[x]
                           /\ ListNum(chain', x) \in Nat
                           /\ refcount'[x] - ListNum(chain', x) =
                                refcount[x] - ListNum(chain, x) + (IF x = v THEN 1 ELSE 0)
    BY <1>1, <1>4, AdoptKeeps
  <1>6. Len(frames) \in Nat /\ n + 1 = Len(frames) /\ Len(frames) \in 1 .. Len(frames)
    BY <1>2, ScopeNumbers
  <1> HIDE DEF n, up
  <1>7. FrameInv'
    <2>1. \A k \in 1 .. n : k \in 1 .. Len(frames)
      BY <1>2, <1>6
    <2>2. \A k \in 1 .. Len(up) : \A x \in Locals(up[k]) : Stays(x)
      <3>1. \A k \in 1 .. Len(frames) : Locals(frames[k]) \subseteq live
        BY DEF FrameInv, FrameOK
      <3> QED
        BY <1>2, <1>5, <2>1, <3>1
    <2>3. ASSUME v # Nil, n >= 1, v \notin Locals(frames[n])
          PROVE  v \in Obj /\ Fits(up[n], v)
      <3>1. Len(frames) # 1 /\ Len(frames) - 1 = n
        BY <1>2, <1>6, <2>3
      <3>2. top.args \subseteq Locals(frames[n])
        BY <1>6, <3>1 DEF FrameInv, ArgsOK, top
      <3>3. v \in live /\ v \in Obj /\ scope_id'[v] = -1
        BY <1>4, <1>5, <2>3, <3>2
      <3> QED
        BY <1>1, <3>3 DEF Fits
    <2>4. Len(up) <= Len(frames)
      BY <1>2, <1>6
    <2>5. \A k \in 1 .. Len(up) : up[k] = frames[k]
      BY <1>2
    <2>6. \/ frames' = up
          \/ \E o \in Obj : /\ Len(up) >= 1 /\ frames' = Grow(up, Len(up), o)
                            /\ Fits(up[Len(up)], o)
      BY <1>2, <2>3
    <2>7. up \in Seq(Frame)
      BY <1>2
    <2> QED
      BY <2>2, <2>4, <2>5, <2>6, <2>7, FramesAfter
  <1>8. /\ call'.op # "store" /\ call'.op # "struct_new" /\ Written(call') = {}
        /\ \A x : SavedNum(call', x) = 0
    <2>1. call'.op # "store" /\ call'.op # "struct_new"
      BY <1>1, CallForms
    <2> QED
      BY <2>1, NoStore
  <1>9. CallInv'
    BY <1>8 DEF CallInv
  <1>10. CountInv'
    <2>1. \A x \in Obj : given'[x] = given[x] + (IF x = v THEN 1 ELSE 0)
      <3>1. \A x \in Obj : given[x] \in Nat /\ x # Nil
        BY ListTypes
      <3> QED
        BY <1>1, <1>4, <3>1, ListTypes
    <2>2. ASSUME NEW x \in live PROVE refcount'[x] = Count(x)' /\ refcount'[x] > 0
      <3>1. x \in Obj /\ x # Nil /\ refcount[x] = Count(x) /\ refcount[x] > 0
        BY ListTypes DEF CountInv
      <3>2. Count(x)' = RefCount(cell, {}, x) + ListNum(chain', x) + RestNum(rest, x)
                        + 0 + given'[x] + pending[x]
        BY <1>1, <1>8 DEF Count
      <3>3. Count(x) = RefCount(cell, {}, x) + ListNum(chain, x) + RestNum(rest, x)
                       + 0 + given[x] + pending[x]
        BY <1>3 DEF Count
      <3>4. /\ ListNum(chain, x) \in Nat /\ RestNum(rest, x) \in Nat /\ refcount[x] \in Nat
            /\ given[x] \in Nat /\ pending[x] \in Nat /\ RefCount(cell, {}, x) \in Nat
        BY <3>1, CountParts, RefsFinite
      <3>5. given'[x] = given[x] + (IF x = v THEN 1 ELSE 0)
        BY <2>1, <3>1
      <3>6. /\ refcount'[x] \in Nat /\ refcount'[x] >= refcount[x] /\ ListNum(chain', x) \in Nat
            /\ refcount'[x] - ListNum(chain', x) =
                 refcount[x] - ListNum(chain, x) + (IF x = v THEN 1 ELSE 0)
        BY <1>5
      <3>7. Count(x)' = Count(x) + ListNum(chain', x) - ListNum(chain, x) + (IF x = v THEN 1 ELSE 0)
        BY <3>2, <3>3, <3>4, <3>5, <3>6
      <3> QED
        BY <3>1, <3>4, <3>6, <3>7
    <2>3. ASSUME NEW x \in Obj \ live PROVE given'[x] = 0 /\ \A j \in Index : cell'[<<x, j>>] = Nil
      <3>1. given'[x] = given[x] + 0
        BY <2>1, ListTypes
      <3> QED
        BY <1>1, <3>1 DEF CountInv
    <2>4. \A p \in Place : cell'[p] \in live => scope_id'[cell'[p]] = -1
      BY <1>1, <1>5 DEF CountInv
    <2> QED
      BY <1>1, <1>3, <1>8, <2>2, <2>3, <2>4 DEF CountInv
  <1> QED
    BY <1>5, <1>7, <1>9, <1>10 DEF Keeps

\* An exception drops frames and moves no reference.
LEMMA RaiseKeeps ==
  ASSUME Inv, NEW k, Raise(k)
  PROVE  Keeps
  <1> USE DEF Inv
  <1>1. /\ Ready /\ k \in 1 .. Len(frames) /\ frames' = SubSeq(frames, 1, k) /\ call' = UnwindCall
        /\ UNCHANGED <<objVars, linkVars>> /\ pending' = pending /\ rest' = rest
        /\ walk' = walk /\ depth' = depth
    BY DEF Raise, scopeVars
  <1>2. /\ live' = live /\ scope_id' = scope_id /\ chain' = chain
    BY <1>1 DEF objVars, linkVars
  <1>3. ListInv'
    BY <1>1, <1>2, ListsStay, ListTypes
  <1>4. /\ Len(frames) \in Nat /\ k \in 0 .. Len(frames) /\ k \in Nat /\ frames \in Seq(Frame)
    BY <1>1, ScopeNumbers, ListTypes
  <1>5. /\ frames' \in Seq(Frame) /\ Len(frames') = k /\ \A j \in 1 .. k : frames'[j] = frames[j]
    BY <1>1, <1>4, PrefixOf
  <1>6. FrameInv'
    <2>1. \A j \in 1 .. Len(frames) : \A x \in Locals(frames[j]) : Stays(x)
      BY <1>2, StillThere DEF FrameInv, FrameOK
    <2>2. \A j \in 1 .. k : j \in 1 .. Len(frames)
      BY <1>4
    <2>3. \A j \in 1 .. k : FrameOK(frames'[j], live', scope_id', chain')
      BY <1>2, <1>5, <2>2 DEF FrameInv
    <2>4. ASSUME NEW j \in 1 .. k
          PROVE  frames'[j].args \subseteq IF j = 1 THEN {} ELSE Locals(frames'[j - 1])
      <3>1. frames[j].args \subseteq IF j = 1 THEN {} ELSE Locals(frames[j - 1])
        BY <2>2 DEF FrameInv, ArgsOK
      <3>2. j # 1 => j - 1 \in 1 .. k
        BY <1>4
      <3> QED
        BY <1>5, <3>1, <3>2
    <2> QED
      BY <1>5, <2>3, <2>4 DEF FrameInv, ArgsOK
  <1>7. /\ call.op = "none" /\ call'.op = "scope_unwind"
    BY <1>1, ReadyFacts, CallForms
  <1>8. CallInv'
    BY <1>7 DEF CallInv
  <1>9. CountInv'
    <2>1. /\ Written(call') = Written(call) /\ \A x : SavedNum(call', x) = SavedNum(call, x)
      BY <1>7, NoStore
    <2> QED
      BY <1>1, <1>2, <2>1, CountsSame
  <1> QED
    BY <1>3, <1>6, <1>8, <1>9 DEF Keeps

---------------------------------------------------------------------------
\* The invariant and what follows from it.

\* main has its scope and no object.
LEMMA InvInit ==
  Init => Inv
  <1> SUFFICES ASSUME Init PROVE Inv
    OBVIOUS
  <1>1. TypeOK /\ ScopeInv
    BY TypesInit, ScopeInit
  <1>2. /\ live = {} /\ walk = Nil /\ rest = <<>> /\ call = NoCall
        /\ frames = <<NewFrame(TRUE, 1, {})>>
        /\ \A d \in Scope : heads[d] = Nil /\ chain[d] = <<>>
        /\ \A p \in Place : cell[p] = Nil
        /\ \A o \in Obj : given[o] = 0
    BY DEF Init
  <1>3. \A x : x \notin Range(<<>>)
    <2>1. <<>> \in Seq(Obj) /\ Len(<<>>) = 0
      OBVIOUS
    <2>2. \A x : x \in Range(<<>>) <=> \E i \in 1 .. Len(<<>>) : <<>>[i] = x
      BY <2>1, SeqObj
    <2> QED
      BY <2>1, <2>2
  <1>4. ListInv
    <2>1. ListOf(next_scope, prev_scope, Nil, <<>>)
      BY DEF ListOf, Forward, Backward, Distinct
    <2> QED
      BY <1>2, <1>3, <2>1 DEF ListInv
  <1>5. FrameInv
    <2> DEFINE f == NewFrame(TRUE, 1, {})
    <2>1. Locals(f) = {} /\ f.own = {} /\ f.args = {}
      BY DEF NewFrame, Locals
    <2> HIDE DEF f
    <2>2. Len(frames) = 1 /\ frames[1] = f
      BY <1>2 DEF f
    <2>3. \A k \in 1 .. Len(frames) : k = 1
      BY <2>2
    <2>4. ArgsOK(frames)
      BY <2>1, <2>2, <2>3 DEF ArgsOK
    <2>5. FrameOK(f, live, scope_id, chain)
      BY <2>1 DEF FrameOK
    <2> QED
      BY <2>2, <2>3, <2>4, <2>5 DEF FrameInv
  <1>6. CallInv
    BY <1>2, CallForms DEF CallInv
  <1>7. CountInv
    <2>1. \A x \in Obj : \A i \in Index : <<x, i>> \in Place
      BY PlacesFinite
    <2> QED
      BY <1>2, <2>1 DEF CountInv
  <1> QED
    BY <1>1, <1>4, <1>5, <1>6, <1>7 DEF Inv

\* Every action keeps the invariant, unless an argument is stored or an exception
\* is caught beyond the last scope.
LEMMA InvStep ==
  ASSUME ~StoreArgs, ~CatchDeep, Inv, [Next]_vars
  PROVE  Inv'
  <1>1. TypeOK' /\ ScopeInv'
    BY TypesStep, ScopeStep DEF Inv
  <1>2. Keeps
    <2>1. ASSUME NEW scoped \in BOOLEAN, NEW args \in SUBSET live, CallFunction(scoped, args)
          PROVE  Keeps
      BY <2>1, CallFunctionKeeps
    <2>2. ASSUME NEW o \in Obj, NEW k \in {"list", "raw"}, Alloc(o, k) PROVE Keeps
      BY <2>2, AllocKeeps
    <2>3. ASSUME NEW o \in Obj, NEW vals \in [Index -> live \cup {Nil}], StructNew(o, vals)
          PROVE  Keeps
      BY <2>3, StructNewKeeps
    <2>4. ASSUME NEW p \in Place, NEW v \in live \cup {Nil}, StoreCell(p, v) PROVE Keeps
      BY <2>4, StoreCellKeeps
    <2>5. ASSUME NEW p \in Place, Load(p) PROVE Keeps
      BY <2>5, LoadKeeps
    <2>6. ASSUME NEW o \in live, NEW i \in Index, ListPop(o, i) PROVE Keeps
      BY <2>6, ListPopKeeps
    <2>7. ASSUME NEW v \in live \cup {Nil}, Return(v) PROVE Keeps
      BY <2>7, ReturnKeeps
    <2>8. ASSUME NEW k \in 1 .. MaxFrames, Raise(k) PROVE Keeps
      BY <2>8, RaiseKeeps
    <2>9. ASSUME NEW o \in Obj, Release(o) PROVE Keeps
      BY <2>9, ReleaseKeeps
    <2>10. ASSUME NEW o \in Obj, ReleaseLast(o) PROVE Keeps
      BY <2>10, DieKeeps
    <2>11. CASE WalkScope
      BY <2>11, WalkKeeps
    <2>12. CASE PopScope
      BY <2>12, PopScopeKeeps
    <2>13. CASE UnwindScope
      BY <2>13, UnwindScopeKeeps
    <2>14. CASE FinishStore
      BY <2>14, FinishStoreKeeps
    <2>15. ASSUME NEW i \in Index, FillField(i) PROVE Keeps
      BY <2>15, FillFieldKeeps
    <2>16. CASE UNCHANGED vars
      <3>1. /\ UNCHANGED <<objVars, linkVars>> /\ depth' = depth /\ frames' = frames
            /\ pending' = pending /\ walk' = walk /\ rest' = rest /\ call' = call
        BY <2>16 DEF vars, objVars, linkVars
      <3>2. /\ live' = live /\ scope_id' = scope_id /\ chain' = chain /\ cell' = cell
        BY <3>1 DEF objVars, linkVars
      <3>3. ListInv'
        BY <3>1, <3>2, ListsStay, ListTypes DEF Inv
      <3>4. FrameInv'
        BY <3>1, <3>2, StillThere, AllStay DEF Inv
      <3>5. CallInv'
        BY <3>1, <3>2 DEF Inv, CallInv, Quiet, top
      <3>6. CountInv'
        BY <3>1, <3>2, CountsSame DEF Inv
      <3> QED
        BY <3>3, <3>4, <3>5, <3>6 DEF Keeps
    <2> QED
      BY <2>1, <2>2, <2>3, <2>4, <2>5, <2>6, <2>7, <2>8, <2>9, <2>10, <2>11, <2>12, <2>13,
         <2>14, <2>15, <2>16 DEF Next, Program, Runtime, Exit
  <1> QED
    BY <1>1, <1>2 DEF Inv, Keeps

\* The count in a header is always the number of owners: neither a leak nor an
\* early free, whatever the program, its objects and its depth of calls, if it
\* stores no argument and catches no exception beyond the last scope.
THEOREM CountsStayExact == ~StoreArgs /\ ~CatchDeep /\ Spec => []RcExact
  <1> SUFFICES ASSUME ~StoreArgs, ~CatchDeep PROVE Spec => []RcExact
    OBVIOUS
  <1>1. Init => Inv
    BY InvInit
  <1>2. Inv /\ [Next]_vars => Inv'
    BY InvStep
  <1>3. Inv => RcExact
    BY CountsFollow DEF Inv
  <1> QED
    BY <1>1, <1>2, <1>3, PTL DEF Spec

\* No global, field or element ever refers to a freed object.
THEOREM NoCellDangles == ~StoreArgs /\ ~CatchDeep /\ Spec => []NoDanglingCell
  <1> SUFFICES ASSUME ~StoreArgs, ~CatchDeep PROVE Spec => []NoDanglingCell
    OBVIOUS
  <1>1. Init => Inv
    BY InvInit
  <1>2. Inv /\ [Next]_vars => Inv'
    BY InvStep
  <1>3. Inv => NoDanglingCell
    BY CountsFollow DEF Inv
  <1> QED
    BY <1>1, <1>2, <1>3, PTL DEF Spec

\* The intrusive scope lists are well formed: each holds what its scope owns, in
\* both directions, and runtime_scope_pop visits exactly that.
THEOREM ListsStayLinked == ~StoreArgs /\ ~CatchDeep /\ Spec => []ListsMatch
  <1> SUFFICES ASSUME ~StoreArgs, ~CatchDeep PROVE Spec => []ListsMatch
    OBVIOUS
  <1>1. Init => Inv
    BY InvInit
  <1>2. Inv /\ [Next]_vars => Inv'
    BY InvStep
  <1>3. Inv => ListsMatch
    BY ListsFollow DEF Inv
  <1> QED
    BY <1>1, <1>2, <1>3, PTL DEF Spec

\* After main has returned only a place or a caller can still hold an object.
THEOREM ExitIsClean == ~StoreArgs /\ ~CatchDeep /\ Spec => []CleanExit
  <1> SUFFICES ASSUME ~StoreArgs, ~CatchDeep PROVE Spec => []CleanExit
    OBVIOUS
  <1>1. Init => Inv
    BY InvInit
  <1>2. Inv /\ [Next]_vars => Inv'
    BY InvStep
  <1>3. ASSUME Inv PROVE CleanExit
    <2> SUFFICES ASSUME Ready, frames = <<>>, NEW x \in live, Owned(x) = {}
                 PROVE  given[x] > 0
      BY DEF CleanExit
    <2> USE DEF Inv
    <2>1. /\ call.op \notin Popping /\ walk = Nil /\ pending[x] = 0
          /\ \A y : SavedNum(call, y) = 0
      BY <1>3, ListTypes, ReadyFacts
    <2>2. depth = 0
      <3>1. {k \in 1 .. 0 : frames[k].scoped} = {}
        OBVIOUS
      <3>2. ScopedIn(frames, Len(frames)) = 0
        BY <3>1, FS_EmptySet DEF ScopedIn
      <3> QED
        BY <1>3, <2>1, <3>2, ScopeNumbers DEF ScopeInv
    <2>3. ListNum(chain, x) = 0
      <3>1. ASSUME NEW d \in Scope, x \in Range(chain[d]) PROVE FALSE
        <4>1. chain[d] \in Seq(Obj) /\ d \in Nat
          BY <1>3, ListTypes
        <4>2. chain[d] # <<>>
          <5>1. \E i \in 1 .. Len(chain[d]) : chain[d][i] = x
            BY <3>1, <4>1, SeqObj
          <5>2. Len(chain[d]) # 0
            BY <5>1, <4>1, SeqObj
          <5> QED
            BY <4>1, <5>2, SeqObj
        <4> QED
          BY <1>3, <2>2, <4>1, <4>2 DEF ListInv
      <3> QED
        BY <3>1 DEF ListNum
    <2>4. RestNum(rest, x) = 0
      <3>1. rest \in Seq(Obj) /\ ListOf(next_scope, prev_scope, walk, rest)
        BY <1>3, ListTypes DEF ListInv
      <3>2. rest = <<>>
        <4> SUFFICES ASSUME rest # <<>> PROVE FALSE
          OBVIOUS
        <4>1. walk \in Range(rest)
          BY <3>1, HeadInside
        <4> QED
          BY <1>3, <2>1, <3>1, <4>1, SeqObj, ListTypes
      <3>3. Len(rest) = 0 /\ (x \in Range(rest) => \E i \in 1 .. Len(rest) : rest[i] = x)
        BY <3>1, <3>2, SeqObj
      <3>4. x \notin Range(rest)
        BY <3>3
      <3> QED
        BY <3>4 DEF RestNum
    <2>5. RefCount(cell, Written(call), x) = 0
      <3>1. \A p \in Place \ Written(call) : cell[p] # x
        BY DEF Owned, Overwritten, Written
      <3> QED
        BY <3>1, RefsFinite
    <2>6. x \in Obj /\ refcount[x] = Count(x) /\ refcount[x] > 0
      BY <1>3, ListTypes DEF CountInv
    <2>7. refcount[x] = 0 + 0 + 0 + 0 + given[x] + 0
      BY <2>1, <2>3, <2>4, <2>5, <2>6 DEF Count
    <2>8. given[x] \in Nat
      BY <1>3, <2>6, ListTypes
    <2> QED
      BY <2>6, <2>7, <2>8
  <1> QED
    BY <1>1, <1>2, <1>3, PTL DEF Spec

\* Only the release of the last reference frees, and then no place, no scope and
\* no caller owns the object.
THEOREM OnlyUnownedDie == ~StoreArgs /\ ~CatchDeep /\ Spec => FreedOnlyWhenUnowned
  <1> DEFINE A == \A o \in live \ live' :
                    Owned(o) = {} /\ ListedIn(o) = {} /\ InTransit(o) = 0 /\ given[o] = 0
  <1> SUFFICES ASSUME ~StoreArgs, ~CatchDeep PROVE Spec => [][A]_vars
    BY DEF FreedOnlyWhenUnowned
  <1>1. Init => Inv
    BY InvInit
  <1>2. Inv /\ [Next]_vars => Inv'
    BY InvStep
  <1>3. ASSUME Inv, Next PROVE A
    <2> SUFFICES ASSUME NEW o \in live, o \notin live'
                 PROVE  Owned(o) = {} /\ ListedIn(o) = {} /\ InTransit(o) = 0 /\ given[o] = 0
      OBVIOUS
    <2>1. PICK x \in Obj : ReleaseLast(x)
      BY <1>3 DEF Next, Program, Runtime, Exit, CallFunction, Alloc, StructNew, NewObject,
         StoreCell, Load, ListPop, Return, Raise, Release, WalkScope, PopScope, UnwindScope,
         FinishStore, FillField, objVars, vars
    <2>2. x = o /\ pending[o] > 0 /\ refcount[o] <= 1
      BY <2>1 DEF ReleaseLast, Die
    <2>3. /\ given[o] = 0 /\ SavedNum(call, o) = 0
          /\ o \notin Range(rest) /\ \A d \in Scope : o \notin Range(chain[d])
          /\ \A p \in Place \ Written(call) : cell[p] # o
      BY <1>3, <2>2, LastReference DEF Inv
    <2>4. Owned(o) = {} /\ ListedIn(o) = {}
      BY <2>3 DEF Owned, Overwritten, Written, ListedIn
    <2>5. InTransit(o) = 0
      BY <2>3 DEF InTransit, SavedNum
    <2> QED
      BY <2>3, <2>4, <2>5
  <1>4. Inv /\ [Next]_vars => [A]_vars
    BY <1>3
  <1> HIDE DEF A
  <1> QED
    BY <1>1, <1>2, <1>4, PTL DEF Spec

---------------------------------------------------------------------------
\* Why the runtime returns.

\* What runtime_struct_new has still to copy.
ToFill(c) == IF c.op = "struct_new" THEN {i \in Index : c.vals[i] # Nil} ELSE {}

\* The runtime function in progress comes nearer to its end, or goes on with
\* fewer scopes, or frees an object, or leaves a shorter list to walk, or fewer
\* releases to make: each matters only as long as those before it stay.
Advances ==
  \/ call # NoCall /\ call' = NoCall
  \/ ToFill(call') \subseteq ToFill(call) /\ ToFill(call') # ToFill(call)
  \/ call' = call /\ overflow' < overflow
  \/ UNCHANGED <<call, overflow>> /\ depth' < depth
  \/ UNCHANGED <<call, overflow, depth>> /\ live' \subseteq live /\ live' # live
  \/ UNCHANGED <<call, overflow, depth, live>> /\ Len(rest') < Len(rest)
  \/ /\ UNCHANGED <<call, overflow, depth, live, rest>>
     /\ \A o \in Obj : pending'[o] <= pending[o]
     /\ \E o \in Obj : pending'[o] < pending[o]

\* Popping and unwinding.
LEMMA ScopesAdvance ==
  ASSUME TypeOK, ScopeInv, PopScope \/ UnwindScope
  PROVE  Advances
  <1>1. CASE call' = NoCall
    BY <1>1 DEF PopScope, UnwindScope, PopCall, UnwindCall, NoCall, Advances
  <1>2. CASE call' # NoCall
    <2>1. /\ UnwindScope /\ call' = call /\ call = UnwindCall /\ ScopePop
          /\ overflow > 0 \/ depth > top.base
      BY <1>2 DEF PopScope, UnwindScope
    <2>2. overflow \in Nat /\ depth \in Nat
      BY ScopeNumbers
    <2>3. top.base \in Nat
      <3>1. call.op = "scope_unwind"
        BY <2>1 DEF UnwindCall
      <3>2. frames # <<>> /\ frames \in Seq(Frame)
        BY <3>1 DEF ScopeInv, TypeOK, StackOK
      <3>3. top \in Frame
        BY <3>2 DEF top
      <3> QED
        BY <3>3 DEF Frame
    <2>4. CASE overflow > 0
      BY <2>1, <2>2, <2>4 DEF ScopePop, Advances
    <2>5. CASE ~(overflow > 0)
      <3>1. depth > 0 /\ overflow = 0
        BY <2>1, <2>2, <2>3, <2>5
      <3>2. depth' = depth - 1 /\ overflow' = overflow
        BY <2>1, <3>1 DEF ScopePop
      <3> QED
        BY <2>1, <2>2, <3>2 DEF Advances
    <2> QED
      BY <2>4, <2>5
  <1> QED
    BY <1>1, <1>2

\* One release of a cascade: of an object that lives on, or of the last
\* reference.
LEMMA ReleaseAdvances ==
  ASSUME TypeOK, NEW o \in Obj, Release(o) \/ ReleaseLast(o)
  PROVE  Advances
  <1>1. pending \in [Obj -> Nat]
    BY DEF TypeOK, CountsOK
  <1>2. CASE Release(o)
    <2>1. /\ UNCHANGED <<call, overflow, depth, live, rest>>
          /\ pending[o] > 0 /\ pending' = [pending EXCEPT ![o] = @ - 1]
      BY <1>2 DEF Release, scopeVars
    <2>2. \A x \in Obj : pending'[x] <= pending[x]
      BY <1>1, <2>1
    <2>3. pending'[o] < pending[o]
      BY <1>1, <2>1
    <2> QED
      BY <2>1, <2>2, <2>3 DEF Advances
  <1>3. CASE ReleaseLast(o)
    <2>1. UNCHANGED <<call, overflow, depth>> /\ o \in live /\ live' = live \ {o}
      BY <1>3 DEF ReleaseLast, Die, scopeVars
    <2> QED
      BY <2>1 DEF Advances
  <1> QED
    BY <1>2, <1>3

\* One object further down the list of a popped scope: without the links being
\* what the scope owns (ListInv) the cursor could run in a circle.
LEMMA WalkAdvances ==
  ASSUME TypeOK, ListInv, WalkScope
  PROVE  Advances
  <1>1. rest # <<>>
    BY WalkLists DEF Range
  <1>2. rest \in Seq(Obj)
    BY DEF TypeOK, ListsOK
  <1>3. UNCHANGED <<call, overflow, depth, live>> /\ rest' = Tail(rest)
    BY <1>1 DEF WalkScope, scopeVars, objVars
  <1>4. Len(Tail(rest)) < Len(rest)
    BY <1>1, <1>2
  <1> QED
    BY <1>3, <1>4 DEF Advances

\* One field of a new struct.
LEMMA FillAdvances ==
  ASSUME TypeOK, NEW i \in Index, FillField(i)
  PROVE  Advances
  <1>1. CASE call' = NoCall
    BY <1>1 DEF FillField, NoCall, Advances
  <1>2. CASE call' # NoCall
    <2>1. /\ call.op = "struct_new" /\ call.vals[i] # Nil
          /\ call' = FillCall(call.obj, [call.vals EXCEPT ![i] = Nil])
      BY <1>2 DEF FillField
    <2>2. call.vals \in [Index -> Ptr]
      BY <2>1 DEF TypeOK, CountsOK, Calls, NoCall, PopCall, UnwindCall, StoreCall, FillCall
    <2>3. ToFill(call') = ToFill(call) \ {i} /\ i \in ToFill(call)
      BY <2>1, <2>2 DEF ToFill, FillCall
    <2> QED
      BY <2>3 DEF Advances
  <1> QED
    BY <1>1, <1>2

\* Every step the runtime makes before it returns to the program brings it
\* nearer to the return: pops, unwinding and cascades, over shared and cyclic
\* data, make no step for ever.
THEOREM RuntimeAdvances == ~StoreArgs /\ ~CatchDeep /\ Spec => [][Runtime => Advances]_vars
  <1> SUFFICES ASSUME ~StoreArgs, ~CatchDeep PROVE Spec => [][Runtime => Advances]_vars
    OBVIOUS
  <1>1. Init => Inv
    BY InvInit
  <1>2. Inv /\ [Next]_vars => Inv'
    BY InvStep
  <1>3. ASSUME Inv, Runtime PROVE Advances
    <2>1. ASSUME NEW o \in Obj, Release(o) \/ ReleaseLast(o) PROVE Advances
      BY <1>3, <2>1, ReleaseAdvances DEF Inv
    <2>2. CASE WalkScope
      BY <1>3, <2>2, WalkAdvances DEF Inv
    <2>3. CASE PopScope \/ UnwindScope
      BY <1>3, <2>3, ScopesAdvance DEF Inv
    <2>4. CASE FinishStore
      BY <2>4 DEF FinishStore, NoCall, Advances
    <2>5. ASSUME NEW i \in Index, FillField(i) PROVE Advances
      BY <1>3, <2>5, FillAdvances DEF Inv
    <2> QED
      BY <1>3, <2>1, <2>2, <2>3, <2>4, <2>5 DEF Runtime
  <1>4. Inv /\ [Next]_vars => [Runtime => Advances]_vars
    BY <1>3
  <1> QED
    BY <1>1, <1>2, <1>4, PTL DEF Spec

---------------------------------------------------------------------------
\* The runtime seen through owners only.

\* What the places and scopes are to the abstract specification: a store has
\* happened once its value is retained.
Seen ==
  [p \in Place |->
     IF call.op = "store" THEN
       IF p = call.to /\ p \in Global \cup (live \X Index) THEN call.val ELSE cell[p]
     ELSE cell[p]]
SeenScopes == [d \in Scope |-> Range(chain[d])]

\* Outside a store the places are seen as they are.
LEMMA SeenAtRest ==
  ASSUME TypeOK
  PROVE  call.op # "store" => Seen = cell
  <1>1. cell = [p \in Place |-> cell[p]]
    BY ListTypes
  <1> QED
    BY <1>1 DEF Seen

\* Nothing the abstract specification sees has changed.
LEMMA SeenSame ==
  ASSUME live' = live, given' = given, Seen' = Seen, SeenScopes' = SeenScopes
  PROVE  UNCHANGED Owners!vars
  BY DEF Owners!vars, Seen, SeenScopes

\* A step that moves neither objects nor lists is not seen.
LEMMA SeenStays ==
  ASSUME UNCHANGED objVars, call' = call, chain' = chain
  PROVE  UNCHANGED Owners!vars
  <1>1. live' = live /\ given' = given /\ cell' = cell
    BY DEF objVars
  <1>2. Seen' = Seen /\ SeenScopes' = SeenScopes
    BY <1>1 DEF Seen, SeenScopes
  <1> QED
    BY <1>1, <1>2, SeenSame

\* runtime_scope_forget takes the reference of one scope over.
LEMMA Taken ==
  ASSUME TypeOK, ListInv, NEW v, v \in live => Listed(v), Adopt(v),
         live' = live, depth' = depth, walk' = walk, rest' = rest
  PROVE  Owners!TakeOver(v)
  <1>1. /\ Forgets(v) => v \in live /\ scope_id[v] \in Scope
        /\ \A e \in Scope : \A x :
             x \in Range(chain'[e]) <=> x \in Range(chain[e]) /\ ~(x = v /\ Forgets(v))
    BY AdoptEffect
  <1>2. CASE ~Forgets(v)
    <2>1. \A e \in Scope : Range(chain'[e]) = Range(chain[e])
      BY <1>1, <1>2
    <2>2. SeenScopes' = SeenScopes
      BY <2>1 DEF SeenScopes
    <2> QED
      BY <2>2 DEF Owners!TakeOver, SeenScopes
  <1>3. CASE Forgets(v)
    <2> DEFINE d == scope_id[v]
    <2>1. d \in Scope /\ v \in Range(chain[d])
      BY <1>1, <1>3, ListTypes DEF Listed
    <2>2. \A e \in Scope : e # d => v \notin Range(chain[e])
      BY <2>1 DEF ListInv
    <2>3. \A e \in Scope :
            Range(chain'[e]) = IF e = d THEN Range(chain[e]) \ {v} ELSE Range(chain[e])
      <3> TAKE e \in Scope
      <3>1. Range(chain'[e]) = Range(chain[e]) \ {v}
        BY <1>1, <1>3
      <3> QED
        BY <2>2, <3>1
    <2> HIDE DEF d
    <2>4. v \in SeenScopes[d] /\ SeenScopes' = [SeenScopes EXCEPT ![d] = @ \ {v}]
      BY <2>1, <2>3 DEF SeenScopes
    <2>5. \E e \in Scope : v \in SeenScopes[e] /\ SeenScopes' = [SeenScopes EXCEPT ![e] = @ \ {v}]
      BY <2>1, <2>4
    <2> QED
      BY <2>5 DEF Owners!TakeOver, SeenScopes
  <1> QED
    BY <1>2, <1>3

---------------------------------------------------------------------------
\* One lemma per action that the abstract specification can see.

\* A place seen to change is a Put.
LEMMA PutSeen ==
  ASSUME NEW p \in Global \cup (live \X Index), NEW v \in live \cup {Nil},
         Seen' = [Seen EXCEPT ![p] = v], Owners!TakeOver(v), live' = live, given' = given
  PROVE  Owners!Put(p, v)
  <1> QED
    BY DEF Owners!Put, Owners!Usable, Seen

\* A reference seen to be handed out, from a place or anew, is a Hand.
LEMMA HandSeen ==
  ASSUME NEW v \in live, given' = [given EXCEPT ![v] = @ + 1], Owners!TakeOver(v), live' = live,
         \/ Seen' = Seen
         \/ \E p \in Global \cup (live \X Index) : Seen[p] = v /\ Seen' = [Seen EXCEPT ![p] = Nil]
  PROVE  Owners!Hand(v)
  BY DEF Owners!Hand, Owners!Usable, Seen

\* fr_obj_alloc.
LEMMA NewObjectSeen ==
  ASSUME Inv, Ready, frames # <<>>, top.scoped, NEW o \in Obj, NEW k, NewObject(o, k),
         call'.op # "store"
  PROVE  \E d \in Scope : Owners!Create(o, d)
  <1> USE DEF Inv
  <1>1. /\ live' = live \cup {o} /\ o \notin live /\ cell' = cell
        /\ given' = IF depth > 0 THEN given ELSE [given EXCEPT ![o] = 1]
    BY DEF NewObject
  <1>2. /\ depth > 0 => depth - 1 \in Scope
        /\ \A e \in Scope : \A x :
             x \in Range(chain'[e]) <=> x \in Range(chain[e]) \/ (x = o /\ e = depth - 1)
    BY NewObjectLists
  <1>3. call.op # "store" /\ depth > 0
    BY ReadyFacts, TopBase
  <1> DEFINE d == depth - 1
  <1>4. d \in Scope /\ given' = given
    BY <1>1, <1>2, <1>3
  <1>5. \A e \in Scope :
          Range(chain'[e]) = IF e = d THEN Range(chain[e]) \cup {o} ELSE Range(chain[e])
    BY <1>2
  <1>6. SeenScopes' = [SeenScopes EXCEPT ![d] = @ \cup {o}]
    BY <1>4, <1>5 DEF SeenScopes
  <1>7. Seen' = Seen
    BY <1>1, <1>3 DEF Seen
  <1> HIDE DEF d
  <1>8. Owners!Create(o, d)
    BY <1>1, <1>4, <1>6, <1>7 DEF Owners!Create, Seen, SeenScopes
  <1> QED
    BY <1>4, <1>8

\* The retain of a store: from here on the place is seen to hold the new value.
LEMMA StoreCellSeen ==
  ASSUME Inv, NEW p \in Place, NEW v \in live \cup {Nil}, StoreCell(p, v)
  PROVE  Owners!Put(p, v)
  <1> USE DEF Inv
  <1>1. /\ Ready /\ frames # <<>> /\ Adopt(v) /\ call' = StoreCall(p, v)
        /\ (v # Nil => v \in Locals(top)) /\ p \in Reachable
        /\ live' = live /\ cell' = cell /\ given' = given
        /\ walk' = walk /\ rest' = rest /\ depth' = depth
    BY DEF StoreCell, Storable, scopeVars
  <1>2. call.op # "store" /\ call.op \notin Popping
    BY <1>1, ReadyFacts
  <1>3. v \in live => Listed(v)
    <2>1. v \in live => v \in Locals(top)
      BY <1>1, ListTypes
    <2> QED
      BY <1>1, <1>2, <2>1, TopLocal
  <1>4. p \in Global \cup (live \X Index)
    <2>1. Locals(top) \subseteq live
      BY <1>1, <1>2, TopLocal
    <2> QED
      BY <1>1, <2>1 DEF Reachable
  <1>5. Seen' = [Seen EXCEPT ![p] = v]
    <2>1. call'.op = "store" /\ call'.to = p /\ call'.val = v
      <3>1. v \in Ptr
        BY ListTypes DEF Ptr
      <3> QED
        BY <1>1, <3>1, CallForms
    <2>2. Seen = cell /\ cell \in [Place -> Ptr]
      BY <1>2, SeenAtRest, ListTypes
    <2>3. Seen' = [q \in Place |-> IF q = p THEN v ELSE cell[q]]
      BY <1>1, <1>4, <2>1 DEF Seen
    <2> QED
      BY <2>2, <2>3
  <1>6. Owners!TakeOver(v)
    BY <1>1, <1>3, Taken
  <1> QED
    BY <1>1, <1>4, <1>5, <1>6, PutSeen

\* runtime_list_pop: the reference of the element goes to the caller.
LEMMA ListPopSeen ==
  ASSUME Inv, NEW o \in live, NEW i \in Index, ListPop(o, i)
  PROVE  \E x \in Obj : Owners!Hand(x)
  <1> USE DEF Inv
  <1>1. PICK q \in Place : q = <<o, i>>
    BY ListTypes, PlacesFinite
  <1>2. /\ Ready /\ cell[q] # Nil
        /\ cell' = [cell EXCEPT ![q] = Nil] /\ given' = [given EXCEPT ![cell[q]] = @ + 1]
        /\ live' = live /\ UNCHANGED linkVars /\ call' = call
    BY <1>1 DEF ListPop, runVars
  <1>3. call.op # "store" /\ call'.op # "store" /\ Written(call) = {}
    BY <1>2, ReadyFacts
  <1>4. q \in Global \cup (live \X Index)
    BY <1>1
  <1>5. PICK v \in live : v = cell[q]
    BY <1>2, <1>3 DEF CountInv
  <1>6. Seen = cell /\ Seen' = [Seen EXCEPT ![q] = Nil]
    <2>1. Seen = cell /\ cell \in [Place -> Ptr]
      BY <1>3, SeenAtRest, ListTypes
    <2>2. Seen' = [p \in Place |-> cell'[p]]
      BY <1>3 DEF Seen
    <2>3. Seen' = cell'
      BY <1>2, <2>1, <2>2
    <2> QED
      BY <1>2, <2>1, <2>3
  <1>7. Owners!TakeOver(v)
    BY <1>2 DEF Owners!TakeOver, linkVars
  <1>8. Seen[q] = v /\ given' = [given EXCEPT ![v] = @ + 1]
    BY <1>2, <1>5, <1>6
  <1>9. \E p \in Global \cup (live \X Index) : Seen[p] = v /\ Seen' = [Seen EXCEPT ![p] = Nil]
    BY <1>4, <1>6, <1>8
  <1>10. Owners!Hand(v)
    BY <1>2, <1>7, <1>8, <1>9, HandSeen
  <1> QED
    BY <1>5, <1>10, ListTypes

\* RETURN: the caller takes the value over, or nothing is returned.
LEMMA ReturnSeen ==
  ASSUME Inv, NEW v \in live \cup {Nil}, Return(v)
  PROVE  UNCHANGED Owners!vars \/ \E x \in Obj : Owners!Hand(x)
  <1> USE DEF Inv
  <1>1. /\ Ready /\ frames # <<>> /\ Adopt(v) /\ (v # Nil => v \in Locals(top))
        /\ given' = IF v = Nil THEN given ELSE [given EXCEPT ![v] = @ + 1]
        /\ call' = IF top.scoped THEN PopCall ELSE NoCall
        /\ live' = live /\ cell' = cell /\ walk' = walk /\ rest' = rest /\ depth' = depth
    BY DEF Return, scopeVars
  <1>2. call.op # "store" /\ call'.op # "store" /\ call.op \notin Popping
    BY <1>1, ReadyFacts, CallForms
  <1>3. Seen' = Seen
    BY <1>1, <1>2 DEF Seen
  <1>4. CASE v = Nil
    <2>1. v \notin live
      BY <1>4, ListTypes
    <2>2. chain' = chain
      BY <1>1, <2>1 DEF Adopt, Forgets, linkVars
    <2>3. SeenScopes' = SeenScopes
      BY <2>2 DEF SeenScopes
    <2> QED
      BY <1>1, <1>3, <1>4, <2>3, SeenSame
  <1>5. CASE v # Nil
    <2>1. v \in live /\ v \in Obj /\ Listed(v)
      BY <1>1, <1>2, <1>5, TopLocal
    <2>2. Owners!TakeOver(v)
      BY <1>1, <2>1, Taken
    <2>3. Owners!Hand(v)
      BY <1>1, <1>3, <1>5, <2>1, <2>2, HandSeen
    <2> QED
      BY <2>1, <2>3
  <1> QED
    BY <1>4, <1>5

\* runtime_struct_new: a field takes its value over.
LEMMA FillFieldSeen ==
  ASSUME Inv, NEW i \in Index, FillField(i)
  PROVE  \E p \in Place, v \in Obj \cup {Nil} : Owners!Put(p, v)
  <1> USE DEF Inv
  <1>1. /\ call.op = "struct_new" /\ call.obj \in live /\ call.obj \in Obj /\ frames # <<>>
        /\ call.vals \in [Index -> Ptr] /\ call.op \notin Popping
    BY CallKinds, ListTypes DEF FillField, CallInv, TypeOK, CountsOK, Popping
  <1>2. PICK q \in Place : q = <<call.obj, i>>
    BY <1>1, PlacesFinite
  <1>3. PICK v : v = call.vals[i]
    OBVIOUS
  <1>4. /\ v # Nil /\ Adopt(v) /\ cell' = [cell EXCEPT ![q] = v]
        /\ live' = live /\ given' = given /\ walk' = walk /\ rest' = rest /\ depth' = depth
        /\ call' = LET left == [call.vals EXCEPT ![i] = Nil] IN
                   IF left = NoValues THEN NoCall ELSE FillCall(call.obj, left)
    BY <1>2, <1>3 DEF FillField, scopeVars
  <1>5. v \in live /\ Listed(v)
    <2>1. v \in Locals(top)
      BY <1>1, <1>3, <1>4 DEF CallInv
    <2> QED
      BY <1>1, <2>1, TopLocal
  <1>6. call.op # "store" /\ call'.op # "store"
    <2>1. [call.vals EXCEPT ![i] = Nil] \in [Index -> Ptr]
      BY <1>1 DEF Ptr
    <2> QED
      BY <1>1, <1>4, <2>1, CallForms
  <1>7. q \in Global \cup (live \X Index)
    BY <1>1, <1>2
  <1>8. Seen' = [Seen EXCEPT ![q] = v]
    <2>1. Seen = cell /\ cell \in [Place -> Ptr]
      BY <1>6, SeenAtRest, ListTypes
    <2>2. Seen' = [p \in Place |-> cell'[p]]
      BY <1>6 DEF Seen
    <2> QED
      BY <1>4, <2>1, <2>2
  <1>9. Owners!TakeOver(v)
    BY <1>4, <1>5, Taken
  <1>10. Owners!Put(q, v)
    BY <1>4, <1>5, <1>7, <1>8, <1>9, PutSeen
  <1> QED
    BY <1>5, <1>10, ListTypes

\* The write itself shows nothing new, unless the container is gone: then the
\* reference is nobody's.
LEMMA FinishStoreSeen ==
  ASSUME Inv, FinishStore
  PROVE  UNCHANGED Owners!vars \/ \E x \in Obj : Owners!Hand(x)
  <1> USE DEF Inv
  <1>1. /\ call.op = "store" /\ call' = NoCall /\ call'.op # "store"
        /\ live' = live /\ UNCHANGED linkVars
    BY CallForms DEF FinishStore
  <1>2. call.to \in Place /\ (call.val # Nil => call.val \in live)
    BY <1>1, CallKinds DEF TypeOK, CountsOK, CallInv
  <1>3. Seen' = [p \in Place |-> cell'[p]] /\ cell \in [Place -> Ptr] /\ SeenScopes' = SeenScopes
    BY <1>1, ListTypes DEF Seen, SeenScopes, linkVars
  <1>4. CASE /\ call.to \in Global \cup (live \X Index)
             /\ cell' = [cell EXCEPT ![call.to] = call.val]
             /\ UNCHANGED given
    <2>1. Seen = [p \in Place |-> IF p = call.to THEN call.val ELSE cell[p]]
      BY <1>1, <1>4 DEF Seen
    <2>2. \A p \in Place : cell'[p] = IF p = call.to THEN call.val ELSE cell[p]
      BY <1>3, <1>4
    <2>3. Seen' = Seen
      BY <1>3, <2>1, <2>2
    <2> QED
      BY <1>1, <1>3, <1>4, <2>3, SeenSame
  <1>5. CASE /\ call.to \notin Global \cup (live \X Index)
             /\ given' = IF call.val = Nil THEN given ELSE [given EXCEPT ![call.val] = @ + 1]
             /\ UNCHANGED cell
    <2>1. Seen = [p \in Place |-> cell[p]]
      BY <1>1, <1>5 DEF Seen
    <2>2. Seen' = Seen
      BY <1>3, <1>5, <2>1
    <2>3. CASE call.val = Nil
      BY <1>1, <1>3, <1>5, <2>2, <2>3, SeenSame
    <2>4. CASE call.val # Nil
      <3>1. PICK v \in live : v = call.val
        BY <1>2, <2>4
      <3>2. Owners!TakeOver(v)
        BY <1>3 DEF Owners!TakeOver, SeenScopes
      <3>3. given' = [given EXCEPT ![v] = @ + 1]
        BY <1>5, <2>4, <3>1
      <3>4. Owners!Hand(v)
        BY <1>1, <2>2, <3>2, <3>3, HandSeen
      <3> QED
        BY <3>4, ListTypes
    <2> QED
      BY <2>3, <2>4
  <1> QED
    BY <1>4, <1>5 DEF FinishStore

\* The abstract specification has the same cardinalities.
LEMMA SameCardinality ==
  ASSUME NEW S
  PROVE  Owners!Cardinality(S) = Cardinality(S)
  BY DEF Owners!Cardinality, Cardinality

\* runtime_release of the last reference: nothing owns the object any more.  The
\* references of a raw cell are lost, those of other objects go with them.
LEMMA DieSeen ==
  ASSUME Inv, NEW o \in Obj, ReleaseLast(o)
  PROVE  Owners!Reclaim(o)
  <1> USE DEF Inv
  <1>1. o \in live /\ pending[o] > 0 /\ refcount[o] <= 1 /\ Die(o)
    BY DEF ReleaseLast
  <1>2. /\ given[o] = 0 /\ SavedNum(call, o) = 0
        /\ \A d \in Scope : o \notin Range(chain[d])
        /\ \A p \in Place \ Written(call) : cell[p] # o
    BY <1>1, LastReference
  <1>3. /\ live' = live \ {o} /\ chain' = chain /\ call' = call /\ cell' = Cleared(cell, o)
        /\ given' = [x \in Obj |-> IF x = o THEN 0
              ELSE given[x] + (IF kind[o] = "raw" /\ x \in live THEN Held(o, x) ELSE 0)]
    BY <1>1 DEF Die, Cleared
  <1>4. /\ PlacesOf(o) = {o} \X Index /\ PlacesOf(o) \subseteq Place
        /\ cell \in [Place -> Ptr] /\ o # Nil
    BY PlacesFinite, ListTypes DEF PlacesOf
  <1>5. \A p \in Place : Seen[p] = IF p \in Written(call) /\ p \in Global \cup (live \X Index)
                                   THEN call.val ELSE cell[p]
    BY DEF Seen, Written
  <1>6. ASSUME NEW p \in Place PROVE Seen[p] # o
    <2>1. CASE p \in Written(call) /\ p \in Global \cup (live \X Index)
      BY <1>2, <1>5, <2>1 DEF Written, SavedNum
    <2>2. CASE p \in Written(call) /\ p \notin Global \cup (live \X Index)
      <3>1. PICK x \in Obj, i \in Index : p = <<x, i>>
        BY <2>2 DEF Place
      <3>2. x \notin live
        BY <2>2, <3>1
      <3>3. cell[p] = Nil
        BY <3>1, <3>2 DEF CountInv
      <3> QED
        BY <1>4, <1>5, <2>2, <3>3
    <2>3. CASE p \notin Written(call)
      BY <1>2, <1>5, <2>3
    <2> QED
      BY <2>1, <2>2, <2>3
  <1>7. ~Owners!Owned(o)
    <2>1. \A d \in Scope : o \notin SeenScopes[d]
      BY <1>2 DEF SeenScopes
    <2>2. Owners!Owned(o) <=> \/ \E p \in Place : Seen[p] = o
                              \/ \E d \in Scope : o \in SeenScopes[d]
                              \/ given[o] > 0
      BY DEF Owners!Owned, Owners!Place, Place, Seen, SeenScopes
    <2>3. ~(given[o] > 0)
      BY <1>2
    <2> QED
      BY <1>6, <2>1, <2>2, <2>3
  <1>8. Seen' = [p \in Place |-> IF p \in {o} \X Index THEN Nil ELSE Seen[p]]
    <2>1. Seen' = [p \in Place |-> IF p \in Written(call) /\ p \in Global \cup (live' \X Index)
                                   THEN call.val ELSE cell'[p]]
      BY <1>3 DEF Seen, Written
    <2>2. ASSUME NEW p \in Place
          PROVE  (IF p \in Written(call) /\ p \in Global \cup (live' \X Index)
                  THEN call.val ELSE cell'[p]) = IF p \in {o} \X Index THEN Nil ELSE Seen[p]
      <3>1. CASE p \in {o} \X Index
        <4>1. p \notin Global \cup (live' \X Index)
          BY <1>3, <3>1, PlacesFinite
        <4>2. cell'[p] = Nil
          BY <1>3, <1>4, <3>1 DEF Cleared
        <4> QED
          BY <3>1, <4>1, <4>2
      <3>2. CASE p \notin {o} \X Index
        <4>1. p \in Global \cup (live' \X Index) <=> p \in Global \cup (live \X Index)
          BY <1>3, <3>2
        <4>2. cell'[p] = cell[p]
          BY <1>3, <1>4, <3>2 DEF Cleared
        <4> QED
          BY <1>5, <3>2, <4>1, <4>2
      <3> QED
        BY <3>1, <3>2
    <2> QED
      BY <2>1, <2>2
  <1> DEFINE Lost == IF kind[o] = "raw" THEN PlacesOf(o) \ Written(call) ELSE {}
  <1>9. ASSUME NEW x \in Obj
        PROVE  given'[x] = given[x] +
                 IF x \in live' THEN Cardinality({p \in Lost : Seen[p] = x}) ELSE 0
    <2>1. given[x] \in Nat
      BY ListTypes
    <2>2. CASE x \notin live'
      <3>1. x = o \/ x \notin live
        BY <1>3, <2>2
      <3> QED
        BY <1>2, <1>3, <2>1, <2>2, <3>1
    <2>3. CASE x \in live' /\ kind[o] # "raw"
      <3>1. {p \in Lost : Seen[p] = x} = {}
        BY <2>3
      <3>2. Cardinality({p \in Lost : Seen[p] = x}) = 0
        BY <3>1, FS_EmptySet
      <3>3. x # o
        BY <1>3, <2>3
      <3> QED
        BY <1>3, <2>1, <2>3, <3>2, <3>3
    <2>4. CASE x \in live' /\ kind[o] = "raw"
      <3>1. x \in live /\ x # o
        BY <1>3, <2>4
      <3>2. \A p \in Written(call) : cell[p] # x
        <4> SUFFICES ASSUME call.op = "store", cell[call.to] = x PROVE FALSE
          BY DEF Written
        <4>1. pending[o] <= IF o = x THEN 1 ELSE 0
          BY <3>1 DEF CallInv
        <4> QED
          BY <1>1, <3>1, <4>1, ListTypes
      <3>3. {p \in Lost : Seen[p] = x} = {p \in PlacesOf(o) : cell[p] = x}
        <4>1. \A p \in PlacesOf(o) : p \in Place
          BY <1>4
        <4>2. \A p \in PlacesOf(o) \ Written(call) : Seen[p] = cell[p]
          BY <1>5, <4>1
        <4> QED
          BY <2>4, <3>2, <4>2
      <3>4. Cardinality({p \in Lost : Seen[p] = x}) = Held(o, x)
        BY <3>3 DEF Held
      <3>5. given'[x] = given[x] + Held(o, x)
        BY <1>3, <2>4, <3>1
      <3> QED
        BY <2>4, <3>4, <3>5
    <2> QED
      BY <2>2, <2>3, <2>4
  <1>10. Lost \in SUBSET ({o} \X Index)
    BY <1>4
  <1> HIDE DEF Lost
  <1>11. given' = [x \in Obj |-> given[x] +
                    IF x \in live' THEN Cardinality({p \in Lost : Seen[p] = x}) ELSE 0]
    <2>1. given' = [x \in Obj |-> given'[x]]
      BY <1>3
    <2> QED
      BY <1>9, <2>1
  <1>12. \E lost \in SUBSET ({o} \X Index) :
           given' = [x \in Obj |-> given[x] +
                      IF x \in live' THEN Cardinality({p \in lost : Seen[p] = x}) ELSE 0]
    BY <1>10, <1>11
  <1>13. SeenScopes' = SeenScopes
    BY <1>3 DEF SeenScopes
  <1>14. Owners!Reclaim(o) <=>
           /\ o \in live /\ ~Owners!Owned(o)
           /\ live' = live \ {o}
           /\ Seen' = [p \in Place |-> IF p \in {o} \X Index THEN Nil ELSE Seen[p]]
           /\ \E lost \in SUBSET ({o} \X Index) :
                given' = [x \in Obj |-> given[x] +
                  IF x \in live' THEN Owners!Cardinality({p \in lost : Seen[p] = x}) ELSE 0]
           /\ SeenScopes' = SeenScopes
    BY DEF Owners!Reclaim, Owners!Place, Place, Seen, SeenScopes
  <1> QED
    BY <1>1, <1>3, <1>7, <1>8, <1>12, <1>13, <1>14, SameCardinality

\* The list of a scope becomes the one to be walked: the scope owns nothing.
LEMMA ScopePopSeen ==
  ASSUME Inv, ScopePop, Quiet, UNCHANGED <<objVars, scope_id, next_scope, prev_scope>>,
         call.op # "store", call'.op # "store"
  PROVE  UNCHANGED Owners!vars \/ \E d \in Scope : Owners!CloseScope(d)
  <1> USE DEF Inv
  <1>1. live' = live /\ given' = given /\ cell' = cell /\ Seen' = Seen
    BY DEF objVars, Seen
  <1>2. \/ chain' = chain
        \/ /\ depth - 1 \in Scope
           /\ \A e \in Scope : chain'[e] = IF e = depth - 1 THEN <<>> ELSE chain[e]
    <2>1. walk = Nil /\ UNCHANGED <<next_scope, prev_scope, scope_id, live>>
      BY <1>1 DEF Quiet
    <2> QED
      BY <2>1, ScopePopLists
  <1>3. CASE chain' = chain
    <2>1. SeenScopes' = SeenScopes
      BY <1>3 DEF SeenScopes
    <2> QED
      BY <1>1, <2>1, SeenSame
  <1>4. ASSUME NEW d \in Scope, \A e \in Scope : chain'[e] = IF e = d THEN <<>> ELSE chain[e]
        PROVE  Owners!CloseScope(d)
    <2>1. Range(<<>>) = {}
      BY DEF Range
    <2>2. SeenScopes' = [SeenScopes EXCEPT ![d] = {}]
      BY <1>4, <2>1 DEF SeenScopes
    <2> QED
      BY <1>1, <2>2 DEF Owners!CloseScope, Seen, SeenScopes
  <1> QED
    BY <1>2, <1>3, <1>4

\* Every step is seen as a step of the abstract specification or not at all.
LEMMA StepSeen ==
  ASSUME Inv, [Next]_vars
  PROVE  [Owners!Next]_Owners!vars
  <1> USE DEF Inv
  <1>1. ASSUME NEW scoped \in BOOLEAN, NEW args \in SUBSET live, CallFunction(scoped, args)
        PROVE  UNCHANGED Owners!vars
    <2>1. chain' = chain
      BY <1>1, CallFunctionLists
    <2>2. UNCHANGED objVars /\ call' = call
      BY <1>1 DEF CallFunction, runVars
    <2> QED
      BY <2>1, <2>2, SeenStays
  <1>2. ASSUME NEW o \in Obj, NEW k \in {"list", "raw"}, Alloc(o, k)
        PROVE  \E x \in Obj, d \in Scope : Owners!Create(x, d)
    <2>1. /\ Ready /\ frames # <<>> /\ top.scoped /\ NewObject(o, k) /\ call'.op # "store"
      BY <1>2, ReadyFacts DEF Alloc
    <2> QED
      BY <2>1, NewObjectSeen
  <1>3. ASSUME NEW o \in Obj, NEW vals \in [Index -> live \cup {Nil}], StructNew(o, vals)
        PROVE  \E x \in Obj, d \in Scope : Owners!Create(x, d)
    <2>1. /\ Ready /\ frames # <<>> /\ top.scoped /\ NewObject(o, "struct")
          /\ call' = IF vals = NoValues THEN NoCall ELSE FillCall(o, vals)
      BY <1>3 DEF StructNew
    <2>2. vals \in [Index -> Ptr]
      BY ListTypes DEF Ptr
    <2>3. call'.op # "store"
      BY <2>1, <2>2, CallForms
    <2> QED
      BY <2>1, <2>3, NewObjectSeen
  <1>4. ASSUME NEW p \in Place, NEW v \in live \cup {Nil}, StoreCell(p, v)
        PROVE  \E q \in Place, x \in Obj \cup {Nil} : Owners!Put(q, x)
    BY <1>4, StoreCellSeen, ListTypes
  <1>5. ASSUME NEW p \in Place, Load(p) PROVE UNCHANGED Owners!vars
    <2>1. UNCHANGED objVars /\ chain' = chain /\ call' = call
      BY <1>5 DEF Load, linkVars, runVars
    <2> QED
      BY <2>1, SeenStays
  <1>6. ASSUME NEW o \in live, NEW i \in Index, ListPop(o, i) PROVE \E x \in Obj : Owners!Hand(x)
    BY <1>6, ListPopSeen
  <1>7. ASSUME NEW v \in live \cup {Nil}, Return(v)
        PROVE  UNCHANGED Owners!vars \/ \E x \in Obj : Owners!Hand(x)
    BY <1>7, ReturnSeen
  <1>8. ASSUME NEW k \in 1 .. MaxFrames, Raise(k) PROVE UNCHANGED Owners!vars
    <2>1. /\ live' = live /\ given' = given /\ cell' = cell /\ chain' = chain
          /\ call.op # "store" /\ call'.op # "store"
      BY <1>8, ReadyFacts, CallForms DEF Raise, objVars, linkVars
    <2> QED
      BY <2>1, SeenSame DEF Seen, SeenScopes
  <1>9. ASSUME NEW o \in Obj, Release(o) PROVE UNCHANGED Owners!vars
    <2>1. live' = live /\ given' = given /\ cell' = cell /\ chain' = chain /\ call' = call
      BY <1>9 DEF Release, linkVars
    <2> QED
      BY <2>1, SeenSame DEF Seen, SeenScopes
  <1>10. ASSUME NEW o \in Obj, ReleaseLast(o) PROVE Owners!Reclaim(o)
    BY <1>10, DieSeen
  <1>11. CASE WalkScope
    <2>1. UNCHANGED objVars /\ chain' = chain /\ call' = call
      BY <1>11 DEF WalkScope
    <2>2. UNCHANGED Owners!vars
      BY <2>1, SeenStays
    <2> QED
      BY <2>2
  <1>12. CASE PopScope
    <2>1. /\ Quiet /\ ScopePop /\ UNCHANGED <<objVars, scope_id, next_scope, prev_scope>>
          /\ call.op # "store" /\ call'.op # "store"
      BY <1>12, CallForms DEF PopScope
    <2>2. UNCHANGED Owners!vars \/ \E d \in Scope : Owners!CloseScope(d)
      BY <2>1, ScopePopSeen
    <2> QED
      BY <2>2 DEF Owners!Next
  <1>13. CASE UnwindScope
    <2>1. /\ Quiet /\ UNCHANGED <<objVars, scope_id, next_scope, prev_scope>>
          /\ call.op # "store" /\ call'.op # "store"
          /\ ScopePop \/ chain' = chain
      BY <1>13, CallForms DEF UnwindScope
    <2>2. ASSUME ScopePop PROVE UNCHANGED Owners!vars \/ \E d \in Scope : Owners!CloseScope(d)
      BY <2>1, <2>2, ScopePopSeen
    <2>3. ASSUME chain' = chain PROVE UNCHANGED Owners!vars
      <3>1. live' = live /\ given' = given /\ cell' = cell
        BY <2>1 DEF objVars
      <3>2. UNCHANGED Owners!vars
        BY <2>1, <2>3, <3>1, SeenSame DEF Seen, SeenScopes
      <3> QED
        BY <3>2
    <2>4. UNCHANGED Owners!vars \/ \E d \in Scope : Owners!CloseScope(d)
      BY <2>1, <2>2, <2>3
    <2> QED
      BY <2>4 DEF Owners!Next
  <1>14. CASE FinishStore
    <2>1. UNCHANGED Owners!vars \/ \E x \in Obj : Owners!Hand(x)
      BY <1>14, FinishStoreSeen
    <2> QED
      BY <2>1 DEF Owners!Next
  <1>15. ASSUME NEW i \in Index, FillField(i)
         PROVE  \E q \in Place, x \in Obj \cup {Nil} : Owners!Put(q, x)
    BY <1>15, FillFieldSeen
  <1>16. CASE UNCHANGED vars
    <2>1. UNCHANGED objVars /\ chain' = chain /\ call' = call
      BY <1>16 DEF vars, objVars
    <2>2. UNCHANGED Owners!vars
      BY <2>1, SeenStays
    <2> QED
      BY <2>2
  <1>17. /\ (\E x \in Obj, d \in Scope : Owners!Create(x, d)) => Owners!Next
         /\ (\E q \in Place, x \in Obj \cup {Nil} : Owners!Put(q, x)) => Owners!Next
         /\ (\E x \in Obj : Owners!Hand(x) \/ Owners!Reclaim(x)) => Owners!Next
    BY DEF Owners!Next, Owners!Place, Place
  <1> HIDE DEF Inv
  <1>18. CASE Program
    <2>1. UNCHANGED Owners!vars \/ Owners!Next
      BY <1>1, <1>2, <1>3, <1>4, <1>5, <1>6, <1>7, <1>8, <1>17, <1>18 DEF Program
    <2> QED
      BY <2>1
  <1>19. CASE Runtime
    <2>1. UNCHANGED Owners!vars \/ Owners!Next
      BY <1>9, <1>10, <1>11, <1>12, <1>13, <1>14, <1>15, <1>17, <1>19 DEF Runtime
    <2> QED
      BY <2>1
  <1> QED
    BY <1>16, <1>18, <1>19 DEF Next, Exit

\* Seen through the owners alone every step of the runtime is a step that
\* memory_and_pointers.md allows: an object appears in one scope, ownership moves
\* only with a store or a hand-over, and it is reclaimed only without an owner.
THEOREM ObjectsFollowOwnership ==
  ~StoreArgs /\ ~CatchDeep /\ Spec => Owners!Init /\ [][Owners!Next]_Owners!vars
  <1> SUFFICES ASSUME ~StoreArgs, ~CatchDeep
               PROVE  Spec => Owners!Init /\ [][Owners!Next]_Owners!vars
    OBVIOUS
  <1>1. Init => Inv
    BY InvInit
  <1>2. Inv /\ [Next]_vars => Inv'
    BY InvStep
  <1>3. Init => Owners!Init
    <2> SUFFICES ASSUME Init PROVE Owners!Init
      OBVIOUS
    <2>1. /\ live = {} /\ given = [o \in Obj |-> 0]
          /\ cell = [p \in Place |-> Nil] /\ call.op # "store"
          /\ chain = [d \in Scope |-> <<>>]
      BY CallForms DEF Init
    <2>2. Seen = [p \in Place |-> Nil]
      BY <2>1 DEF Seen
    <2>3. SeenScopes = [d \in Scope |-> {}]
      <3>1. Range(<<>>) = {}
        BY DEF Range
      <3> QED
        BY <2>1, <3>1 DEF SeenScopes
    <2> QED
      BY <2>1, <2>2, <2>3 DEF Owners!Init, Owners!Place, Place, Seen, SeenScopes
  <1>4. Inv /\ [Next]_vars => [Owners!Next]_Owners!vars
    BY StepSeen
  <1> QED
    BY <1>1, <1>2, <1>3, <1>4, PTL DEF Spec

=============================================================================
