----------------------- MODULE NativeExceptionsProofs -----------------------
(***************************************************************************)
(* Programs that raise to their innermost try body and do not return from  *)
(* inside a try: the handler stack follows the try statements, whatever    *)
(* the depth of the call stack, the number of handlers and the exception   *)
(* types, and control goes where the structured language sends it.         *)
(***************************************************************************)
EXTENDS NativeExceptions, DataLemmas

\* The programs the theorems are about.
Structured == Matched /\ ~ReturnInTry

\* Try statements are nested as the frames they are in.
Nested ==
  Running =>
    /\ \A k \in DOMAIN tries : tries[k].frame <= depth
    /\ \A j, k \in DOMAIN tries : j <= k => tries[j].frame <= tries[k].frame

HandlersInv == TypeOK /\ HandlersMatch /\ Nested

LEMMA ExceptionsInit == NativeInit => HandlersInv
  <1> SUFFICES ASSUME NativeInit PROVE HandlersInv
    OBVIOUS
  <1>1. TypeOK
    BY StructuredAssumption DEF NativeInit, Init, TypeOK
  <1>2. HandlersMatch /\ Nested
    BY DEF NativeInit, Init, HandlersMatch, Nested
  <1> QED
    BY <1>1, <1>2 DEF HandlersInv

\* runtime_exception_push on a stack that is not full.
LEMMA BeginKeeps ==
  ASSUME HandlersInv, NEW e \in Exc, EnterTry(e), handlers' = Append(handlers, Handler(e)),
         Len(handlers) < MAX_EXCEPTION_HANDLERS
  PROVE  HandlersInv'
  <1> DEFINE n == Len(tries)
  <1>1. /\ tries \in Seq(Try) /\ handlers \in Seq(HandlerSet)
        /\ depth \in 1 .. MaxFrames /\ n \in Nat
        /\ MaxFrames \in Nat \ {0} /\ MAX_EXCEPTION_HANDLERS \in Nat
    <2>1. tries \in Seq(Try) /\ handlers \in Seq(HandlerSet) /\ depth \in 1 .. MaxFrames
      BY DEF HandlersInv, TypeOK
    <2> QED
      BY <2>1, StructuredAssumption
  <1>2. InBody(e) \in Try /\ InBody(e).frame = depth /\ InBody(e).exc = e
    BY <1>1 DEF InBody, Try
  <1>3. /\ Handler(e) \in HandlerSet /\ Handler(e).exc = e /\ Handler(e).frame = depth
        /\ Handler(e).at = tries /\ Handler(e).returned = FALSE
    BY <1>1 DEF Handler, HandlerSet
  <1>4. /\ tries' \in Seq(Try) /\ Len(tries') = n + 1 /\ tries'[n + 1] = InBody(e)
        /\ \A i \in 1 .. n : tries'[i] = tries[i]
    BY <1>1, <1>2, AppendOf DEF EnterTry
  <1>5. /\ Running /\ Running' /\ depth' = depth /\ outcome' = outcome
        /\ Len(handlers) = n /\ n < MAX_EXCEPTION_HANDLERS
    BY DEF EnterTry, Running, HandlersInv, HandlersMatch
  <1>6. /\ handlers' \in Seq(HandlerSet) /\ Len(handlers') = n + 1 /\ handlers'[n + 1] = Handler(e)
        /\ \A i \in 1 .. n : handlers'[i] = handlers[i]
    BY <1>1, <1>3, <1>5, AppendOf
  <1>7. TypeOK'
    <2>1. outcome \in {"running", "returned", "uncaught", "too deep", "lost"}
      BY DEF HandlersInv, TypeOK
    <2>2. n + 1 <= MAX_EXCEPTION_HANDLERS
      BY <1>1, <1>5
    <2>3. Len(tries') <= MAX_EXCEPTION_HANDLERS /\ Len(handlers') <= MAX_EXCEPTION_HANDLERS
      BY <1>4, <1>6, <2>2
    <2>4. tries' \in Seq(Try) /\ handlers' \in Seq(HandlerSet) /\ depth' \in 1 .. MaxFrames
      BY <1>1, <1>4, <1>5, <1>6
    <2>5. outcome' \in {"running", "returned", "uncaught", "too deep", "lost"}
      BY <1>5, <2>1
    <2> QED
      BY <2>3, <2>4, <2>5 DEF TypeOK
  <1>8. \A i \in 1 .. n : SubSeq(tries', 1, i - 1) = SubSeq(tries, 1, i - 1)
    <2> TAKE i \in 1 .. n
    <2>1. i - 1 \in Nat /\ i - 1 <= Len(tries) /\ i - 1 <= Len(tries')
      BY <1>1, <1>4
    <2> QED
      BY <1>1, <1>4, <2>1, PrefixSame
  <1>9. SubSeq(tries', 1, n) = tries
    BY <1>1, <1>4, PrefixSame, SubSeqFull
  <1>10. HandlersMatch'
    <2>1. ASSUME NEW i \in DOMAIN handlers'
          PROVE  /\ handlers'[i].exc = tries'[i].exc /\ handlers'[i].frame = tries'[i].frame
                 /\ handlers'[i].at = SubSeq(tries', 1, i - 1)
                 /\ ~handlers'[i].returned
      <3>1. i \in 1 .. n \/ i = n + 1
        <4>1. DOMAIN handlers' = 1 .. n + 1
          BY <1>6
        <4> QED
          BY <1>1, <4>1
      <3>2. CASE i \in 1 .. n
        BY <1>1, <1>4, <1>5, <1>6, <1>8, <3>2 DEF HandlersInv, HandlersMatch
      <3>3. CASE i = n + 1
        <4>1. i - 1 = n
          BY <1>1, <3>3
        <4> QED
          BY <1>2, <1>3, <1>4, <1>6, <1>9, <3>3, <4>1
      <3> QED
        BY <3>1, <3>2, <3>3
    <2> QED
      BY <1>4, <1>6, <2>1 DEF HandlersMatch
  <1>11. Nested'
    <2>1. \A k \in 1 .. n : tries[k].frame <= depth
      BY <1>1, <1>5 DEF HandlersInv, Nested
    <2>2. \A j, k \in 1 .. n : j <= k => tries[j].frame <= tries[k].frame
      BY <1>1, <1>5 DEF HandlersInv, Nested
    <2>3. DOMAIN tries' = 1 .. n + 1 /\ tries'[n + 1].frame = depth
      BY <1>2, <1>4
    <2> DEFINE f == [k \in 1 .. n + 1 |-> tries'[k].frame]
    <2>4. f[n + 1] = depth /\ \A k \in 1 .. n : f[k] = tries[k].frame
      BY <1>1, <1>4, <2>3
    <2>5. \A k \in 1 .. n + 1 : k \in 1 .. n \/ k = n + 1
      BY <1>1
    <2>6. depth <= depth
      BY <1>1
    <2>7. \A k \in 1 .. n + 1 : tries'[k].frame <= depth
      BY <2>1, <2>4, <2>5, <2>6
    <2>8. \A j \in 1 .. n : ~(n + 1 <= j)
      BY <1>1
    <2>9. \A j, k \in 1 .. n + 1 : j <= k => tries'[j].frame <= tries'[k].frame
      BY <2>1, <2>2, <2>3, <2>4, <2>5, <2>6, <2>8
    <2> QED
      BY <1>5, <2>3, <2>7, <2>9 DEF Nested
  <1> QED
    BY <1>7, <1>10, <1>11 DEF HandlersInv

\* The program goes on: what is left to show when tries and handlers are cut
\* or kept, element by element.
LEMMA AlignedKeeps ==
  ASSUME HandlersInv, Running, outcome' = outcome, depth' \in 1 .. MaxFrames,
         NEW n \in 0 .. Len(tries),
         tries' \in Seq(Try), Len(tries') = n,
         handlers' \in Seq(HandlerSet), Len(handlers') = n,
         \A i \in 1 .. n : handlers'[i] = handlers[i],
         \A i \in 1 .. n : i < n => tries'[i] = tries[i],
         \A i \in 1 .. n : tries'[i].exc = tries[i].exc /\ tries'[i].frame = tries[i].frame,
         \A i \in 1 .. n : tries[i].frame <= depth'
  PROVE  HandlersInv'
  <1>1. tries \in Seq(Try) /\ Len(tries) \in Nat /\ n \in Nat /\ n <= Len(tries) /\ 1 .. n \subseteq 1 .. Len(tries)
    <2>1. tries \in Seq(Try)
      BY DEF HandlersInv, TypeOK
    <2>2. Len(tries) \in Nat
      BY <2>1
    <2> QED
      BY <2>1, <2>2
  <1>2. TypeOK'
    <2>1. Len(tries) <= MAX_EXCEPTION_HANDLERS /\ MAX_EXCEPTION_HANDLERS \in Nat
      BY StructuredAssumption DEF HandlersInv, TypeOK
    <2>2. n <= MAX_EXCEPTION_HANDLERS
      BY <1>1, <2>1
    <2>3. outcome' = "running"
      BY DEF Running
    <2> QED
      BY <2>2, <2>3 DEF TypeOK
  <1>3. HandlersMatch'
    <2>1. ASSUME NEW i \in 1 .. n
          PROVE  /\ handlers'[i].exc = tries'[i].exc /\ handlers'[i].frame = tries'[i].frame
                 /\ handlers'[i].at = SubSeq(tries', 1, i - 1)
                 /\ ~handlers'[i].returned
      <3>1. /\ handlers[i].exc = tries[i].exc /\ handlers[i].frame = tries[i].frame
            /\ handlers[i].at = SubSeq(tries, 1, i - 1) /\ ~handlers[i].returned
        <4>1. i \in 1 .. Len(tries)
          BY <1>1
        <4>2. handlers \in Seq(HandlerSet) /\ Len(handlers) = Len(tries)
          BY DEF HandlersInv, HandlersMatch, TypeOK
        <4>3. i \in DOMAIN handlers
          BY <4>1, <4>2
        <4> QED
          BY <4>3 DEF HandlersInv, HandlersMatch
      <3>2. /\ i - 1 \in Nat /\ i - 1 <= Len(tries) /\ i - 1 <= n
            /\ \A k \in 1 .. i - 1 : k \in 1 .. n /\ k < n
        BY <1>1
      <3>3. \A k \in 1 .. i - 1 : tries'[k] = tries[k]
        BY <3>2
      <3>4. SubSeq(tries', 1, i - 1) = SubSeq(tries, 1, i - 1)
        BY <1>1, <3>2, <3>3, PrefixSame
      <3> QED
        BY <3>1, <3>4
    <2>2. DOMAIN handlers' = 1 .. n
      OBVIOUS
    <2> QED
      BY <2>1, <2>2 DEF HandlersMatch
  <1>4. Nested'
    <2>1. DOMAIN tries' = 1 .. n /\ DOMAIN tries = 1 .. Len(tries)
      BY <1>1
    <2>2. \A j, k \in 1 .. n : j <= k => tries[j].frame <= tries[k].frame
      BY <1>1, <2>1 DEF HandlersInv, Nested
    <2> QED
      BY <2>1, <2>2 DEF Nested
  <1> QED
    BY <1>2, <1>3, <1>4 DEF HandlersInv

\* What the invariant says of a program that runs.
LEMMA Aligned ==
  ASSUME HandlersInv, Running
  PROVE  /\ tries \in Seq(Try) /\ handlers \in Seq(HandlerSet)
         /\ Len(tries) \in Nat /\ Len(handlers) = Len(tries)
         /\ depth \in 1 .. MaxFrames /\ MaxFrames \in Nat \ {0}
         /\ \A i \in 1 .. Len(tries) :
              /\ handlers[i].exc = tries[i].exc /\ handlers[i].frame = tries[i].frame
              /\ handlers[i].at = SubSeq(tries, 1, i - 1) /\ ~handlers[i].returned
              /\ tries[i] \in Try /\ tries[i].exc \in Exc /\ tries[i].frame \in 1 .. MaxFrames
              /\ tries[i].frame <= depth
         /\ \A j, k \in 1 .. Len(tries) : j <= k => tries[j].frame <= tries[k].frame
  <1>1. tries \in Seq(Try) /\ handlers \in Seq(HandlerSet) /\ depth \in 1 .. MaxFrames
    BY DEF HandlersInv, TypeOK
  <1>2. Len(tries) \in Nat /\ Len(handlers) = Len(tries)
    BY <1>1 DEF HandlersInv, HandlersMatch
  <1>3. DOMAIN tries = 1 .. Len(tries) /\ DOMAIN handlers = 1 .. Len(tries)
    BY <1>1, <1>2
  <1>4. ASSUME NEW i \in 1 .. Len(tries)
        PROVE  /\ handlers[i].exc = tries[i].exc /\ handlers[i].frame = tries[i].frame
               /\ handlers[i].at = SubSeq(tries, 1, i - 1) /\ ~handlers[i].returned
    BY <1>3 DEF HandlersInv, HandlersMatch
  <1>5. ASSUME NEW i \in 1 .. Len(tries)
        PROVE  tries[i] \in Try /\ tries[i].exc \in Exc /\ tries[i].frame \in 1 .. MaxFrames
    <2>1. tries[i] \in Try
      BY <1>1, ElementOfSeq
    <2> QED
      BY <2>1 DEF Try
  <1>6. /\ \A k \in 1 .. Len(tries) : tries[k].frame <= depth
        /\ \A j, k \in 1 .. Len(tries) : j <= k => tries[j].frame <= tries[k].frame
    BY <1>3 DEF HandlersInv, Nested
  <1> QED
    BY <1>1, <1>2, <1>4, <1>5, <1>6, StructuredAssumption

\* A program that ends keeps what it had.
LEMMA EndKeeps ==
  ASSUME HandlersInv, UNCHANGED <<depth, tries, handlers>>,
         outcome' \in {"returned", "uncaught", "too deep", "lost"}
  PROVE  HandlersInv'
  <1>1. TypeOK' /\ ~Running'
    BY DEF HandlersInv, TypeOK, Running
  <1> QED
    BY <1>1 DEF HandlersInv, HandlersMatch, Nested

\* A try statement that ends takes the handler on top with it: it is its own.
LEMMA TryEndKeeps ==
  ASSUME HandlersInv, TryEnd
  PROVE  HandlersInv'
  <1> DEFINE n == Len(tries) - 1
  <1>1. Running /\ tries # <<>> /\ tries' = Front(tries) /\ UNCHANGED <<depth, outcome>> /\ handlers' = Pop
    BY DEF TryEnd, LeaveTry, Inside
  <1>2. handlers # <<>> /\ handlers' = Front(handlers)
    <2>1. Len(tries) # 0
      BY <1>1, Aligned, EmptySeq
    <2>2. handlers # <<>>
      BY <1>1, <2>1, Aligned
    <2> QED
      BY <1>1, <2>2 DEF Pop
  <1>3. /\ tries' \in Seq(Try) /\ Len(tries') = n /\ n \in 0 .. Len(tries)
        /\ \A i \in 1 .. n : tries'[i] = tries[i]
    <2>1. tries \in Seq(Try)
      BY <1>1, Aligned
    <2>2. /\ Len(tries) \in Nat \ {0} /\ Front(tries) \in Seq(Try) /\ Len(Front(tries)) = n
          /\ \A i \in 1 .. n : Front(tries)[i] = tries[i]
      BY <1>1, <2>1, FrontOf
    <2> QED
      BY <1>1, <2>2
  <1>4. /\ handlers' \in Seq(HandlerSet) /\ Len(handlers') = n
        /\ \A i \in 1 .. n : handlers'[i] = handlers[i]
    <2>1. handlers \in Seq(HandlerSet) /\ Len(handlers) = Len(tries)
      BY <1>1, Aligned
    <2> QED
      BY <1>2, <2>1, FrontOf
  <1>5. 1 .. n \subseteq 1 .. Len(tries)
    BY <1>3
  <1>6. \A i \in 1 .. n : tries[i].frame <= depth'
    BY <1>1, <1>5, Aligned
  <1>7. depth' \in 1 .. MaxFrames
    BY <1>1, Aligned
  <1> QED
    BY <1>1, <1>3, <1>4, <1>6, <1>7, AlignedKeeps

\* A call only adds a frame.
LEMMA CallKeeps ==
  ASSUME HandlersInv, NativeCall
  PROVE  HandlersInv'
  <1>1. Running /\ depth < MaxFrames /\ depth' = depth + 1 /\ UNCHANGED <<tries, outcome, handlers>>
    BY DEF NativeCall, Call
  <1>2. depth \in 1 .. MaxFrames /\ MaxFrames \in Nat \ {0} /\ tries \in Seq(Try) /\ handlers \in Seq(HandlerSet)
        /\ Len(tries) \in Nat /\ Len(handlers) = Len(tries)
    BY <1>1, Aligned
  <1>3. depth' \in 1 .. MaxFrames /\ Len(tries) \in 0 .. Len(tries)
    BY <1>1, <1>2
  <1>4. \A i \in 1 .. Len(tries) : tries[i].frame \in 1 .. MaxFrames /\ tries[i].frame <= depth
    BY <1>1, Aligned
  <1>5. \A i \in 1 .. Len(tries) : tries[i].frame <= depth'
    BY <1>1, <1>2, <1>4
  <1> QED
    BY <1>1, <1>2, <1>3, <1>5, AlignedKeeps

\* A function returns outside its own try statements: none of them is left.
LEMMA ReturnStays ==
  ASSUME HandlersInv, Structured, NativeReturn, depth # 1
  PROVE  /\ Running /\ depth' = depth - 1 /\ depth' \in 1 .. MaxFrames
         /\ UNCHANGED <<tries, outcome, handlers>>
         /\ \A i \in 1 .. Len(tries) : tries[i].frame <= depth'
  <1> DEFINE n == Len(tries)
  <1>1. /\ Running /\ ~Inside /\ depth' = depth - 1 /\ UNCHANGED outcome
        /\ handlers' = [i \in DOMAIN handlers |->
             IF handlers[i].frame = depth THEN [handlers[i] EXCEPT !.returned = TRUE]
             ELSE handlers[i]]
    BY DEF NativeReturn, Return, Structured
  <1>2. PICK m \in 0 .. n : /\ \A k \in DOMAIN tries : k <= m <=> tries[k].frame < depth
                            /\ tries' = SubSeq(tries, 1, m)
    BY DEF NativeReturn, Return
  <1>3. /\ tries \in Seq(Try) /\ handlers \in Seq(HandlerSet) /\ n \in Nat /\ Len(handlers) = n
        /\ depth \in 1 .. MaxFrames /\ MaxFrames \in Nat \ {0}
        /\ DOMAIN tries = 1 .. n /\ DOMAIN handlers = 1 .. n
    BY <1>1, Aligned
  <1>4. /\ \A i \in 1 .. n : tries[i].frame \in 1 .. MaxFrames /\ tries[i].frame <= depth
                           /\ handlers[i].frame = tries[i].frame
        /\ \A j, k \in 1 .. n : j <= k => tries[j].frame <= tries[k].frame
    BY <1>1, Aligned
  <1>5. ASSUME NEW i \in 1 .. n
        PROVE  tries[i].frame < depth
    <2>1. n \in 1 .. n /\ i <= n /\ tries # <<>>
      BY <1>3
    <2>2. Last(tries).frame # depth /\ Last(tries) = tries[n]
      BY <1>1, <2>1 DEF Inside, Last
    <2>3. tries[n].frame \in 1 .. MaxFrames /\ tries[n].frame <= depth /\ tries[i].frame <= tries[n].frame
      BY <1>4, <2>1
    <2>4. tries[i].frame \in 1 .. MaxFrames
      BY <1>4
    <2> QED
      BY <1>3, <2>2, <2>3, <2>4
  <1>6. tries' = tries
    <2>1. CASE n = 0
      <3>1. m = n
        BY <1>3, <2>1
      <3> QED
        BY <1>2, <1>3, <3>1, SubSeqFull
    <2>2. CASE n # 0
      <3>1. n \in 1 .. n
        BY <1>3, <2>2
      <3>2. n <= m
        <4>1. tries[n].frame < depth /\ n \in DOMAIN tries
          BY <1>3, <1>5, <3>1
        <4> QED
          BY <1>2, <4>1
      <3>3. m \in 0 .. n
        BY <1>2
      <3>4. m = n
        <4>1. n \in Nat
          BY <1>3
        <4> QED
          BY <3>2, <3>3, <4>1
      <3> QED
        BY <1>2, <1>3, <3>4, SubSeqFull
    <2> QED
      BY <2>1, <2>2
  <1>7. handlers' = handlers
    <2>1. \A i \in 1 .. n : handlers[i].frame # depth
      <3> TAKE i \in 1 .. n
      <3>1. tries[i].frame < depth /\ handlers[i].frame = tries[i].frame /\ tries[i].frame \in 1 .. MaxFrames
        BY <1>4, <1>5
      <3> QED
        BY <1>3, <3>1
    <2>2. handlers' = [i \in 1 .. n |-> handlers[i]]
      BY <1>1, <1>3, <2>1
    <2> QED
      BY <1>3, <2>2
  <1>8. depth' \in 1 .. MaxFrames
    BY <1>1, <1>3
  <1>9. \A i \in 1 .. n : tries[i].frame <= depth'
    <2> TAKE i \in 1 .. n
    <2>1. tries[i].frame < depth /\ tries[i].frame \in 1 .. MaxFrames
      BY <1>4, <1>5
    <2> QED
      BY <1>1, <1>3, <2>1
  <1> QED
    BY <1>1, <1>6, <1>7, <1>8, <1>9

LEMMA ReturnKeeps ==
  ASSUME HandlersInv, Structured, NativeReturn
  PROVE  HandlersInv'
  <1>1. Running
    BY DEF NativeReturn, Return
  <1>2. CASE depth = 1
    <2>1. outcome' = "returned" /\ UNCHANGED <<depth, tries>> /\ ~Inside
      BY <1>2 DEF NativeReturn, Return, End, Structured
    <2>2. TypeOK'
      <3>1. handlers' \in Seq(HandlerSet) /\ Len(handlers') = Len(handlers)
        <4> DEFINE f(i) == IF handlers[i].frame = depth THEN [handlers[i] EXCEPT !.returned = TRUE]
                           ELSE handlers[i]
        <4>1. handlers \in Seq(HandlerSet) /\ Len(handlers) \in Nat
          BY <1>1, Aligned
        <4>2. DOMAIN handlers = 1 .. Len(handlers)
          BY <4>1
        <4>3. handlers' = [i \in 1 .. Len(handlers) |-> f(i)]
          BY <4>2 DEF NativeReturn
        <4>4. \A i \in 1 .. Len(handlers) : handlers[i] \in HandlerSet
          BY <4>1, ElementOfSeq
        <4>5. \A i \in 1 .. Len(handlers) : f(i) \in HandlerSet
          BY <4>4 DEF HandlerSet
        <4> HIDE DEF f
        <4> QED
          BY <4>1, <4>3, <4>5
      <3> QED
        BY <2>1, <3>1 DEF HandlersInv, TypeOK
    <2> QED
      BY <2>1, <2>2 DEF HandlersInv, HandlersMatch, Nested, Running
  <1>3. CASE depth # 1
    <2>1. /\ tries \in Seq(Try) /\ handlers \in Seq(HandlerSet)
          /\ Len(tries) \in 0 .. Len(tries) /\ Len(handlers) = Len(tries)
      BY <1>1, Aligned
    <2> QED
      BY <1>1, <1>3, <2>1, ReturnStays, AlignedKeeps
  <1> QED
    BY <1>2, <1>3

\* An exception that finds a handler goes to that of the innermost try body.
LEMMA RaiseToInnermost ==
  ASSUME HandlersInv, Structured, NEW e \in Exc, NativeRaise(e), Matching(e) # {}
  PROVE  LET n == Len(tries) IN
         /\ Running /\ n \in 1 .. n /\ tries[n].exc = e /\ tries[n].phase = "body"
         /\ depth' = tries[n].frame
         /\ tries' = Append(SubSeq(tries, 1, n - 1),
                            [frame |-> tries[n].frame, exc |-> e, phase |-> "except"])
         /\ UNCHANGED <<outcome, handlers>>
  <1> DEFINE n == Len(tries)
             k == CHOOSE i \in Matching(e) : \A j \in Matching(e) : j <= i
  <1>1. /\ Running /\ Last(tries).exc = e /\ Last(tries).phase = "body"
        /\ LongJump(NewestHandler(e)) /\ UNCHANGED handlers
    BY DEF NativeRaise, Structured
  <1>2. n \in Nat /\ DOMAIN handlers = 1 .. n
    BY <1>1, Aligned
  <1>3. n \in 1 .. n /\ tries[n].exc = e /\ tries[n].phase = "body"
    <2>1. n # 0
      BY <1>2 DEF Matching
    <2> QED
      BY <1>1, <1>2, <2>1 DEF Last
  <1>4. n \in Matching(e) /\ \A j \in Matching(e) : j \in 1 .. n
    <2>1. handlers[n].exc = e
      BY <1>1, <1>3, Aligned
    <2> QED
      BY <1>2, <1>3, <2>1 DEF Matching
  <1>5. k = n
    <2>1. \A j \in Matching(e) : j <= n
      BY <1>2, <1>4
    <2>2. k \in Matching(e) /\ \A j \in Matching(e) : j <= k
      BY <1>4, <2>1
    <2>3. k \in 1 .. n /\ n <= k
      BY <1>4, <2>2
    <2> HIDE DEF k
    <2> QED
      BY <1>2, <2>3
  <1>6. NewestHandler(e) = handlers[n]
    BY <1>5 DEF NewestHandler
  <1>7. /\ handlers[n].exc = e /\ handlers[n].frame = tries[n].frame
        /\ handlers[n].at = SubSeq(tries, 1, n - 1) /\ ~handlers[n].returned
    BY <1>1, <1>3, Aligned
  <1>8. /\ depth' = handlers[n].frame
        /\ tries' = Append(handlers[n].at,
             [frame |-> handlers[n].frame, exc |-> handlers[n].exc, phase |-> "except"])
        /\ UNCHANGED outcome
    BY <1>1, <1>6, <1>7 DEF LongJump
  <1> QED
    BY <1>1, <1>3, <1>7, <1>8

\* What the try statements are once the program is in the except block.
LEMMA CaughtTries ==
  ASSUME HandlersInv, Running, NEW e \in Exc, Len(tries) \in 1 .. Len(tries), tries[Len(tries)].exc = e,
         tries' = Append(SubSeq(tries, 1, Len(tries) - 1),
                         [frame |-> tries[Len(tries)].frame, exc |-> e, phase |-> "except"])
  PROVE  LET n == Len(tries) IN
         /\ tries' \in Seq(Try) /\ Len(tries') = n
         /\ \A i \in 1 .. n - 1 : tries'[i] = tries[i]
         /\ tries'[n] = [frame |-> tries[n].frame, exc |-> e, phase |-> "except"]
  <1> DEFINE n == Len(tries)
             t == [frame |-> tries[n].frame, exc |-> e, phase |-> "except"]
             q == SubSeq(tries, 1, n - 1)
  <1>1. tries \in Seq(Try) /\ n \in Nat \ {0} /\ n - 1 \in 0 .. n /\ tries[n].frame \in 1 .. MaxFrames
    BY Aligned
  <1>2. t \in Try
    BY <1>1 DEF Try
  <1>3. q \in Seq(Try) /\ Len(q) = n - 1 /\ \A i \in 1 .. n - 1 : q[i] = tries[i]
    BY <1>1, PrefixOf
  <1>4. /\ tries' \in Seq(Try) /\ Len(tries') = (n - 1) + 1 /\ tries'[(n - 1) + 1] = t
        /\ \A i \in 1 .. n - 1 : tries'[i] = q[i]
    BY <1>2, <1>3, AppendOf
  <1>5. (n - 1) + 1 = n
    BY <1>1
  <1> QED
    BY <1>3, <1>4, <1>5

LEMMA RaiseKeeps ==
  ASSUME HandlersInv, Structured, NEW e \in Exc, NativeRaise(e)
  PROVE  HandlersInv'
  <1> DEFINE n == Len(tries)
  <1>1. CASE Matching(e) = {}
    BY <1>1, EndKeeps DEF NativeRaise, End
  <1>2. CASE Matching(e) # {}
    <2>1. /\ Running /\ n \in 1 .. n /\ tries[n].exc = e /\ depth' = tries[n].frame
          /\ tries' = Append(SubSeq(tries, 1, n - 1),
                             [frame |-> tries[n].frame, exc |-> e, phase |-> "except"])
          /\ UNCHANGED <<outcome, handlers>>
      BY <1>2, RaiseToInnermost
    <2>2. /\ tries' \in Seq(Try) /\ Len(tries') = n /\ \A i \in 1 .. n - 1 : tries'[i] = tries[i]
          /\ tries'[n] = [frame |-> tries[n].frame, exc |-> e, phase |-> "except"]
      BY <2>1, CaughtTries
    <2>3. /\ n \in Nat /\ n \in 0 .. n /\ handlers \in Seq(HandlerSet) /\ Len(handlers) = n
          /\ tries[n].frame \in 1 .. MaxFrames
          /\ \A j, k \in 1 .. n : j <= k => tries[j].frame <= tries[k].frame
      BY <2>1, Aligned
    <2>4. \A i \in 1 .. n : i < n => tries'[i] = tries[i]
      <3>1. \A i \in 1 .. n : i < n => i \in 1 .. n - 1
        BY <2>3
      <3> QED
        BY <2>2, <3>1
    <2>5. \A i \in 1 .. n : tries'[i].exc = tries[i].exc /\ tries'[i].frame = tries[i].frame
      <3>1. \A i \in 1 .. n : i < n \/ i = n
        BY <2>3
      <3> QED
        BY <2>1, <2>2, <2>4, <3>1
    <2>6. \A i \in 1 .. n : tries[i].frame <= depth'
      <3>1. \A i \in 1 .. n : i <= n
        BY <2>3
      <3> QED
        BY <2>1, <2>3, <3>1
    <2> QED
      BY <2>1, <2>2, <2>3, <2>4, <2>5, <2>6, AlignedKeeps
  <1> QED
    BY <1>1, <1>2

LEMMA ExceptionsNext ==
  ASSUME HandlersInv, Structured, [NativeNext]_nativeVars
  PROVE  HandlersInv'
  <1>1. ASSUME NEW e \in Exc, TryBegin(e) PROVE HandlersInv'
    <2>1. CASE Len(handlers) < MAX_EXCEPTION_HANDLERS /\ EnterTry(e) /\ handlers' = Append(handlers, Handler(e))
      BY <2>1, BeginKeeps
    <2>2. CASE End("too deep") /\ UNCHANGED handlers
      BY <2>2, EndKeeps DEF End
    <2> QED
      BY <1>1, <2>1, <2>2 DEF TryBegin
  <1>2. ASSUME NEW e \in Exc, NativeRaise(e) PROVE HandlersInv'
    BY <1>2, RaiseKeeps
  <1>3. CASE UNCHANGED nativeVars
    BY <1>3 DEF HandlersInv, TypeOK, HandlersMatch, Nested, Running, nativeVars, position
  <1>4. CASE NativeEnded
    <2>1. UNCHANGED nativeVars
      BY <1>4 DEF NativeEnded, Ended, nativeVars
    <2> QED
      BY <1>3, <2>1
  <1> QED
    BY <1>1, <1>2, <1>3, <1>4, TryEndKeeps, CallKeeps, ReturnKeeps DEF NativeNext

\* The invariant of the handler stack, for every call depth, every limit of
\* handlers and every set of exception types.
THEOREM HandlersSafety == ASSUME Structured PROVE NativeSpec => []HandlersInv
  BY ExceptionsInit, ExceptionsNext, PTL DEF NativeSpec

\* Values stay in range and the handler stack within its limit.
THEOREM HandlersTypes == ASSUME Structured PROVE NativeSpec => []TypeOK
  <1>1. HandlersInv => TypeOK
    BY DEF HandlersInv
  <1> QED
    BY <1>1, HandlersSafety, PTL

\* Every handler on the stack belongs to a try statement the program is in.
THEOREM HandlersFollow == ASSUME Structured PROVE NativeSpec => []HandlersMatch
  <1>1. HandlersInv => HandlersMatch
    BY DEF HandlersInv
  <1> QED
    BY <1>1, HandlersSafety, PTL

\* Both pick the try body a raised exception goes to.
LEMMA RaiseImplements ==
  ASSUME HandlersInv, Structured, NEW e \in Exc, NativeRaise(e)
  PROVE  Raise(e)
  <1> DEFINE n == Len(tries)
             t == [frame |-> tries[n].frame, exc |-> e, phase |-> "except"]
  <1>1. Running
    BY DEF NativeRaise
  <1>2. tries \in Seq(Try) /\ n \in Nat /\ DOMAIN tries = 1 .. n /\ DOMAIN handlers = 1 .. n
        /\ \A i \in 1 .. n : handlers[i].exc = tries[i].exc
    BY <1>1, Aligned
  <1>0. n \in Nat
    BY <1>2
  <1>3. CASE Matching(e) = {}
    <2>1. Catchers(e) = {}
      BY <1>2, <1>3 DEF Matching, Catchers
    <2> QED
      BY <1>1, <1>3, <2>1 DEF NativeRaise, Raise
  <1>4. CASE Matching(e) # {}
    <2> DEFINE k == CHOOSE i \in Catchers(e) : \A j \in Catchers(e) : j <= i
    <2>1. /\ n \in 1 .. n /\ tries[n].exc = e /\ tries[n].phase = "body"
          /\ depth' = tries[n].frame /\ tries' = Append(SubSeq(tries, 1, n - 1), t)
          /\ UNCHANGED outcome
      BY <1>4, RaiseToInnermost
    <2>2. n \in Catchers(e) /\ \A j \in Catchers(e) : j \in 1 .. n
      BY <1>2, <2>1 DEF Catchers
    <2>3. k = n
      <3>1. \A j \in Catchers(e) : j <= n
        BY <1>0, <2>2
      <3>2. k \in Catchers(e) /\ \A j \in Catchers(e) : j <= k
        BY <2>2, <3>1
      <3>3. k \in 1 .. n /\ n <= k
        BY <2>2, <3>2
      <3> HIDE DEF k
      <3> QED
        BY <1>0, <3>3
    <2>4. /\ tries' \in Seq(Try) /\ Len(tries') = n /\ \A i \in 1 .. n - 1 : tries'[i] = tries[i]
          /\ tries'[n] = t
      BY <1>1, <2>1, CaughtTries
    <2>5. [tries EXCEPT ![n].phase = "except"] = tries'
      <3> DEFINE r == [tries EXCEPT ![n].phase = "except"]
                 s == [tries[n] EXCEPT !.phase = "except"]
      <3>1. tries[n] \in Try
        BY <1>2, <2>1, ElementOfSeq
      <3>2. s = t /\ t \in Try
        BY <2>1, <3>1 DEF Try
      <3>3. r = [tries EXCEPT ![n] = t]
        BY <3>2
      <3>4. r \in Seq(Try) /\ Len(r) = n
        BY <1>2, <2>1, <3>2, <3>3
      <3>5. \A i \in 1 .. n : r[i] = IF i = n THEN t ELSE tries[i]
        BY <1>2, <2>1, <3>3
      <3>6. \A i \in 1 .. n : i = n \/ i \in 1 .. n - 1
        BY <1>0
      <3>7. \A i \in 1 .. n : r[i] = tries'[i]
        BY <2>4, <3>5, <3>6
      <3> HIDE DEF r
      <3>8. r = tries'
        BY <2>4, <3>4, <3>7, SeqEqual
      <3> QED
        BY <3>8 DEF r
    <2>6. CatchAt(n)
      <3>1. SubSeq(tries, 1, n) = tries
        BY <1>2, SubSeqFull
      <3> QED
        BY <2>1, <2>5, <3>1 DEF CatchAt
    <2>7. CatchAt(k)
      BY <2>3, <2>6
    <2>8. Catchers(e) # {}
      BY <2>2
    <2> QED
      BY <1>1, <2>7, <2>8 DEF Raise
  <1> QED
    BY <1>3, <1>4

LEMMA StructuredNext ==
  ASSUME HandlersInv, Structured, [NativeNext]_nativeVars
  PROVE  [Next]_position
  <1>1. ASSUME NEW e \in Exc, TryBegin(e) PROVE Next
    <2>1. Len(handlers) = Len(tries)
      BY <1>1 DEF TryBegin, EnterTry, HandlersInv, HandlersMatch
    <2> QED
      BY <1>1, <2>1 DEF TryBegin, TooDeep, Next
  <1>2. ASSUME NEW e \in Exc, NativeRaise(e) PROVE Next
    BY <1>2, RaiseImplements DEF Next
  <1>3. CASE UNCHANGED nativeVars
    BY <1>3 DEF nativeVars
  <1> QED
    BY <1>1, <1>2, <1>3 DEF NativeNext, TryEnd, NativeCall, NativeReturn, NativeEnded, Next

\* Natively compiled programs follow the try statements as the language has
\* them: the handler stack implements structured exceptions.
THEOREM ImplementsStructured == ASSUME Structured PROVE NativeSpec => StructuredSpec
  <1>1. NativeInit => Init
    BY DEF NativeInit
  <1>2. HandlersInv /\ [NativeNext]_nativeVars => [Next]_position
    BY StructuredNext
  <1> QED
    BY <1>1, <1>2, HandlersSafety, PTL DEF NativeSpec, StructuredSpec
==============================================================================
