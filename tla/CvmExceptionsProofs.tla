------------------------ MODULE CvmExceptionsProofs ------------------------
(***************************************************************************)
(* The C VM loses handlers, but never keeps one too long: for programs     *)
(* that do not return from inside a try, whatever types they raise and     *)
(* whatever their messages look like, at every call depth and for every    *)
(* size of the handler stack, no exception leads to a try that has ended.  *)
(***************************************************************************)
EXTENDS CvmExceptions, DataLemmas

HandlerSet == [exc : Exc, frame : 1 .. MaxFrames, at : Seq(Try)]

\* Try statements are nested as the frames they are in.
Nested ==
  Running =>
    /\ \A k \in DOMAIN tries : tries[k].frame <= depth
    /\ \A j, k \in DOMAIN tries : j <= k => tries[j].frame <= tries[k].frame

HandlersInv == TypeOK /\ HandlersLive /\ Nested

\* A prefix of something stays one as far as nothing changes below its end.
LEMMA PrefixStays ==
  ASSUME NEW S, NEW q \in Seq(S), NEW r \in Seq(S), NEW u \in Seq(S),
         IsPrefix(q, r), Len(q) <= Len(u), \A i \in 1 .. Len(q) : u[i] = r[i]
  PROVE  IsPrefix(q, u)
  BY PrefixElements

\* What the invariant says of a program that runs.
LEMMA Live ==
  ASSUME HandlersInv, Running
  PROVE  /\ tries \in Seq(Try) /\ handlers \in Seq(HandlerSet)
         /\ Len(tries) \in Nat /\ Len(handlers) \in Nat
         /\ depth \in 1 .. MaxFrames /\ MaxFrames \in Nat \ {0}
         /\ \A i \in 1 .. Len(tries) :
              tries[i] \in Try /\ tries[i].frame \in 1 .. MaxFrames /\ tries[i].frame <= depth
         /\ \A j, k \in 1 .. Len(tries) : j <= k => tries[j].frame <= tries[k].frame
         /\ \A i \in 1 .. Len(handlers) :
              /\ handlers[i] \in HandlerSet /\ handlers[i].exc \in Exc
              /\ handlers[i].frame \in 1 .. MaxFrames /\ handlers[i].at \in Seq(Try)
              /\ Len(handlers[i].at) \in Nat
              /\ TryOf(handlers[i]) \in Seq(Try)
              /\ Len(TryOf(handlers[i])) = Len(handlers[i].at) + 1
              /\ \A j \in 1 .. Len(handlers[i].at) : handlers[i].at[j] = tries[j]
              /\ tries[Len(handlers[i].at) + 1].frame = handlers[i].frame
              /\ IsPrefix(TryOf(handlers[i]), tries)
              /\ Len(handlers[i].at) + 1 <= Len(tries)
         /\ \A i, j \in 1 .. Len(handlers) : i < j => Len(handlers[i].at) < Len(handlers[j].at)
  <1>1. tries \in Seq(Try) /\ handlers \in Seq(HandlerSet) /\ depth \in 1 .. MaxFrames
    BY DEF HandlersInv, TypeOK, HandlerSet
  <1>2. /\ Len(tries) \in Nat /\ Len(handlers) \in Nat
        /\ DOMAIN tries = 1 .. Len(tries) /\ DOMAIN handlers = 1 .. Len(handlers)
    BY <1>1
  <1>3. ASSUME NEW i \in 1 .. Len(tries)
        PROVE  tries[i] \in Try /\ tries[i].frame \in 1 .. MaxFrames
    <2>1. tries[i] \in Try
      BY <1>1, ElementOfSeq
    <2> QED
      BY <2>1 DEF Try
  <1>4. /\ \A k \in 1 .. Len(tries) : tries[k].frame <= depth
        /\ \A j, k \in 1 .. Len(tries) : j <= k => tries[j].frame <= tries[k].frame
    BY <1>2 DEF HandlersInv, Nested
  <1>5. ASSUME NEW i \in 1 .. Len(handlers)
        PROVE  /\ handlers[i] \in HandlerSet /\ handlers[i].exc \in Exc
               /\ handlers[i].frame \in 1 .. MaxFrames /\ handlers[i].at \in Seq(Try)
               /\ Len(handlers[i].at) \in Nat
               /\ TryOf(handlers[i]) \in Seq(Try)
               /\ Len(TryOf(handlers[i])) = Len(handlers[i].at) + 1
               /\ \A j \in 1 .. Len(handlers[i].at) : handlers[i].at[j] = tries[j]
               /\ tries[Len(handlers[i].at) + 1].frame = handlers[i].frame
               /\ IsPrefix(TryOf(handlers[i]), tries)
               /\ Len(handlers[i].at) + 1 <= Len(tries)
    <2> DEFINE h == handlers[i]
               x == [frame |-> h.frame, exc |-> h.exc, phase |-> "body"]
    <2>1. h \in HandlerSet
      BY <1>1, ElementOfSeq
    <2>2. h.exc \in Exc /\ h.frame \in 1 .. MaxFrames /\ h.at \in Seq(Try)
      BY <2>1 DEF HandlerSet
    <2>3. x \in Try /\ x.frame = h.frame /\ TryOf(h) = Append(h.at, x)
      BY <2>2 DEF Try, TryOf
    <2>4. IsPrefix(TryOf(h), tries)
      BY <1>2 DEF HandlersInv, HandlersLive
    <2> HIDE DEF h, x
    <2>5. /\ TryOf(h) \in Seq(Try) /\ Len(h.at) \in Nat /\ Len(TryOf(h)) = Len(h.at) + 1
          /\ TryOf(h)[Len(h.at) + 1] = x /\ \A j \in 1 .. Len(h.at) : TryOf(h)[j] = h.at[j]
      BY <2>2, <2>3, AppendOf
    <2>6. Len(TryOf(h)) <= Len(tries) /\ \A j \in 1 .. Len(TryOf(h)) : TryOf(h)[j] = tries[j]
      BY <1>1, <2>4, <2>5, PrefixElements
    <2>7. Len(h.at) + 1 \in 1 .. Len(TryOf(h)) /\ 1 .. Len(h.at) \subseteq 1 .. Len(TryOf(h))
      BY <2>5
    <2>8. tries[Len(h.at) + 1] = x
      BY <2>5, <2>6, <2>7
    <2>9. \A j \in 1 .. Len(h.at) : h.at[j] = tries[j]
      BY <2>5, <2>6, <2>7
    <2> QED
      BY <2>1, <2>2, <2>3, <2>4, <2>5, <2>6, <2>8, <2>9 DEF h
  <1>6. \A i, j \in 1 .. Len(handlers) : i < j => Len(handlers[i].at) < Len(handlers[j].at)
    BY <1>2 DEF HandlersInv, HandlersLive
  <1> QED
    BY <1>1, <1>2, <1>3, <1>4, <1>5, <1>6, StructuredAssumption

\* The program goes on with its first n handlers, and nothing changes in the try
\* statements up to that of the last of them.
LEMMA CutKeeps ==
  ASSUME HandlersInv, Running, outcome' = outcome,
         depth' \in 1 .. MaxFrames, current_frame' \in 1 .. MaxFrames,
         NEW n \in 0 .. Len(handlers), NEW m \in Nat,
         handlers' \in Seq(HandlerSet), Len(handlers') = n,
         \A i \in 1 .. n : handlers'[i] = handlers[i],
         \A i \in 1 .. n : Len(handlers[i].at) + 1 <= m,
         tries' \in Seq(Try), Len(tries') <= Len(tries), m <= Len(tries'),
         \A k \in 1 .. m : tries'[k] = tries[k],
         \A k \in 1 .. Len(tries') : tries'[k].frame = tries[k].frame /\ tries[k].frame <= depth'
  PROVE  HandlersInv'
  <1>1. /\ tries \in Seq(Try) /\ handlers \in Seq(HandlerSet)
        /\ Len(tries) \in Nat /\ Len(handlers) \in Nat /\ Len(tries') \in Nat /\ n \in Nat
        /\ n <= Len(handlers) /\ 1 .. n \subseteq 1 .. Len(handlers)
        /\ DOMAIN handlers' = 1 .. n /\ DOMAIN tries' = 1 .. Len(tries')
        /\ 1 .. Len(tries') \subseteq 1 .. Len(tries)
    <2>1. tries \in Seq(Try) /\ handlers \in Seq(HandlerSet) /\ Len(tries) \in Nat /\ Len(handlers) \in Nat
      BY Live
    <2>2. Len(tries') \in Nat /\ DOMAIN handlers' = 1 .. n /\ DOMAIN tries' = 1 .. Len(tries')
      OBVIOUS
    <2> QED
      BY <2>1, <2>2
  <1>2. TypeOK'
    <2>1. /\ Len(tries) <= MAX_EXCEPTION_HANDLERS /\ Len(handlers) <= MAX_EXCEPTION_HANDLERS
          /\ MAX_EXCEPTION_HANDLERS \in Nat
      BY StructuredAssumption DEF HandlersInv, TypeOK
    <2>2. Len(tries') <= MAX_EXCEPTION_HANDLERS /\ Len(handlers') <= MAX_EXCEPTION_HANDLERS
      BY <1>1, <2>1
    <2>3. outcome' = "running"
      BY DEF Running
    <2> QED
      BY <2>2, <2>3 DEF TypeOK, HandlerSet
  <1>3. HandlersLive'
    <2>1. ASSUME NEW i \in 1 .. n
          PROVE  IsPrefix(TryOf(handlers'[i]), tries')
      <3> DEFINE q == TryOf(handlers[i])
      <3>1. /\ q \in Seq(Try) /\ IsPrefix(q, tries) /\ Len(q) = Len(handlers[i].at) + 1
            /\ Len(handlers[i].at) \in Nat
        BY <1>1, Live
      <3>2. Len(q) <= m /\ Len(q) \in Nat
        BY <3>1
      <3> HIDE DEF q
      <3>3. Len(q) <= Len(tries') /\ \A j \in 1 .. Len(q) : tries'[j] = tries[j]
        BY <1>1, <3>2
      <3>4. IsPrefix(q, tries')
        BY <1>1, <3>1, <3>3, PrefixStays
      <3> QED
        BY <3>4 DEF q
    <2>2. \A i, j \in 1 .. n : i < j => Len(handlers'[i].at) < Len(handlers'[j].at)
      BY <1>1, Live
    <2>3. \A h : TryOf(h)' = TryOf(h)
      BY DEF TryOf
    <2> QED
      BY <1>1, <2>1, <2>2, <2>3 DEF HandlersLive, TryOf
  <1>4. Nested'
    <2>1. \A j, k \in 1 .. Len(tries') : j <= k => tries'[j].frame <= tries'[k].frame
      BY <1>1, Live
    <2>2. \A k \in 1 .. Len(tries') : tries'[k].frame <= depth'
      OBVIOUS
    <2> QED
      BY <1>1, <2>1, <2>2 DEF Nested
  <1> QED
    BY <1>2, <1>3, <1>4 DEF HandlersInv

LEMMA HandlerLimit == 0 <= MAX_EXCEPTION_HANDLERS
  BY StructuredAssumption

\* A program that ends loses its handlers or keeps what it had.
LEMMA EndKeeps ==
  ASSUME HandlersInv, UNCHANGED <<depth, tries>>, handlers' = handlers \/ handlers' = <<>>,
         outcome' \in {"returned", "uncaught", "too deep"}, current_frame' \in 1 .. MaxFrames
  PROVE  HandlersInv'
  <1>1. ~Running'
    BY DEF Running
  <1>2. TypeOK'
    <2>1. handlers' \in Seq(HandlerSet) /\ Len(handlers') <= MAX_EXCEPTION_HANDLERS
      <3>1. CASE handlers' = handlers
        BY <3>1 DEF HandlersInv, TypeOK, HandlerSet
      <3>2. CASE handlers' = <<>>
        <4>1. handlers' \in Seq(HandlerSet) /\ Len(handlers') = 0
          BY <3>2, EmptySeq
        <4>2. 0 <= MAX_EXCEPTION_HANDLERS
          BY HandlerLimit
        <4> QED
          BY <4>1, <4>2, Zenon
      <3> QED
        BY <3>1, <3>2
    <2> QED
      BY <2>1 DEF HandlersInv, TypeOK, HandlerSet
  <1> QED
    BY <1>1, <1>2 DEF HandlersInv, HandlersLive, Nested

LEMMA ExceptionsInit == CvmInit => HandlersInv
  <1> SUFFICES ASSUME CvmInit PROVE HandlersInv
    OBVIOUS
  <1>1. TypeOK
    BY StructuredAssumption DEF CvmInit, Init, TypeOK
  <1>2. HandlersLive /\ Nested
    BY DEF CvmInit, Init, HandlersLive, Nested
  <1> QED
    BY <1>1, <1>2 DEF HandlersInv
\* TRY_BEGIN on a handler stack that is not full.
LEMMA BeginKeeps ==
  ASSUME HandlersInv, NEW e \in Exc, EnterTry(e), handlers' = Append(handlers, Handler(e)),
         Len(handlers) < MAX_EXCEPTION_HANDLERS, UNCHANGED current_frame
  PROVE  HandlersInv'
  <1> DEFINE t == Len(tries)
             n == Len(handlers)
  <1>1. Running /\ Len(tries) < MAX_EXCEPTION_HANDLERS /\ tries' = Append(tries, InBody(e)) /\ UNCHANGED <<depth, outcome>>
    BY DEF EnterTry
  <1>2. /\ tries \in Seq(Try) /\ handlers \in Seq(HandlerSet) /\ t \in Nat /\ n \in Nat
        /\ depth \in 1 .. MaxFrames
    BY <1>1, Live
  <1>3. InBody(e) \in Try /\ InBody(e) = [frame |-> depth, exc |-> e, phase |-> "body"]
    BY <1>2 DEF InBody, Try
  <1>4. /\ Handler(e) \in HandlerSet /\ Handler(e).at = tries
        /\ TryOf(Handler(e)) = tries'
    BY <1>1, <1>2, <1>3 DEF Handler, HandlerSet, TryOf
  <1>5. /\ tries' \in Seq(Try) /\ Len(tries') = t + 1 /\ tries'[t + 1] = InBody(e)
        /\ \A i \in 1 .. t : tries'[i] = tries[i]
    BY <1>1, <1>2, <1>3, AppendOf
  <1>6. /\ handlers' \in Seq(HandlerSet) /\ Len(handlers') = n + 1 /\ handlers'[n + 1] = Handler(e)
        /\ \A i \in 1 .. n : handlers'[i] = handlers[i]
    BY <1>2, <1>4, AppendOf
  <1>7. /\ DOMAIN tries' = 1 .. t + 1 /\ DOMAIN handlers' = 1 .. n + 1
        /\ \A i \in 1 .. n + 1 : i \in 1 .. n \/ i = n + 1
        /\ \A i \in 1 .. t + 1 : i \in 1 .. t \/ i = t + 1
    BY <1>2, <1>5, <1>6
  <1>8. TypeOK'
    <2>1. MAX_EXCEPTION_HANDLERS \in Nat
      BY StructuredAssumption
    <2>2. Len(tries') <= MAX_EXCEPTION_HANDLERS /\ Len(handlers') <= MAX_EXCEPTION_HANDLERS
      BY <1>1, <1>2, <1>5, <1>6, <2>1
    <2> QED
      BY <1>1, <1>5, <1>6, <2>2 DEF HandlersInv, TypeOK, HandlerSet
  <1>9. \A i \in 1 .. n + 1 : IsPrefix(TryOf(handlers'[i]), tries')
    <2>1. ASSUME NEW i \in 1 .. n PROVE IsPrefix(TryOf(handlers'[i]), tries')
      <3> DEFINE q == TryOf(handlers[i])
      <3>1. /\ q \in Seq(Try) /\ IsPrefix(q, tries) /\ Len(q) = Len(handlers[i].at) + 1
            /\ Len(handlers[i].at) + 1 <= t /\ Len(handlers[i].at) \in Nat
        BY <1>1, Live
      <3> HIDE DEF q
      <3>2. Len(q) <= Len(tries') /\ 1 .. Len(q) \subseteq 1 .. t
        BY <1>2, <1>5, <3>1
      <3>3. IsPrefix(q, tries')
        BY <1>2, <1>5, <3>1, <3>2, PrefixStays
      <3> QED
        BY <1>6, <3>3 DEF q
    <2>2. IsPrefix(tries', tries')
      <3>1. Len(tries') <= Len(tries')
        BY <1>2, <1>5
      <3> QED
        BY <1>5, <3>1, PrefixElements
    <2> QED
      BY <1>4, <1>6, <1>7, <2>1, <2>2
  <1>10. \A i, j \in 1 .. n + 1 : i < j => Len(handlers'[i].at) < Len(handlers'[j].at)
    <2> SUFFICES ASSUME NEW i \in 1 .. n + 1, NEW j \in 1 .. n + 1, i < j
                 PROVE  Len(handlers'[i].at) < Len(handlers'[j].at)
      OBVIOUS
    <2>1. i \in 1 .. n /\ handlers'[i] = handlers[i]
      BY <1>2, <1>6
    <2>2. /\ Len(handlers[i].at) + 1 <= t /\ Len(handlers[i].at) \in Nat
          /\ \A k \in 1 .. n : i < k => Len(handlers[i].at) < Len(handlers[k].at)
      BY <1>1, <2>1, Live
    <2>3. CASE j \in 1 .. n
      BY <1>6, <2>1, <2>2, <2>3
    <2>4. CASE j = n + 1
      <3>1. Len(handlers'[j].at) = t
        BY <1>4, <1>6, <2>4
      <3> QED
        BY <1>2, <2>1, <2>2, <3>1
    <2> QED
      BY <1>7, <2>3, <2>4
  <1>11. HandlersLive'
    BY <1>7, <1>9, <1>10 DEF HandlersLive, TryOf
  <1>12. Nested'
    <2>1. tries'[t + 1].frame = depth /\ depth <= depth
      BY <1>2, <1>3, <1>5
    <2>2. \A k \in 1 .. t : tries'[k] = tries[k] /\ tries[k].frame <= depth
      BY <1>1, <1>5, Live
    <2>3. \A j, k \in 1 .. t : j <= k => tries[j].frame <= tries[k].frame
      BY <1>1, Live
    <2>4. \A j \in 1 .. t : ~(t + 1 <= j)
      BY <1>2
    <2>5. \A k \in 1 .. t + 1 : tries'[k].frame <= depth
      BY <1>7, <2>1, <2>2
    <2>6. \A j, k \in 1 .. t + 1 : j <= k => tries'[j].frame <= tries'[k].frame
      BY <1>7, <2>1, <2>2, <2>3, <2>4
    <2> QED
      BY <1>1, <1>7, <2>5, <2>6 DEF Nested
  <1> QED
    BY <1>8, <1>11, <1>12 DEF HandlersInv

\* TRY_END pops what is on top.  The handlers below it belong to try bodies
\* further out than the statement that is left.
LEMMA TryEndKeeps ==
  ASSUME HandlersInv, TryEnd
  PROVE  HandlersInv'
  <1> DEFINE m == Len(tries) - 1
             n == IF handlers = <<>> THEN 0 ELSE Len(handlers) - 1
  <1>1. /\ Running /\ tries # <<>> /\ tries' = Front(tries)
        /\ UNCHANGED <<depth, outcome, current_frame>>
        /\ handlers' = IF handlers = <<>> THEN handlers ELSE Front(handlers)
    BY DEF TryEnd, LeaveTry, Inside
  <1>2. /\ tries \in Seq(Try) /\ handlers \in Seq(HandlerSet)
        /\ Len(tries) \in Nat /\ Len(handlers) \in Nat /\ depth \in 1 .. MaxFrames
    BY <1>1, Live
  <1>3. /\ tries' \in Seq(Try) /\ Len(tries') = m /\ m \in Nat /\ m < Len(tries)
        /\ \A i \in 1 .. m : tries'[i] = tries[i]
    <2>1. /\ Len(tries) \in Nat \ {0} /\ Front(tries) \in Seq(Try) /\ Len(Front(tries)) = m
          /\ \A i \in 1 .. m : Front(tries)[i] = tries[i]
      BY <1>1, <1>2, FrontOf
    <2> QED
      BY <1>1, <2>1
  <1>4. /\ handlers' \in Seq(HandlerSet) /\ Len(handlers') = n /\ n \in 0 .. Len(handlers)
        /\ \A i \in 1 .. n : handlers'[i] = handlers[i]
        /\ \A i \in 1 .. n : i \in 1 .. Len(handlers) /\ i < Len(handlers) /\ Len(handlers) \in 1 .. Len(handlers)
    <2>1. CASE handlers = <<>>
      <3>1. handlers' = <<>> /\ n = 0 /\ Len(handlers) = 0
        BY <1>1, <2>1, EmptySeq
      <3> QED
        BY <1>2, <2>1, <3>1
    <2>2. CASE handlers # <<>>
      <3>1. handlers' = Front(handlers) /\ n = Len(handlers) - 1
        BY <1>1, <2>2
      <3>2. /\ Len(handlers) \in Nat \ {0} /\ handlers' \in Seq(HandlerSet) /\ Len(handlers') = n
            /\ \A i \in 1 .. n : handlers'[i] = handlers[i]
        BY <1>2, <2>2, <3>1, FrontOf
      <3> QED
        BY <3>1, <3>2
    <2> QED
      BY <2>1, <2>2
  <1> HIDE DEF n
  <1>5. \A i \in 1 .. n : Len(handlers[i].at) + 1 <= m
    <2> TAKE i \in 1 .. n
    <2>1. i \in 1 .. Len(handlers) /\ i < Len(handlers) /\ Len(handlers) \in 1 .. Len(handlers)
      BY <1>4
    <2>2. /\ Len(handlers[i].at) < Len(handlers[Len(handlers)].at)
          /\ Len(handlers[Len(handlers)].at) + 1 <= Len(tries)
          /\ Len(handlers[i].at) \in Nat /\ Len(handlers[Len(handlers)].at) \in Nat
      BY <1>1, <2>1, Live
    <2> QED
      BY <1>2, <2>2
  <1>6. \A k \in 1 .. m : tries'[k].frame = tries[k].frame /\ tries[k].frame <= depth'
    <2>1. 1 .. m \subseteq 1 .. Len(tries)
      BY <1>2
    <2> QED
      BY <1>1, <1>3, <2>1, Live
  <1>7. current_frame' \in 1 .. MaxFrames /\ depth' \in 1 .. MaxFrames
    BY <1>1 DEF HandlersInv, TypeOK
  <1>8. Len(tries') <= Len(tries) /\ m <= Len(tries')
    BY <1>2, <1>3
  <1> HIDE DEF m
  <1> QED
    BY <1>1, <1>3, <1>4, <1>5, <1>6, <1>7, <1>8, CutKeeps
\* A call only adds a frame.
LEMMA CallKeeps ==
  ASSUME HandlersInv, CvmCall
  PROVE  HandlersInv'
  <1>1. /\ Running /\ depth < MaxFrames /\ depth' = depth + 1 /\ UNCHANGED <<tries, outcome, handlers>>
        /\ current_frame' = depth'
    BY DEF CvmCall, Call
  <1>2. /\ depth \in 1 .. MaxFrames /\ MaxFrames \in Nat \ {0} /\ tries \in Seq(Try) /\ handlers \in Seq(HandlerSet)
        /\ Len(tries) \in Nat /\ Len(handlers) \in Nat
    BY <1>1, Live
  <1>3. depth' \in 1 .. MaxFrames
    BY <1>1, <1>2
  <1>4. \A k \in 1 .. Len(tries) : tries[k].frame <= depth'
    <2> TAKE k \in 1 .. Len(tries)
    <2>1. tries[k].frame \in 1 .. MaxFrames /\ tries[k].frame <= depth
      BY <1>1, Live
    <2> QED
      BY <1>1, <1>2, <2>1
  <1>5. \A i \in 1 .. Len(handlers) : Len(handlers[i].at) + 1 <= Len(tries)
    BY <1>1, Live
  <1>6. Len(handlers) \in 0 .. Len(handlers) /\ Len(tries) <= Len(tries)
    BY <1>2
  <1> QED
    BY <1>1, <1>2, <1>3, <1>4, <1>5, <1>6, CutKeeps

\* A function returns outside its own try statements: none of them is left.
LEMMA ReturnStays ==
  ASSUME HandlersInv, ~ReturnInTry, CvmReturn, depth # 1
  PROVE  /\ Running /\ depth' = depth - 1 /\ depth' \in 1 .. MaxFrames
         /\ current_frame' = depth'
         /\ UNCHANGED <<tries, outcome, handlers>>
         /\ \A i \in 1 .. Len(tries) : tries[i].frame <= depth'
  <1> DEFINE n == Len(tries)
  <1>1. /\ Running /\ ~Inside /\ depth' = depth - 1 /\ current_frame' = depth'
        /\ UNCHANGED <<outcome, handlers>>
    BY DEF CvmReturn, Return
  <1>2. PICK m \in 0 .. n : /\ \A k \in DOMAIN tries : k <= m <=> tries[k].frame < depth
                            /\ tries' = SubSeq(tries, 1, m)
    BY DEF CvmReturn, Return
  <1>3. /\ tries \in Seq(Try) /\ n \in Nat
        /\ depth \in 1 .. MaxFrames /\ MaxFrames \in Nat \ {0} /\ DOMAIN tries = 1 .. n
    BY <1>1, Live
  <1>4. /\ \A i \in 1 .. n : tries[i].frame \in 1 .. MaxFrames /\ tries[i].frame <= depth
        /\ \A j, k \in 1 .. n : j <= k => tries[j].frame <= tries[k].frame
    BY <1>1, Live
  <1>5. ASSUME NEW i \in 1 .. n
        PROVE  tries[i].frame < depth
    <2>1. n \in 1 .. n /\ i <= n /\ tries # <<>>
      BY <1>3
    <2>2. Last(tries).frame # depth /\ Last(tries) = tries[n]
      BY <1>1, <2>1 DEF Inside, Last
    <2>3. tries[n].frame \in 1 .. MaxFrames /\ tries[n].frame <= depth /\ tries[i].frame <= tries[n].frame
      BY <1>4, <2>1
    <2>4. tries[i].frame \in 1 .. MaxFrames
      BY <1>4
    <2> QED
      BY <1>3, <2>2, <2>3, <2>4
  <1>6. tries' = tries
    <2>1. m = n
      <3>1. CASE n = 0
        BY <1>3, <3>1
      <3>2. CASE n # 0
        <4>1. n \in DOMAIN tries
          BY <1>3, <3>2
        <4>2. n <= m
          BY <1>2, <1>3, <1>5, <4>1
        <4>3. m \in 0 .. n /\ n \in Nat
          BY <1>3
        <4> HIDE DEF n
        <4> QED
          BY <4>2, <4>3
      <3> QED
        BY <3>1, <3>2
    <2> QED
      BY <1>2, <1>3, <2>1, SubSeqFull
  <1>7. depth' \in 1 .. MaxFrames
    BY <1>1, <1>3
  <1>8. \A i \in 1 .. n : tries[i].frame <= depth'
    <2> TAKE i \in 1 .. n
    <2>1. tries[i].frame < depth /\ tries[i].frame \in 1 .. MaxFrames
      BY <1>4, <1>5
    <2> QED
      BY <1>1, <1>3, <2>1
  <1> QED
    BY <1>1, <1>6, <1>7, <1>8

LEMMA ReturnKeeps ==
  ASSUME HandlersInv, ~ReturnInTry, CvmReturn
  PROVE  HandlersInv'
  <1>1. CASE depth = 1
    <2>1. outcome' = "returned" /\ UNCHANGED <<depth, tries, handlers>> /\ current_frame' = depth'
      BY <1>1 DEF CvmReturn, Return, End
    <2>2. current_frame' \in 1 .. MaxFrames
      BY <2>1 DEF HandlersInv, TypeOK
    <2> QED
      BY <2>1, <2>2, EndKeeps
  <1>2. CASE depth # 1
    <2>1. /\ Running /\ depth' \in 1 .. MaxFrames /\ current_frame' \in 1 .. MaxFrames
          /\ UNCHANGED <<tries, outcome, handlers>>
          /\ \A i \in 1 .. Len(tries) : tries[i].frame <= depth'
      BY <1>2, ReturnStays
    <2>2. tries \in Seq(Try) /\ handlers \in Seq(HandlerSet) /\ Len(tries) \in Nat /\ Len(handlers) \in Nat
      BY <2>1, Live
    <2>3. \A i \in 1 .. Len(handlers) : Len(handlers[i].at) + 1 <= Len(tries)
      BY <2>1, Live
    <2>4. Len(handlers) \in 0 .. Len(handlers) /\ Len(tries) <= Len(tries)
      BY <2>2
    <2> QED
      BY <2>1, <2>2, <2>3, <2>4, CutKeeps
  <1> QED
    BY <1>1, <1>2

\* The handler that vm_runtime_error stops at.
LEMMA FoundHandler ==
  ASSUME HandlersInv, Running, NEW first, NEW next, Matching(first, next) # {}
  PROVE  LET k == CHOOSE i \in Matching(first, next) : \A j \in Matching(first, next) : j <= i
         IN  k \in 1 .. Len(handlers)
  <1> DEFINE M == Matching(first, next)
             g == [i \in M |-> i]
  <1>1. M \subseteq 1 .. Len(handlers) /\ Len(handlers) \in Nat
    <2>1. handlers \in Seq(HandlerSet)
      BY Live
    <2>2. DOMAIN handlers = 1 .. Len(handlers) /\ Len(handlers) \in Nat
      BY <2>1
    <2> QED
      BY <2>2 DEF Matching
  <1>2. IsFiniteSet(M)
    <2>1. IsFiniteSet(1 .. Len(handlers))
      BY <1>1, FS_Interval
    <2> QED
      BY <1>1, <2>1, FS_Subset
  <1> HIDE DEF M
  <1>3. \A i \in M : g[i] = i /\ g[i] \in Int
    BY <1>1
  <1>4. M # {}
    BY DEF M
  <1> HIDE DEF g
  <1>5. \E k \in M : \A j \in M : g[j] <= g[k]
    BY <1>2, <1>3, <1>4, GreatestMeasure
  <1>6. \E k \in M : \A j \in M : j <= k
    BY <1>3, <1>5
  <1>7. (CHOOSE i \in M : \A j \in M : j <= i) \in M
    BY <1>6
  <1> QED
    BY <1>1, <1>7 DEF M

\* A search: the handlers above the one that matches are gone, and it with them;
\* those below it belong to try bodies around its own.
LEMMA ErrorKeeps ==
  ASSUME HandlersInv, NEW first, NEW next, Error(first, next)
  PROVE  HandlersInv'
  <1>1. Running /\ UNCHANGED current_frame /\ current_frame \in 1 .. MaxFrames
    BY DEF Error, HandlersInv, TypeOK
  <1>2. CASE Matching(first, next) = {}
    <2>1. outcome' = "uncaught" /\ UNCHANGED <<depth, tries>> /\ handlers' = <<>>
      BY <1>2 DEF Error, End
    <2> QED
      BY <1>1, <2>1, EndKeeps
  <1>3. CASE Matching(first, next) # {}
    <2> DEFINE k == CHOOSE i \in Matching(first, next) : \A j \in Matching(first, next) : j <= i
               h == handlers[k]
               x == [frame |-> h.frame, exc |-> h.exc, phase |-> "except"]
               m == Len(h.at)
               n == k - 1
    <2>1. k \in 1 .. Len(handlers)
      BY <1>1, <1>3, FoundHandler
    <2>2. /\ depth' = h.frame /\ tries' = Append(h.at, x) /\ UNCHANGED outcome
          /\ handlers' = SubSeq(handlers, 1, n)
      BY <1>3 DEF Error
    <2> HIDE DEF k
    <2>3. /\ tries \in Seq(Try) /\ handlers \in Seq(HandlerSet) /\ Len(tries) \in Nat /\ Len(handlers) \in Nat
          /\ h.exc \in Exc /\ h.frame \in 1 .. MaxFrames /\ h.at \in Seq(Try) /\ m \in Nat
          /\ \A j \in 1 .. m : h.at[j] = tries[j]
          /\ tries[m + 1].frame = h.frame /\ m + 1 <= Len(tries)
      BY <1>1, <2>1, Live
    <2>4. x \in Try /\ x.frame = h.frame
      BY <2>3 DEF Try
    <2> HIDE DEF x
    <2>5. /\ tries' \in Seq(Try) /\ Len(tries') = m + 1 /\ tries'[m + 1] = x
          /\ \A j \in 1 .. m : tries'[j] = tries[j]
      BY <2>2, <2>3, <2>4, AppendOf
    <2>6. n \in 0 .. Len(handlers) /\ \A i \in 1 .. n : i \in 1 .. Len(handlers) /\ i < k
      BY <2>1, <2>3
    <2>7. /\ handlers' \in Seq(HandlerSet) /\ Len(handlers') = n
          /\ \A i \in 1 .. n : handlers'[i] = handlers[i]
      BY <2>2, <2>3, <2>6, PrefixOf
    <2>8. \A i \in 1 .. n : Len(handlers[i].at) + 1 <= m
      <3> TAKE i \in 1 .. n
      <3>1. Len(handlers[i].at) < Len(handlers[k].at) /\ Len(handlers[i].at) \in Nat
        BY <1>1, <2>1, <2>6, Live
      <3> QED
        BY <2>3, <3>1
    <2>9. \A j \in 1 .. m + 1 : tries'[j].frame = tries[j].frame /\ tries[j].frame <= depth'
      <3> TAKE j \in 1 .. m + 1
      <3>1. j \in 1 .. Len(tries) /\ m + 1 \in 1 .. Len(tries) /\ j <= m + 1
        BY <2>3
      <3>2. tries[j].frame <= tries[m + 1].frame
        BY <1>1, <3>1, Live
      <3>3. CASE j = m + 1
        BY <2>2, <2>3, <2>4, <2>5, <3>2, <3>3
      <3>4. CASE j # m + 1
        <4>1. j \in 1 .. m
          BY <2>3, <3>4
        <4> QED
          BY <2>2, <2>3, <2>5, <3>2, <4>1
      <3> QED
        BY <3>3, <3>4
    <2>10. Len(tries') <= Len(tries) /\ m <= Len(tries') /\ depth' \in 1 .. MaxFrames
      BY <2>2, <2>3, <2>5
    <2> HIDE DEF m, n, h
    <2>11. m \in Nat /\ \A j \in 1 .. Len(tries') : tries'[j].frame = tries[j].frame /\ tries[j].frame <= depth'
      BY <2>3, <2>5, <2>9
    <2> QED
      BY <1>1, <2>2, <2>5, <2>6, <2>7, <2>8, <2>10, <2>11, CutKeeps
  <1> QED
    BY <1>2, <1>3

LEMMA ExceptionsNext == ~ReturnInTry /\ HandlersInv /\ [CvmNext]_cvmVars => HandlersInv'
  <1> SUFFICES ASSUME ~ReturnInTry, HandlersInv, [CvmNext]_cvmVars PROVE HandlersInv'
    OBVIOUS
  <1>1. ASSUME NEW e \in Exc, TryBegin(e) PROVE HandlersInv'
    <2>1. CASE /\ Len(handlers) < MAX_EXCEPTION_HANDLERS
               /\ EnterTry(e)
               /\ handlers' = Append(handlers, Handler(e))
               /\ UNCHANGED current_frame
      BY <2>1, BeginKeeps
    <2>2. CASE End("too deep") /\ UNCHANGED <<handlers, current_frame>>
      <3>1. outcome' = "too deep" /\ UNCHANGED <<depth, tries, handlers>> /\ current_frame' \in 1 .. MaxFrames
        BY <2>2 DEF End, HandlersInv, TypeOK
      <3> QED
        BY <3>1, EndKeeps
    <2> QED
      BY <1>1, <2>1, <2>2 DEF TryBegin
  <1>2. ASSUME NEW e \in Exc, Fault(e) PROVE HandlersInv'
    BY <1>2, ErrorKeeps DEF Fault
  <1>3. ASSUME NEW e \in Exc, NEW looksLike \in Exc, CvmRaise(e, looksLike) PROVE HandlersInv'
    BY <1>3, ErrorKeeps DEF CvmRaise
  <1>4. CASE CvmEnded \/ UNCHANGED cvmVars
    BY <1>4 DEF CvmEnded, Ended, cvmVars, position, HandlersInv, TypeOK, HandlersLive, Nested, Running, TryOf
  <1> QED
    BY <1>1, <1>2, <1>3, <1>4, TryEndKeeps, CallKeeps, ReturnKeeps DEF CvmNext

---------------------------------------------------------------------------
\* The inductive invariant.  HandlersLive alone is not inductive: that a handler
\* survives the return of a function needs Nested, which says that a function
\* that is outside its own try statements has none on the stack of them.
THEOREM HandlersSafety == ~ReturnInTry /\ CvmSpec => []HandlersInv
  <1> SUFFICES ASSUME ~ReturnInTry PROVE CvmSpec => []HandlersInv
    OBVIOUS
  <1>1. HandlersInv /\ [CvmNext]_cvmVars => HandlersInv'
    BY ExceptionsNext
  <1> QED
    BY <1>1, ExceptionsInit, PTL DEF CvmSpec

\* The handler stack stays within its limit, and what it holds are handlers.
THEOREM HandlersTypes == ~ReturnInTry /\ CvmSpec => []TypeOK
  <1>1. HandlersInv => TypeOK
    BY DEF HandlersInv
  <1> QED
    BY <1>1, HandlersSafety, PTL

\* Whatever the C VM pops too early or passes over, and whatever the type a
\* search goes on with, vm_runtime_error never continues in the except block of a try
\* that has ended: handlers are those of try bodies that run, in their order.
THEOREM HandlersStayLive == ~ReturnInTry /\ CvmSpec => []HandlersLive
  <1>1. HandlersInv => HandlersLive
    BY DEF HandlersInv
  <1> QED
    BY <1>1, HandlersSafety, PTL
============================================================================
