------------------------------ MODULE MovesProofs ------------------------------
(***************************************************************************)
(* Proofs about ParallelMoves: whatever copies are wanted, in whatever     *)
(* order the list names them, what is emitted has the effect of doing all  *)
(* of them at once.                                                        *)
(***************************************************************************)
EXTENDS EdgeCopies, PlacementProofs

(* What holds of every call, and from the call on.                          *)
CallsApart == \A c \in Calls : Apart(c.moves, c.holds)

(* The invariant: a copy that is left still finds its value, in its source  *)
(* or parked in the scratch register, and then all that are left are in     *)
(* cycles; a copy that is done has put it where it belongs; nothing else    *)
(* has changed.                                                             *)
Waiting ==
  \A i \in left :
    /\ source[i] \in {moves[i].from, Scratch}
    /\ source[i] \in DOMAIN contents
    /\ contents[source[i]] = before[moves[i].from]
Parked == \E i \in left : source[i] = Scratch
InCycles ==
  Parked => \E set \in SUBSET DOMAIN moves : left \subseteq set /\ Cyclic(moves, set)
Done == \A i \in DOMAIN moves \ left : contents[moves[i].to] = before[moves[i].from]
Others == \A l \in DOMAIN contents \ (Targets \cup {Scratch}) : contents[l] = before[l]
MovesInv ==
  /\ Apart(moves, before)
  /\ left \subseteq DOMAIN moves
  /\ DOMAIN contents = DOMAIN before
  /\ DOMAIN source = DOMAIN moves
  /\ Waiting /\ InCycles /\ Done /\ Others

LEMMA SameMoves ==
  ASSUME UNCHANGED <<moves, before>>
  PROVE  /\ Apart(moves, before)' <=> Apart(moves, before)
         /\ \A set : Cyclic(moves, set)' <=> Cyclic(moves, set)
<1>1. moves' = moves /\ before' = before
  OBVIOUS
<1>2. Apart(moves', before') <=> Apart(moves, before)
  BY <1>1
<1>3. \A set : Cyclic(moves', set) <=> Cyclic(moves, set)
  BY <1>1
<1> QED BY <1>2, <1>3

LEMMA LeftFinite ==
  ASSUME MovesInv
  PROVE  /\ IsFiniteSet(left)
         /\ \A set \in SUBSET left : set # {} => First(set) \in set
<1>3. IsFiniteSet(left) /\ left \subseteq Nat
  <2>1. IsFiniteSet(DOMAIN moves) /\ DOMAIN moves \subseteq Nat /\ left \subseteq DOMAIN moves
    BY DEF MovesInv, Apart
  <2>2. IsFiniteSet(left)
    BY <2>1, FS_Subset
  <2> QED BY <2>1, <2>2
<1>4. ASSUME NEW set \in SUBSET left, set # {} PROVE First(set) \in set
  <2> DEFINE m == [i \in set |-> i]
  <2>1. IsFiniteSet(set)
    BY <1>3, FS_Subset
  <2>2. \A i \in set : m[i] = i /\ m[i] \in Int
    BY <1>3
  <2> HIDE DEF m
  <2>3. PICK x \in set : \A y \in set : m[x] <= m[y]
    BY <1>4, <2>1, <2>2, LeastMeasure
  <2> QED BY <2>2, <2>3 DEF First
<1> QED BY <1>3, <1>4

LEMMA MoveTypes ==
  ASSUME MovesInv
  PROVE  \A i \in DOMAIN moves : moves[i].from \in DOMAIN before /\ moves[i].to \in DOMAIN before
  BY DEF MovesInv, Apart

(* If no copy is safe none has been parked: the copies that are left write  *)
(* as many locations as they read, all of them written by one of them, and  *)
(* none of them writes the scratch register.  What is left is cycles.       *)
LEMMA OnlyCycles ==
  ASSUME MovesInv, \A i \in left : ~Safe(i)
  PROVE  /\ \A i \in left : source[i] = moves[i].from
         /\ Cyclic(moves, left)
<1> DEFINE to == [i \in left |-> moves[i].to]
<1>1. \A i, j \in left : to[i] = to[j] => i = j
  BY DEF MovesInv, Apart
<1>2. \A i \in left : \E j \in left : source[j] = to[i]
  BY DEF Safe
<1>3. \A i \in left : to[i] = moves[i].to /\ to[i] # Scratch
  BY DEF MovesInv, Apart
<1> HIDE DEF to
<1>4. \A j \in left : \E i \in left : source[j] = to[i]
  BY <1>1, <1>2, LeftFinite, AllReadWritten
<1>5. \A i \in left : source[i] = moves[i].from
  BY <1>3, <1>4 DEF MovesInv, Waiting
<1>6. Cyclic(moves, left)
  BY <1>2, <1>3, <1>4, <1>5 DEF Cyclic
<1> QED BY <1>5, <1>6

---------------------------------------------------------------------------
LEMMA MovesInit == CopiesInit => MovesInv
<1> SUFFICES ASSUME CopiesInit PROVE MovesInv
  OBVIOUS
<1>1. moves = <<>> /\ before = <<>> /\ left = {} /\ source = <<>> /\ contents = <<>> /\ DOMAIN moves = {}
  BY DEF CopiesInit
<1>2. Apart(moves, before)
  BY <1>1, FS_EmptySet DEF Apart, NoSlotCycle
<1> QED
  BY <1>1, <1>2 DEF MovesInv, Waiting, InCycles, Parked, Done, Others

LEMMA CallKeeps ==
  ASSUME NEW ms, NEW holds, Apart(ms, holds), BeginCopies(ms, holds)
  PROVE  MovesInv'
<1>1. moves' = ms /\ before' = holds
  BY DEF BeginCopies
<1>2. \A i \in DOMAIN ms : ms[i].from \in DOMAIN holds /\ ms[i].from # Scratch
  BY DEF Apart
<1>3. left' = DOMAIN ms /\ contents' = holds /\ source' = [i \in DOMAIN ms |-> ms[i].from]
  BY DEF BeginCopies
<1>4. Waiting'
  BY <1>1, <1>2, <1>3 DEF Waiting
<1>5. Done' /\ Others'
  BY <1>1, <1>3 DEF Done, Others
<1>6. Apart(moves, before)'
  <2>1. Apart(moves', before')
    BY <1>1
  <2> QED BY <2>1 DEF Apart, NoSlotCycle, Cyclic
<1>7. InCycles'
  BY <1>1, <1>2, <1>3 DEF InCycles, Parked
<1> QED BY <1>1, <1>3, <1>4, <1>5, <1>6, <1>7 DEF MovesInv

(* One move, executed when nobody else reads its target.  If it goes        *)
(* through the scratch register nothing is parked there.                    *)
LEMMA EmitMoveKeeps ==
  ASSUME MovesInv, EmitMove
  PROVE  MovesInv'
<1> DEFINE i == First({j \in left : Safe(j)})
<1>1. i \in left /\ Safe(i)
  <2>1. {j \in left : Safe(j)} \in SUBSET left /\ {j \in left : Safe(j)} # {}
    BY DEF EmitMove
  <2> QED BY <2>1, LeftFinite
<1>2. /\ contents' = Moved(source[i], moves[i].to)
      /\ left' = left \ {i}
      /\ UNCHANGED <<moves, before, source>>
  BY DEF EmitMove
<1> HIDE DEF i
<1>3. i \in DOMAIN moves /\ moves[i].to \in DOMAIN contents /\ moves[i].to # Scratch
  BY <1>1, MoveTypes DEF MovesInv, Apart
<1>4. contents[source[i]] = before[moves[i].from]
  BY <1>1 DEF MovesInv, Waiting
<1>5. /\ DOMAIN contents' = DOMAIN contents
      /\ contents'[moves[i].to] = before[moves[i].from]
      /\ \A l \in DOMAIN contents \ {moves[i].to, Scratch} : contents'[l] = contents[l]
      /\ Parked => contents'[Scratch] = contents[Scratch]
  <2>1. DOMAIN contents' = DOMAIN contents
    BY <1>2 DEF Moved
  <2>2. contents'[moves[i].to] = contents[source[i]]
    BY <1>2, <1>3 DEF Moved
  <2>3. \A l \in DOMAIN contents \ {moves[i].to, Scratch} : contents'[l] = contents[l]
    BY <1>2 DEF Moved
  <2>4. ASSUME Parked PROVE contents'[Scratch] = contents[Scratch]
    <3>1. ~(moves[i].from \in Memory /\ moves[i].to \in Memory)
      <4>1. PICK set \in SUBSET DOMAIN moves : left \subseteq set /\ Cyclic(moves, set)
        BY <2>4 DEF MovesInv, InCycles
      <4> QED BY <1>1, <4>1 DEF MovesInv, Apart, NoSlotCycle
    <3>2. Scratch \in DOMAIN contents
      BY <2>4 DEF MovesInv, Waiting, Parked
    <3>3. source[i] = Scratch \/ ~(source[i] \in Memory /\ moves[i].to \in Memory)
      BY <1>1, <3>1 DEF MovesInv, Waiting
    <3>4. contents'[Scratch] = IF Scratch = moves[i].to \/ (Scratch = Scratch /\ source[i] \in Memory /\ moves[i].to \in Memory)
                               THEN contents[source[i]] ELSE contents[Scratch]
      BY <1>2, <3>2 DEF Moved
    <3> QED BY <1>3, <3>3, <3>4
  <2> QED BY <1>4, <2>1, <2>2, <2>3, <2>4
<1>6. Waiting'
  <2> SUFFICES ASSUME NEW j \in left', j # i, j \in left
               PROVE  /\ source[j] \in {moves[j].from, Scratch}
                      /\ source[j] \in DOMAIN contents
                      /\ contents'[source[j]] = before[moves[j].from]
    BY <1>2, <1>5 DEF Waiting
  <2>1. source[j] # moves[i].to
    BY <1>1 DEF Safe
  <2>2. source[j] = Scratch => Parked
    BY DEF Parked
  <2> QED BY <1>5, <2>1, <2>2 DEF MovesInv, Waiting
<1>7. Done'
  <2> SUFFICES ASSUME NEW j \in DOMAIN moves, j \notin left \/ j = i
               PROVE  contents'[moves[j].to] = before[moves[j].from]
    BY <1>2 DEF Done
  <2>1. CASE j = i
    BY <1>5, <2>1
  <2>2. CASE j # i
    <3>1. moves[j].to \in DOMAIN contents \ {moves[i].to, Scratch}
      BY <1>3, <2>2, MoveTypes DEF MovesInv, Apart
    <3> QED BY <1>5, <2>2, <3>1 DEF MovesInv, Done
  <2> QED BY <2>1, <2>2
<1>8. Others'
  <2>1. moves[i].to \in Targets /\ Targets' = Targets
    BY <1>2, <1>3 DEF Targets
  <2> QED BY <1>2, <1>5, <2>1 DEF MovesInv, Others
<1>9. Apart(moves, before)' /\ left' \subseteq DOMAIN moves' /\ DOMAIN contents' = DOMAIN before'
        /\ DOMAIN source' = DOMAIN moves'
  BY <1>2, <1>5, SameMoves DEF MovesInv
<1>10. InCycles'
  <2>1. Parked' => Parked
    BY <1>2 DEF Parked
  <2> QED BY <1>2, <2>1, SameMoves DEF MovesInv, InCycles
<1> QED BY <1>6, <1>7, <1>8, <1>9, <1>10 DEF MovesInv

(* The value of the first copy is parked: the scratch register is free.     *)
LEMMA BreakCycleKeeps ==
  ASSUME MovesInv, BreakCycle
  PROVE  MovesInv'
<1> DEFINE i == First(left)
<1>1. i \in left
  BY LeftFinite DEF BreakCycle
<1>2. /\ contents' = [contents EXCEPT ![Scratch] = contents[source[i]]]
      /\ source' = [source EXCEPT ![i] = Scratch]
      /\ UNCHANGED <<moves, before, left>>
  BY DEF BreakCycle
<1>3. \A j \in left : source[j] = moves[j].from
  BY OnlyCycles DEF BreakCycle
<1> HIDE DEF i
<1>4. i \in DOMAIN moves
  BY <1>1 DEF MovesInv
<1>5. /\ DOMAIN contents' = DOMAIN contents /\ Scratch \in DOMAIN contents
      /\ contents'[Scratch] = contents[source[i]]
      /\ \A l \in DOMAIN contents : l # Scratch => contents'[l] = contents[l]
  BY <1>2, <1>4 DEF MovesInv, Apart
<1>6. Waiting'
  <2> SUFFICES ASSUME NEW j \in left
               PROVE  /\ source'[j] \in {moves[j].from, Scratch}
                      /\ source'[j] \in DOMAIN contents
                      /\ contents'[source'[j]] = before[moves[j].from]
    BY <1>2, <1>5 DEF Waiting
  <2>1. CASE j = i
    BY <1>1, <1>2, <1>4, <1>5, <2>1 DEF MovesInv, Waiting
  <2>2. CASE j # i
    <3>1. source'[j] = source[j] /\ source[j] # Scratch
      BY <1>2, <1>3, <2>2 DEF MovesInv, Apart
    <3> QED BY <1>5, <3>1 DEF MovesInv, Waiting
  <2> QED BY <2>1, <2>2
<1>7. Done'
  <2> SUFFICES ASSUME NEW j \in DOMAIN moves \ left
               PROVE  contents'[moves[j].to] = before[moves[j].from]
    BY <1>2 DEF Done
  <2>1. moves[j].to # Scratch /\ moves[j].to \in DOMAIN contents
    BY MoveTypes DEF MovesInv, Apart
  <2> QED BY <1>5, <2>1 DEF MovesInv, Done
<1>8. Others'
  <2>1. Targets' = Targets
    BY <1>2 DEF Targets
  <2> QED BY <1>2, <1>5, <2>1 DEF MovesInv, Others
<1>9. Apart(moves, before)' /\ left' \subseteq DOMAIN moves' /\ DOMAIN contents' = DOMAIN before'
        /\ DOMAIN source' = DOMAIN moves'
  BY <1>2, <1>5, SameMoves DEF MovesInv
<1>10. InCycles'
  <2>1. Cyclic(moves, left) /\ left \subseteq DOMAIN moves
    BY OnlyCycles DEF BreakCycle, MovesInv
  <2>2. left' \subseteq left /\ left \in SUBSET DOMAIN moves'
    BY <1>2, <2>1
  <2>3. Cyclic(moves, left)'
    BY <1>2, <2>1
  <2> QED BY <1>2, <2>1, <2>2, SameMoves DEF InCycles
<1> QED BY <1>6, <1>7, <1>8, <1>9, <1>10 DEF MovesInv

LEMMA MovesStay == ASSUME MovesInv, UNCHANGED copyVars PROVE MovesInv'
<1>1. UNCHANGED <<moves, before, left, source, contents>>
  BY DEF copyVars
<1>2. Apart(moves, before)' /\ InCycles'
  BY <1>1, SameMoves DEF MovesInv, InCycles, Parked
<1> QED BY <1>1, <1>2 DEF MovesInv, Waiting, Done, Others, Targets

LEMMA MovesNext == CallsApart /\ MovesInv /\ [CopiesNext]_copyVars => MovesInv'
<1> SUFFICES ASSUME CallsApart, MovesInv, [CopiesNext]_copyVars PROVE MovesInv'
  OBVIOUS
<1>1. CASE \E c \in Calls : BeginCopies(c.moves, c.holds)
  <2>1. PICK c \in Calls : BeginCopies(c.moves, c.holds)
    BY <1>1
  <2> QED BY <2>1, CallKeeps DEF CallsApart
<1>2. CASE EmitMove
  BY <1>2, EmitMoveKeeps
<1>3. CASE BreakCycle
  BY <1>3, BreakCycleKeeps
<1>4. CASE UNCHANGED copyVars
  BY <1>4, MovesStay
<1> QED BY <1>1, <1>2, <1>3, <1>4 DEF CopiesNext, EmitCopy

(* _emit_parallel_int_moves is a parallel assignment: when the last copy is *)
(* emitted every target has the value its source had before the first one,  *)
(* and everything but the scratch register is as it was.                    *)
THEOREM CopiesAtOnce == CallsApart /\ CopiesSpec => []AllAtOnce
<1> SUFFICES ASSUME CallsApart PROVE CopiesSpec => []AllAtOnce
  OBVIOUS
<1>1. MovesInv => AllAtOnce
  BY DEF MovesInv, Done, Others, AllAtOnce
<1>2. MovesInv /\ [CopiesNext]_copyVars => MovesInv'
  BY MovesNext
<1> QED BY <1>1, <1>2, MovesInit, PTL DEF CopiesSpec
---------------------------------------------------------------------------
(* Why the emission comes to an end.                                        *)

(* The copies that still read where they did at the start.                  *)
Unparked == {i \in left : source[i] # Scratch}
(* Fewer copies are left, or as many, one of them parked where none was.    *)
Fewer ==
  \/ left' \subseteq left /\ left' # left
  \/ left' = left /\ Unparked = left /\ Unparked' # left

LEMMA EmitAdvances ==
  ASSUME MovesInv, EmitCopy PROVE Fewer
<1>1. CASE EmitMove
  <2> DEFINE i == First({j \in left : Safe(j)})
  <2>1. i \in left
    <3>1. {j \in left : Safe(j)} \in SUBSET left /\ {j \in left : Safe(j)} # {}
      BY <1>1 DEF EmitMove
    <3> QED BY <3>1, LeftFinite
  <2>2. left' = left \ {i}
    BY <1>1 DEF EmitMove
  <2> HIDE DEF i
  <2> QED BY <2>1, <2>2 DEF Fewer
<1>2. CASE BreakCycle
  <2> DEFINE i == First(left)
  <2>1. i \in left
    BY <1>2, LeftFinite DEF BreakCycle
  <2>2. left' = left /\ source' = [source EXCEPT ![i] = Scratch]
    BY <1>2 DEF BreakCycle
  <2> HIDE DEF i
  <2>3. \A j \in left : source[j] = moves[j].from /\ moves[j].from # Scratch
    BY <1>2, OnlyCycles DEF BreakCycle, MovesInv, Apart
  <2>4. i \in DOMAIN source
    BY <2>1 DEF MovesInv
  <2>5. Unparked = left
    BY <2>3 DEF Unparked
  <2>6. i \notin Unparked'
    BY <2>2, <2>4 DEF Unparked
  <2> QED BY <2>1, <2>2, <2>5, <2>6 DEF Fewer
<1> QED BY <1>1, <1>2 DEF EmitCopy

(* Every move that is emitted leaves fewer copies, and a value is parked    *)
(* only while none is: a list of n copies is done after 2n steps at most,   *)
(* and the loop over what remains never goes round in a circle.             *)
THEOREM CopiesAdvance == CallsApart /\ CopiesSpec => [][EmitCopy => Fewer]_copyVars
<1> SUFFICES ASSUME CallsApart PROVE CopiesSpec => [][EmitCopy => Fewer]_copyVars
  OBVIOUS
<1>1. MovesInv /\ [CopiesNext]_copyVars => MovesInv'
  BY MovesNext
<1>2. MovesInv /\ [CopiesNext]_copyVars => [EmitCopy => Fewer]_copyVars
  BY EmitAdvances
<1> QED BY <1>1, <1>2, MovesInit, PTL DEF CopiesSpec

---------------------------------------------------------------------------
(* The way over an edge, when all values are placed.                        *)

(* What the linear scan and the analyses have left.                         *)
LEMMA AsAnalysed ==
  ASSUME AllReady, PlaceInv, AllPlaced
  PROVE  /\ Ready(fn) /\ Numbered(fn) /\ starts = LiveStarts(fn) /\ DOMAIN starts = ValuesOf(fn)
         /\ \A v \in DOMAIN starts : starts[v] = Enters(fn, v)
<1>1. Ready(fn) /\ starts = LiveStarts(fn)
  BY DEF AllPlaced, PlaceInv, Analysed, AllReady
<1> QED
  BY <1>1 DEF Ready, LiveStarts

(* Two values that are live at the end of a block have places of their own. *)
LEMMA EndApart ==
  ASSUME AllReady, PlaceInv, AllPlaced, NEW l \in Labels(fn),
         NEW v \in DOMAIN starts, LiveAtEnd(fn, starts, l, v),
         NEW w \in DOMAIN starts, LiveAtEnd(fn, starts, l, w), Loc(v) = Loc(w)
  PROVE  v = w
<1> DEFINE n == Size(fn, l)
<1>1. n \in DOMAIN fn.code[l]
  <2>1. n \in Nat \ {0} /\ DOMAIN fn.code[l] = 1 .. n
    BY AsAnalysed, Sizes
  <2> HIDE DEF n
  <2> QED BY <2>1
<1>2. v \in LiveBehind(fn, starts, l, n) /\ w \in LiveBehind(fn, starts, l, n)
  BY AsAnalysed, LiveBehindLast
<1> HIDE DEF n
<1> QED
  BY <1>1, <1>2, PlacedApart DEF LiveApart

(* So each of them is where it belongs.                                     *)
LEMMA HeldThere ==
  ASSUME AllReady, PlaceInv, AllPlaced, NEW e \in Edges,
         NEW v \in DOMAIN starts, LiveAtEnd(fn, starts, e[1], v)
  PROVE  HeldOn(e)[Loc(v)] = v
<1> DEFINE at(l) == {u \in DOMAIN starts : LiveAtEnd(fn, starts, e[1], u) /\ Loc(u) = l}
<1>1. e[1] \in Labels(fn)
  BY DEF Edges
<1>2. at(Loc(v)) = {v}
  BY <1>1, EndApart
<1>3. HeldOn(e)[Loc(v)] = IF at(Loc(v)) = {} THEN 0 ELSE CHOOSE u \in at(Loc(v)) : TRUE
  BY DEF HeldOn
<1> HIDE DEF at
<1> QED
  BY <1>2, <1>3

LEMMA HeldPlaces ==
  ASSUME NEW e
  PROVE  Scratch \in DOMAIN HeldOn(e) /\ \A v \in DOMAIN starts : Loc(v) \in DOMAIN HeldOn(e)
  BY DEF HeldOn

(* What a phi node reads on the way from a block is live at its end.        *)
LEMMA OperandThere ==
  ASSUME AllReady, PlaceInv, AllPlaced, NEW e \in Edges, NEW i \in PhiPoints(fn, e[2]),
         NEW j \in DOMAIN fn.code[e[2]][i].t, fn.code[e[2]][i].t[j] = e[1]
  PROVE  LET x == fn.code[e[2]][i]
         IN /\ OperandFrom(x, e[1]) = x.a[j] /\ x.a[j] \in DOMAIN starts
            /\ LiveAtEnd(fn, starts, e[1], x.a[j])
<1> DEFINE x == fn.code[e[2]][i]
<1>1. e[1] \in Labels(fn) /\ e[2] \in Labels(fn) /\ e[2] \in Succs(fn, e[1])
  BY DEF Edges
<1>2. /\ x.a \in Seq(ValuesOf(fn)) /\ DOMAIN x.t = DOMAIN x.a
      /\ \A k \in DOMAIN x.t : x.t[k] = e[1] => k = j
      /\ x.op = "PHI" /\ i \in DOMAIN fn.code[e[2]]
  BY <1>1, AsAnalysed DEF Ready, PhisFirst, PhiPoints
<1>3. {k \in DOMAIN x.t : x.t[k] = e[1]} = {j}
  BY <1>2
<1>4. j \in DOMAIN x.a
  BY <1>2
<1>5. x.a[j] \in ValuesOf(fn) /\ j \in Nat
  <2> HIDE DEF x
  <2> QED BY <1>2, <1>4
<1>6. Min({j}) = j
  BY <1>5 DEF Min
<1>7. OperandFrom(x, e[1]) = x.a[j]
  <2> HIDE DEF x
  <2> QED BY <1>3, <1>6 DEF OperandFrom
<1>8. PhiReads(fn, e[1], x.a[j])
  BY <1>1, <1>2, <1>4 DEF PhiReads
<1> QED
  BY <1>5, <1>7, <1>8, AsAnalysed DEF LiveAtEnd

(* The phi nodes of a block have places of their own, apart from those of   *)
(* what is live at its start.                                               *)
LEMMA ResultsApart ==
  ASSUME AllReady, PlaceInv, AllPlaced, NEW e \in Edges
  PROVE  LET r(i) == fn.code[e[2]][i].r
         IN /\ \A i \in PhiPoints(fn, e[2]) : r(i) \in DOMAIN starts
            /\ \A i, k \in PhiPoints(fn, e[2]) : Loc(r(i)) = Loc(r(k)) => i = k
            /\ \A i \in PhiPoints(fn, e[2]) : \A v \in DOMAIN starts :
                 e[2] \in starts[v] => Loc(r(i)) # Loc(v)
<1> DEFINE l == e[2]  r(i) == fn.code[l][i].r  P == PhiPoints(fn, l)  n == Max(P)
           B == LiveBehind(fn, starts, l, n)
<1>1. l \in Labels(fn) /\ P # {} /\ Ready(fn) /\ Numbered(fn) /\ OnceComputed(fn) /\ PhisFirst(fn)
  BY AsAnalysed DEF Edges, Ready
<1>2. n \in P /\ \A i \in P : i <= n
  <2> DEFINE m == Size(fn, l)
  <2>1. m \in Nat /\ DOMAIN fn.code[l] = 1 .. m
    BY <1>1, Sizes
  <2>2. P \subseteq 1 .. m
    BY <2>1 DEF PhiPoints
  <2> HIDE DEF m, P
  <2>3. P \subseteq Nat /\ \A i \in P : i <= m
    <3>1. \A i \in 1 .. m : i \in Nat /\ i <= m
      BY <2>1
    <3> QED BY <2>2, <3>1
  <2>4. P # {}
    BY <1>1
  <2>5. Max(P) \in P /\ \A i \in P : i <= Max(P)
    BY <2>1, <2>3, <2>4, BoundedMax
  <2> QED BY <2>5
<1> HIDE DEF n
<1>3. /\ \A v \in DOMAIN starts : l \in starts[v] => v \in B /\ Computed(fn.code[l], v) = {}
      /\ \A i \in P : r(i) \in B /\ r(i) \in DOMAIN starts
  BY <1>1, <1>2, AsAnalysed, LiveBehindPhis
<1>4. \A v, w \in B : v # w => Loc(v) # Loc(w)
  <2>1. n \in DOMAIN fn.code[l]
    BY <1>2 DEF PhiPoints
  <2> QED BY <1>1, <2>1, PlacedApart DEF LiveApart
<1>5. ASSUME NEW i \in P, NEW k \in P, r(i) = r(k) PROVE i = k
  <2>1. <<l, i>> \in Points(fn) /\ <<l, k>> \in Points(fn) /\ r(i) # 0
    BY <1>1 DEF PhiPoints, Points, PhisFirst
  <2>2. InstAt(fn, <<l, i>>).r = r(i) /\ InstAt(fn, <<l, k>>).r = r(k)
    BY DEF InstAt
  <2>3. <<l, i>> = <<l, k>>
    <3> HIDE DEF r
    <3> QED BY <1>1, <1>5, <2>1, <2>2 DEF OnceComputed
  <2> QED BY <2>3
<1>6. ASSUME NEW i \in P, NEW v \in DOMAIN starts, l \in starts[v] PROVE r(i) # v
  <2>1. i \in Computed(fn.code[l], r(i))
    BY DEF PhiPoints, Computed
  <2> HIDE DEF r
  <2> QED BY <1>3, <1>6, <2>1
<1> HIDE DEF B
<1> QED
  BY <1>3, <1>4, <1>5, <1>6
(* What is copied: what a phi node reads on the way, if it is elsewhere.     *)
LEMMA WhatMoves ==
  ASSUME NEW e
  PROVE  LET x(i) == fn.code[e[2]][i]
             from(i) == Loc(OperandFrom(x(i), e[1]))
             to(i) == Loc(x(i).r)
         IN /\ DOMAIN MovesOn(e) =
                 {k \in PhiPoints(fn, e[2]) : (\E j \in DOMAIN x(k).t : x(k).t[j] = e[1]) /\ from(k) # to(k)}
            /\ \A i \in DOMAIN MovesOn(e) : MovesOn(e)[i].from = from(i) /\ MovesOn(e)[i].to = to(i)
<1> DEFINE ms == MovesOn(e)  x(i) == fn.code[e[2]][i]
           from(i) == Loc(OperandFrom(x(i), e[1]))  to(i) == Loc(x(i).r)
           D == {k \in PhiPoints(fn, e[2]) : (\E j \in DOMAIN x(k).t : x(k).t[j] = e[1]) /\ from(k) # to(k)}
<1>1. ms = [i \in D |-> [from |-> from(i), to |-> to(i)]]
  BY DEF MovesOn
<1>2. DOMAIN ms = D /\ \A i \in D : ms[i].from = from(i) /\ ms[i].to = to(i)
  <2> HIDE DEF ms, D, from, to
  <2> QED BY <1>1
<1> HIDE DEF from, to
<1> QED BY <1>2 DEF from, to

(* The copies are wanted of places that hold the values and to places apart. *)
LEMMA CopiesApart ==
  ASSUME AllReady, PlaceInv, AllPlaced, NEW e \in Edges, NoSlotCycle(MovesOn(e)),
         \A v \in DOMAIN starts : Loc(v) # Scratch
  PROVE  Apart(MovesOn(e), HeldOn(e))
<1> DEFINE ms == MovesOn(e)  P == PhiPoints(fn, e[2])  x(i) == fn.code[e[2]][i]
           from(i) == Loc(OperandFrom(x(i), e[1]))  to(i) == Loc(x(i).r)
           D == {k \in P : (\E j \in DOMAIN x(k).t : x(k).t[j] = e[1]) /\ from(k) # to(k)}
<1>2. DOMAIN ms = D /\ \A i \in D : ms[i].from = from(i) /\ ms[i].to = to(i)
  BY WhatMoves
<1>3. IsFiniteSet(D) /\ D \subseteq Nat
  <2> DEFINE m == Size(fn, e[2])
  <2>1. m \in Nat /\ DOMAIN fn.code[e[2]] = 1 .. m
    BY AsAnalysed, Sizes DEF Edges
  <2>2. D \subseteq 1 .. m
    BY <2>1 DEF PhiPoints
  <2> HIDE DEF m, D
  <2>3. IsFiniteSet(1 .. m)
    BY <2>1, FS_Interval
  <2> QED BY <2>1, <2>2, <2>3, FS_Subset
<1>4. ASSUME NEW i \in D
      PROVE  /\ {from(i), to(i), Scratch} \subseteq DOMAIN HeldOn(e)
             /\ from(i) # Scratch /\ to(i) # Scratch
  <2>1. i \in P /\ \E j \in DOMAIN x(i).t : x(i).t[j] = e[1]
    OBVIOUS
  <2>2. OperandFrom(x(i), e[1]) \in DOMAIN starts
    BY <2>1, OperandThere
  <2>3. x(i).r \in DOMAIN starts
    BY <2>1, ResultsApart
  <2> HIDE DEF x, D
  <2> QED BY <2>2, <2>3, HeldPlaces
<1>5. \A i, k \in D : to(i) = to(k) => i = k
  BY ResultsApart
<1> HIDE DEF ms, D, from, to
<1>6. IsFiniteSet(DOMAIN ms) /\ DOMAIN ms \subseteq Nat /\ NoSlotCycle(ms)
  BY <1>2, <1>3 DEF ms
<1>7. \A i \in DOMAIN ms :
        /\ {ms[i].from, ms[i].to, Scratch} \subseteq DOMAIN HeldOn(e)
        /\ ms[i].from # Scratch /\ ms[i].to # Scratch
  BY <1>2, <1>4
<1>8. \A i, j \in DOMAIN ms : ms[i].to = ms[j].to => i = j
  BY <1>2, <1>5
<1> QED
  BY <1>6, <1>7, <1>8 DEF Apart, ms

(* From the arrival on: the copies are those of the edge.                   *)
EdgeInv ==
  /\ PlaceInv
  /\ fn = <<>> => starts = <<>>
  /\ edge = <<>> => left = {}
  /\ edge # <<>> =>
       /\ AllPlaced /\ edge \in Edges /\ moves = MovesOn(edge) /\ before = HeldOn(edge)
       /\ ScratchKept => MovesInv

LEMMA EdgeStart == EdgeInit => EdgeInv
<1> SUFFICES ASSUME EdgeInit PROVE EdgeInv
  OBVIOUS
<1>1. PlaceInv /\ starts = <<>> /\ edge = <<>> /\ left = {}
  BY PlaceInit DEF EdgeInit, PlacementInit, CopiesInit
<1> QED BY <1>1 DEF EdgeInv

(* What the copies are taken from does not change while they are made.      *)
LEMMA EdgeStays ==
  ASSUME NEW e, UNCHANGED placementVars, edge' = e
  PROVE  /\ AllPlaced' <=> AllPlaced
         /\ Edges' = Edges /\ MovesOn(edge)' = MovesOn(e) /\ HeldOn(edge)' = HeldOn(e)
         /\ (\A v \in DOMAIN starts : Loc(v) # Scratch)' <=> \A v \in DOMAIN starts : Loc(v) # Scratch
<1>1. fn' = fn /\ starts' = starts /\ reg' = reg /\ slot' = slot /\ request' = request /\ todo' = todo /\ edge' = e
  BY DEF placementVars, allocVars
<1>2. AllPlaced' <=> AllPlaced
  BY <1>1 DEF AllPlaced
<1>3. Edges' = Edges
  BY <1>1 DEF Edges
<1>4. MovesOn(edge)' = MovesOn(e)
  BY <1>1 DEF MovesOn, Loc
<1>5. HeldOn(edge)' = HeldOn(e)
  BY <1>1 DEF HeldOn, Loc
<1>6. (\A v \in DOMAIN starts : Loc(v) # Scratch)' <=> \A v \in DOMAIN starts : Loc(v) # Scratch
  BY <1>1 DEF Loc
<1> QED BY <1>2, <1>3, <1>4, <1>5, <1>6

LEMMA EdgeNextKeeps == AllReady /\ EdgeInv /\ [EdgeNext]_<<fn, placingVars>> => EdgeInv'
<1> SUFFICES ASSUME AllReady, EdgeInv, [EdgeNext]_<<fn, placingVars>> PROVE EdgeInv'
  OBVIOUS
<1>1. CASE PlacementNext /\ UNCHANGED <<edge, copyVars>>
  <2>1. PlaceInv'
    BY <1>1, PlaceNext DEF EdgeInv
  <2>2. fn' = <<>> => starts' = <<>>
    BY <1>1 DEF EdgeInv, PlacementNext, Isolated, Analyse, Allocate
  <2>3. edge = <<>>
    <3> SUFFICES ASSUME edge # <<>> PROVE FALSE
      OBVIOUS
    <3>1. starts # <<>> /\ todo = {} /\ fn # <<>>
      BY DEF EdgeInv, AllPlaced
    <3>2. ~Place
      BY <3>1 DEF Place, Skip, Assign, SpillOther, SpillSelf
    <3> QED BY <1>1, <3>1, <3>2 DEF PlacementNext, Isolated, Analyse, Allocate
  <2>4. edge' = <<>> /\ left' = {}
    BY <1>1, <2>3 DEF EdgeInv, copyVars
  <2> QED BY <2>1, <2>2, <2>4 DEF EdgeInv
<1>2. CASE Arrive
  <2>1. AllPlaced /\ UNCHANGED placementVars
    BY <1>2 DEF Arrive
  <2>2. PICK e \in Edges : edge' = e /\ BeginCopies(MovesOn(e), HeldOn(e))
    BY <1>2 DEF Arrive
  <2>3. PlaceInv /\ PlaceInv' /\ fn' = fn /\ starts' = starts /\ (fn = <<>> => starts = <<>>)
    <3>1. [PlacementNext]_placementVars /\ fn' = fn /\ starts' = starts
      BY <2>1 DEF placementVars
    <3> QED BY <3>1, PlaceNext DEF EdgeInv
  <2>4. AllPlaced' /\ Edges' = Edges /\ MovesOn(edge)' = MovesOn(e) /\ HeldOn(edge)' = HeldOn(e)
    BY <2>1, <2>2, EdgeStays
  <2>5. moves' = MovesOn(e) /\ before' = HeldOn(e)
    BY <2>2 DEF BeginCopies
  <2>6. ASSUME ScratchKept' PROVE MovesInv'
    <3>1. NoSlotCycle(moves')
      BY <2>6 DEF ScratchKept, NoSlotCycle, Cyclic
    <3>2. \A v \in DOMAIN starts : Loc(v) # Scratch
      BY <2>1, <2>2, <2>6, EdgeStays DEF ScratchKept
    <3>3. NoSlotCycle(MovesOn(e))
      BY <2>5, <3>1
    <3>4. Apart(MovesOn(e), HeldOn(e))
      BY <2>1, <2>2, <2>3, <3>2, <3>3, CopiesApart
    <3> QED BY <2>2, <3>4, CallKeeps
  <2>7. edge' # <<>>
    <3>1. PICK a, b \in Labels(fn) : e = <<a, b>>
      BY DEF Edges
    <3> QED BY <2>2, <3>1
  <2> QED BY <2>2, <2>3, <2>4, <2>5, <2>6, <2>7 DEF EdgeInv
<1>3. CASE Copy
  <2>1. EmitCopy /\ UNCHANGED placementVars /\ edge' = edge
    BY <1>3 DEF Copy
  <2>2. left # {} /\ moves' = moves /\ before' = before
    BY <2>1 DEF EmitCopy, EmitMove, BreakCycle
  <2>3. edge # <<>>
    BY <2>2 DEF EdgeInv
  <2>4. PICK f : f = edge
    OBVIOUS
  <2>5. PlaceInv' /\ fn' = fn /\ starts' = starts
    <3>1. [PlacementNext]_placementVars /\ fn' = fn /\ starts' = starts
      BY <2>1 DEF placementVars
    <3> QED BY <3>1, PlaceNext DEF EdgeInv
  <2>6. AllPlaced' /\ Edges' = Edges /\ MovesOn(edge)' = MovesOn(f) /\ HeldOn(edge)' = HeldOn(f)
    BY <2>1, <2>3, <2>4, EdgeStays DEF EdgeInv
  <2>7. ASSUME ScratchKept' PROVE MovesInv'
    <3>1. NoSlotCycle(moves)
      BY <2>2, <2>7 DEF ScratchKept, NoSlotCycle, Cyclic
    <3>2. \A v \in DOMAIN starts : Loc(v) # Scratch
      BY <2>1, <2>4, <2>7, EdgeStays DEF ScratchKept
    <3>3. MovesInv
      BY <2>3, <3>1, <3>2 DEF EdgeInv, ScratchKept
    <3> QED BY <2>1, <3>3, EmitMoveKeeps, BreakCycleKeeps DEF EmitCopy
  <2>8. moves = MovesOn(f) /\ before = HeldOn(f) /\ edge \in Edges
    BY <2>3, <2>4 DEF EdgeInv
  <2>9. /\ fn' = <<>> => starts' = <<>>
        /\ edge' = <<>> => left' = {}
    BY <2>1, <2>3, <2>5 DEF EdgeInv
  <2>10. edge' \in Edges' /\ moves' = MovesOn(edge)' /\ before' = HeldOn(edge)'
    BY <2>1, <2>2, <2>6, <2>8
  <2> QED BY <2>5, <2>6, <2>7, <2>9, <2>10 DEF EdgeInv
<1>4. CASE UNCHANGED <<fn, placingVars>>
  <2>1. UNCHANGED placementVars /\ edge' = edge /\ UNCHANGED copyVars
    BY <1>4 DEF placingVars, placementVars
  <2>2. PICK f : f = edge
    OBVIOUS
  <2>3. PlaceInv' /\ fn' = fn /\ starts' = starts
    <3>1. [PlacementNext]_placementVars /\ fn' = fn /\ starts' = starts
      BY <2>1 DEF placementVars
    <3> QED BY <3>1, PlaceNext DEF EdgeInv
  <2>4. /\ AllPlaced' <=> AllPlaced
        /\ Edges' = Edges /\ MovesOn(edge)' = MovesOn(f) /\ HeldOn(edge)' = HeldOn(f)
    BY <2>1, <2>2, EdgeStays
  <2>5. moves' = moves /\ before' = before /\ left' = left
    BY <2>1 DEF copyVars
  <2>6. ASSUME edge # <<>>, ScratchKept' PROVE MovesInv'
    <3>1. NoSlotCycle(moves)
      BY <2>5, <2>6 DEF ScratchKept, NoSlotCycle, Cyclic
    <3>2. \A v \in DOMAIN starts : Loc(v) # Scratch
      BY <2>1, <2>2, <2>6, EdgeStays DEF ScratchKept
    <3>3. MovesInv
      BY <2>6, <3>1, <3>2 DEF EdgeInv, ScratchKept
    <3> QED BY <2>1, <3>3, MovesStay
  <2>7. ASSUME edge # <<>>
        PROVE  AllPlaced' /\ edge' \in Edges' /\ moves' = MovesOn(edge)' /\ before' = HeldOn(edge)'
    BY <2>1, <2>2, <2>4, <2>5, <2>7 DEF EdgeInv
  <2>8. /\ fn' = <<>> => starts' = <<>>
        /\ edge' = <<>> => left' = {}
    BY <2>1, <2>3, <2>5 DEF EdgeInv
  <2> QED BY <2>1, <2>3, <2>6, <2>7, <2>8 DEF EdgeInv
<1> QED
  BY <1>1, <1>2, <1>3, <1>4 DEF EdgeNext

(* Behind an edge every phi node has what it reads on the way, and what is  *)
(* live there is where it was: the analyses, the allocation and the copies  *)
(* of codegen.py agree, for every function that is Ready and every set of   *)
(* registers, as long as no value has r11 and no cycle of copies goes from  *)
(* slot to slot.                                                            *)
THEOREM EdgesKeep == AllReady /\ EdgeSpec => [](ScratchKept => EdgeKeeps)
<1> SUFFICES ASSUME AllReady PROVE EdgeSpec => [](ScratchKept => EdgeKeeps)
  OBVIOUS
<1>1. EdgeInv /\ [EdgeNext]_<<fn, placingVars>> => EdgeInv'
  BY EdgeNextKeeps
<1>2. ASSUME EdgeInv, ScratchKept PROVE EdgeKeeps
  <2> SUFFICES ASSUME edge # <<>>, left = {}
               PROVE  /\ Apart(moves, before)
                      /\ \A v \in DOMAIN starts : edge[2] \in starts[v] => contents[Loc(v)] = v
                      /\ \A i \in PhiPoints(fn, edge[2]) : LET x == fn.code[edge[2]][i] IN
                           \A j \in DOMAIN x.a : x.t[j] = edge[1] => contents[Loc(x.r)] = x.a[j]
    BY DEF EdgeKeeps
  <2>1. /\ PlaceInv /\ AllPlaced /\ edge \in Edges /\ moves = MovesOn(edge) /\ before = HeldOn(edge)
        /\ MovesInv
    BY <1>2 DEF EdgeInv
  <2>2. /\ Apart(moves, before) /\ DOMAIN contents = DOMAIN before
        /\ \A i \in DOMAIN moves : contents[moves[i].to] = before[moves[i].from]
        /\ \A l \in DOMAIN contents \ (Targets \cup {Scratch}) : contents[l] = before[l]
    BY <2>1 DEF MovesInv, Done, Others
  <2>3. PICK e \in Edges : e = edge /\ e[1] \in Labels(fn) /\ e[2] \in Succs(fn, e[1])
    BY <2>1 DEF Edges
  <2> DEFINE x(i) == fn.code[e[2]][i]  P == PhiPoints(fn, e[2])
  <2>4. ASSUME NEW v \in DOMAIN starts, LiveAtEnd(fn, starts, e[1], v), Loc(v) \notin Targets
        PROVE  contents[Loc(v)] = v
    <3>1. before[Loc(v)] = v /\ Loc(v) \in DOMAIN before
      BY <2>1, <2>3, <2>4, HeldThere, HeldPlaces
    <3>2. Loc(v) # Scratch
      BY <1>2 DEF ScratchKept
    <3> QED BY <2>2, <2>4, <3>1, <3>2
  <2>5. Targets = {Loc(x(k).r) : k \in DOMAIN moves} /\ DOMAIN moves \subseteq P
    <3>1. \A k \in DOMAIN moves : moves[k].to = Loc(x(k).r) /\ k \in P
      BY <2>1, <2>3, WhatMoves
    <3> HIDE DEF x, P
    <3> QED BY <3>1 DEF Targets
  <2>6. ASSUME NEW v \in DOMAIN starts, e[2] \in starts[v]
        PROVE  contents[Loc(v)] = v
    <3>1. LiveAtEnd(fn, starts, e[1], v)
      BY <2>3, <2>6 DEF LiveAtEnd
    <3>2. Loc(v) \notin Targets
      BY <2>1, <2>5, <2>6, ResultsApart
    <3> QED BY <2>4, <3>1, <3>2
  <2>7. ASSUME NEW i \in P, NEW j \in DOMAIN x(i).a, x(i).t[j] = e[1]
        PROVE  contents[Loc(x(i).r)] = x(i).a[j]
    <3> DEFINE u == x(i).a[j]
    <3>1. j \in DOMAIN x(i).t
      <4>1. e[2] \in Labels(fn) /\ PhisFirst(fn)
        BY <2>1, AsAnalysed DEF Edges, Ready
      <4>2. DOMAIN x(i).t = DOMAIN x(i).a
        BY <4>1 DEF PhisFirst
      <4> QED BY <4>2
    <3>2. OperandFrom(x(i), e[1]) = u /\ u \in DOMAIN starts /\ LiveAtEnd(fn, starts, e[1], u)
      BY <2>1, <2>7, <3>1, OperandThere
    <3>3. CASE Loc(u) = Loc(x(i).r)
      <4>1. i \notin DOMAIN moves
        <5>1. i \in DOMAIN MovesOn(e) => Loc(OperandFrom(x(i), e[1])) # Loc(x(i).r)
          BY WhatMoves
        <5>2. Loc(OperandFrom(x(i), e[1])) = Loc(x(i).r)
          <6> HIDE DEF x, u
          <6> QED BY <3>2, <3>3
        <5> QED BY <2>1, <2>3, <5>1, <5>2
      <4>2. \A k \in P : Loc(x(k).r) = Loc(x(i).r) => k = i
        BY <2>1, ResultsApart
      <4>3. Loc(u) \notin Targets
        <5> HIDE DEF x, u, P
        <5> QED BY <2>5, <3>3, <4>1, <4>2
      <4>4. contents[Loc(u)] = u
        <5> HIDE DEF u
        <5> QED BY <2>4, <3>2, <4>3
      <4> QED BY <3>3, <4>4
    <3>4. CASE Loc(u) # Loc(x(i).r)
      <4>1. /\ i \in DOMAIN moves
            /\ moves[i].from = Loc(u) /\ moves[i].to = Loc(x(i).r)
        BY <2>1, <2>3, <2>7, <3>1, <3>2, <3>4, WhatMoves
      <4>2. before[Loc(u)] = u
        <5> HIDE DEF u
        <5> QED BY <2>1, <2>3, <3>2, HeldThere
      <4> QED BY <2>2, <4>1, <4>2
    <3> QED BY <3>3, <3>4
  <2> QED BY <2>2, <2>3, <2>6, <2>7
<1> QED
  BY <1>1, <1>2, EdgeStart, PTL DEF EdgeSpec
================================================================================
