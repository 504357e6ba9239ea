----------------------------- MODULE LiveIntervals -----------------------------
(***************************************************************************)
(* Where the values of a function live: the live intervals of              *)
(* src/src/optimizer/analysis.py and the equations of its liveness, and    *)
(* what it means that a value is live.                                     *)
(*                                                                         *)
(* A function has blocks in an order, a sequence of instructions and of    *)
(* successors for each label, and arity parameters, which are its first    *)
(* values.                                                                 *)
(***************************************************************************)
EXTENDS SequencesExt

Succs(fn, l) == {fn.succs[l][i] : i \in DOMAIN fn.succs[l]}
Labels(fn) == {fn.order[i] : i \in DOMAIN fn.order}
Points(fn) == UNION {{<<l, i>> : i \in DOMAIN fn.code[l]} : l \in Labels(fn)}
InstAt(fn, p) == fn.code[p[1]][p[2]]
Parameters(fn) == 1 .. fn.arity
\* The parameters and what the instructions compute.
ValuesOf(fn) == Parameters(fn) \cup ({InstAt(fn, p).r : p \in Points(fn)} \ {0})

-----------------------------------------------------------------------------
\* LivenessInfo._compute: what a block reads before it computes it, and what it
\* computes.  A phi node reads its operands like any other instruction.
Gen(is) == UNION {{is[i].a[j] : j \in DOMAIN is[i].a} \ {is[k].r : k \in 1 .. i - 1} : i \in DOMAIN is}
Kill(is) == {is[i].r : i \in DOMAIN is} \ {0}
LiveOutOf(fn, in, l) == UNION {in[s] : s \in Succs(fn, l)}
\* One round over the blocks.
LiveInOf(fn, in) ==
  [l \in Labels(fn) |-> Gen(fn.code[l]) \cup (LiveOutOf(fn, in, l) \ Kill(fn.code[l]))]

-----------------------------------------------------------------------------
\* compute_live_intervals numbers the instructions in the order of the blocks.
StartOf(fn) ==
  LET before[k \in 0 .. Len(fn.order)] ==
        IF k = 0 THEN 0 ELSE before[k - 1] + Len(fn.code[fn.order[k]])
  IN [l \in Labels(fn) |-> before[(CHOOSE k \in DOMAIN fn.order : fn.order[k] = l) - 1]]
PosOf(at, p) == at[p[1]] + p[2] - 1
EndOf(fn, at, l) == IF l \in Labels(fn) THEN at[l] + Len(fn.code[l]) ELSE 0

\* From the definition to the last use behind it; a parameter is there from the
\* start.
UsesFrom(fn, at, v, from) ==
  {PosOf(at, p) + 1 :
     p \in {q \in Points(fn) : PosOf(at, q) >= from /\ \E j \in DOMAIN InstAt(fn, q).a : InstAt(fn, q).a[j] = v}}
Origin(fn, at, v) ==
  IF v \in Parameters(fn) THEN 0 ELSE PosOf(at, CHOOSE p \in Points(fn) : InstAt(fn, p).r = v)
Ranges(fn, at) ==
  [v \in ValuesOf(fn) |->
     LET start == Origin(fn, at, v)
         least == IF v \in Parameters(fn) THEN 0 ELSE start + 1
     IN [start |-> start, end |-> Max({least} \cup UsesFrom(fn, at, v, least))]]

\* Mutant: no edge is one back.
NoBackTo(fn, at, l) == {}
\* Where the edges go from block l that lead back.
BackTo(fn, at, l) == {at[s] : s \in {t \in Succs(fn, l) \cap Labels(fn) : at[t] < at[l]}}
\* What is live at the head of an edge back is so to the end of the block.
Stretch(fn, at, ivs, l) ==
  [v \in DOMAIN ivs |->
     IF \E head \in BackTo(fn, at, l) : ivs[v].start <= head /\ ivs[v].end > head
     THEN [ivs[v] EXCEPT !.end = Max({@, EndOf(fn, at, l)})]
     ELSE ivs[v]]
\* Over the edges back of all blocks, in the order of the blocks.
StretchAll(fn, at, ivs) ==
  LET after[k \in 0 .. Len(fn.order)] ==
        IF k = 0 THEN ivs ELSE Stretch(fn, at, after[k - 1], fn.order[k])
  IN after[Len(fn.order)]
\* What a phi node reads is read at the end of the block it comes from, if that
\* block is still there.
PhiEnds(fn, at, v) ==
  UNION {{EndOf(fn, at, InstAt(fn, p).t[j]) : j \in {k \in DOMAIN InstAt(fn, p).a : InstAt(fn, p).a[k] = v}} :
           p \in {q \in Points(fn) : InstAt(fn, q).op = "PHI"}}
ToPhis(fn, at, ivs) ==
  [v \in DOMAIN ivs |-> [ivs[v] EXCEPT !.end = Max({@} \cup PhiEnds(fn, at, v))]]
Extents(fn, at) == ToPhis(fn, at, StretchAll(fn, at, Ranges(fn, at)))

CallPoint == {"CALL", "PRINTLN", "LIST_GET", "TRY_BEGIN", "TRY_END", "RAISE"}
Clobbers(op) == CASE op \in {"DIV", "MOD"} -> {"rax", "rdx"}
                  [] op \in {"SHL", "SHR"} -> {"rcx"}
                  [] OTHER -> {}
Mark(fn, at, v, iv) ==
  LET over == {p \in Points(fn) : iv.start <= PosOf(at, p) /\ PosOf(at, p) < iv.end}
  IN [v |-> v, start |-> iv.start, end |-> iv.end,
      crosses |-> \E p \in over : InstAt(fn, p).op \in CallPoint,
      forbidden |-> UNION {Clobbers(InstAt(fn, p).op) : p \in {q \in over : iv.start < PosOf(at, q)}}]
IntervalsAt(fn, at) == {Mark(fn, at, v, Extents(fn, at)[v]) : v \in ValuesOf(fn)}
Intervals(fn) == IntervalsAt(fn, StartOf(fn))

-----------------------------------------------------------------------------
\* Where v lives: a phi node reads its operand at the end of the block it comes
\* from.
Reads(is, v) == {i \in DOMAIN is : is[i].op # "PHI" /\ \E j \in DOMAIN is[i].a : is[i].a[j] = v}
Computed(is, v) == {i \in DOMAIN is : is[i].r = v}
PhiReads(fn, l, v) ==
  \E s \in Succs(fn, l) : \E i \in DOMAIN fn.code[s] : \E j \in DOMAIN fn.code[s][i].a :
    fn.code[s][i].op = "PHI" /\ fn.code[s][i].t[j] = l /\ fn.code[s][i].a[j] = v
\* The blocks v is live at the start of: those that need it, and those that come to
\* one of them without computing it, as many as there are.
Needs(fn, v) ==
  {l \in Labels(fn) :
     \/ PhiReads(fn, l, v) /\ Computed(fn.code[l], v) = {}
     \/ \E i \in Reads(fn.code[l], v) : \A k \in Computed(fn.code[l], v) : i <= k}
ComesTo(fn, v, ls) ==
  {l \in Labels(fn) : Computed(fn.code[l], v) = {} /\ Succs(fn, l) \cap ls # {}}
Enters(fn, v) ==
  LET within[k \in 0 .. Len(fn.order)] ==
        IF k = 0 THEN Needs(fn, v) ELSE within[k - 1] \cup ComesTo(fn, v, within[k - 1])
  IN within[Len(fn.order)]
LiveStarts(fn) == [v \in ValuesOf(fn) |-> Enters(fn, v)]
LiveAtEnd(fn, starts, l, v) == PhiReads(fn, l, v) \/ Succs(fn, l) \cap starts[v] # {}
\* The values that are live behind instruction i of l.
LiveBehind(fn, starts, l, i) ==
  {v \in DOMAIN starts :
     /\ \A k \in Computed(fn.code[l], v) : k <= i
     /\ (\E k \in Computed(fn.code[l], v) : TRUE) \/ l \in starts[v]
     /\ LiveAtEnd(fn, starts, l, v) \/ \E k \in Reads(fn.code[l], v) : k > i}

-----------------------------------------------------------------------------
\* What the passes leave behind: blocks that are not empty and whose successors
\* are blocks, each value computed once, in a block that is numbered before those
\* that need it.
Numbered(fn) ==
  /\ fn.arity \in Nat
  /\ fn.order \in Seq(Labels(fn))
  /\ \A i, j \in DOMAIN fn.order : fn.order[i] = fn.order[j] => i = j
  /\ \A l \in Labels(fn) :
       /\ fn.code[l] \in Seq({fn.code[l][i] : i \in DOMAIN fn.code[l]}) /\ fn.code[l] # <<>>
       /\ Succs(fn, l) \subseteq Labels(fn)
OnceComputed(fn) ==
  \A p, q \in Points(fn) :
    LET r == InstAt(fn, p).r
    IN r # 0 => r \notin Parameters(fn) /\ (InstAt(fn, q).r = r => p = q)
ComputedBefore(fn) ==
  \A v \in ValuesOf(fn) \ Parameters(fn) : \A l \in LiveStarts(fn)[v] :
    \E p \in Points(fn) : InstAt(fn, p).r = v /\ PosOf(StartOf(fn), p) < StartOf(fn)[l]
\* The interval of a value that is longer for a phi node ends behind every edge
\* back over which the value lives.
PhisLast(fn) ==
  LET at == StartOf(fn)
      short == StretchAll(fn, at, Ranges(fn, at))
      long == Extents(fn, at)
  IN \A v \in ValuesOf(fn) : long[v].end # short[v].end =>
       \A l \in Labels(fn) : \A head \in BackTo(fn, at, l) :
         long[v].start <= head /\ head < long[v].end => EndOf(fn, at, l) <= long[v].end
\* No block goes to itself: that would be no edge back.
NoneToItself(fn) == \A l \in Labels(fn) : l \notin Succs(fn, l)
\* Phi nodes come first in their block, have one operand for each block they may come
\* from, and a result that is needed behind them.
PhiPoints(fn, l) == {i \in DOMAIN fn.code[l] : fn.code[l][i].op = "PHI"}
PhisFirst(fn) ==
  \A l \in Labels(fn) : \A i \in PhiPoints(fn, l) :
    LET x == fn.code[l][i] IN
    /\ \A k \in 1 .. i : k \in PhiPoints(fn, l)
    /\ x.a \in Seq(ValuesOf(fn)) /\ DOMAIN x.t = DOMAIN x.a
    /\ \A j, k \in DOMAIN x.t : x.t[j] = x.t[k] => j = k
    /\ x.r # 0 /\ (Reads(fn.code[l], x.r) # {} \/ LiveAtEnd(fn, LiveStarts(fn), l, x.r))
Ready(fn) ==
  /\ Numbered(fn) /\ OnceComputed(fn) /\ ComputedBefore(fn)
  /\ PhisFirst(fn) /\ PhisLast(fn) /\ NoneToItself(fn)
=============================================================================
