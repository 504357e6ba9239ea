------------------------------- MODULE Placement -------------------------------
(***************************************************************************)
(* Where the values of one function are: from the live intervals of        *)
(* analysis.py over the allocation of regalloc.py to the registers         *)
(* codegen.py saves around a call.                                         *)
(***************************************************************************)
EXTENDS LinearScan, LiveIntervals

CONSTANTS
  Functions,    \* the functions there may be
  Files,        \* the sets of registers there may be
  ArgRegs,      \* ARG_REGS
  CallerSaved   \* CALLER_SAVED_GPRS

\* The ABI names each argument register once.
ASSUME PlacementAssumption ==
  /\ ArgRegs \in Seq(STRING)
  /\ \A i, j \in DOMAIN ArgRegs : ArgRegs[i] = ArgRegs[j] => i = j
  /\ {"rax", "r10", "r11"} \subseteq CallerSaved

VARIABLES
  fn,      \* the function there are registers for; <<>> before
  starts   \* value :> the blocks it is live at the start of
placementVars == <<fn, starts, allocVars>>

\* The parameters in ARG_REGS as far as they go, the others in the first slots.
RequestOf(ir, file) ==
  [intervals |-> Intervals(ir),
   params |-> [v \in 1 .. Min({ir.arity, Len(ArgRegs)}) |-> ArgRegs[v]],
   stacked |-> [v \in Len(ArgRegs) + 1 .. ir.arity |-> v - Len(ArgRegs) - 1],
   file |-> file]

PlacementInit == fn = <<>> /\ starts = <<>> /\ AllocInit
Isolated ==
  /\ fn = <<>> /\ fn' \in Functions
  /\ UNCHANGED <<starts, allocVars>>
Analyse ==
  /\ fn # <<>> /\ starts = <<>> /\ ValuesOf(fn) # {}
  /\ starts' = LiveStarts(fn)
  /\ \E file \in Files : Begin(RequestOf(fn, file))
  /\ UNCHANGED fn
Allocate == starts # <<>> /\ Place /\ UNCHANGED <<fn, starts>>
PlacementNext == Isolated \/ Analyse \/ Allocate
PlacementSpec == PlacementInit /\ [][PlacementNext]_placementVars

-----------------------------------------------------------------------------
\* _loc
Loc(v) == IF v \in DOMAIN reg THEN <<"reg", reg[v]>> ELSE <<"slot", slot[v]>>

\* Mutant: what is read by the next instruction only is not saved.
SavesShort(l, i) ==
  LET cp == StartOf(fn)[l] + i - 1
  IN {reg[iv.v] : iv \in {o \in request.intervals : o.v \in DOMAIN reg /\ reg[o.v] \in CallerSaved
                            /\ o.v # fn.code[l][i].r /\ o.start <= cp /\ o.end > cp + 2}}

\* _compute_caller_saves: the registers saved around instruction i of l, of which
\* LIST_GET itself changes three.
Saves(l, i) ==
  LET cp == StartOf(fn)[l] + i - 1
      x == fn.code[l][i]
      ivs == {iv \in request.intervals : iv.v \in DOMAIN reg /\ reg[iv.v] \in CallerSaved
                /\ iv.v # x.r /\ iv.start <= cp /\ iv.end > cp}
  IN {reg[iv.v] : iv \in ivs} \ IF x.op = "LIST_GET" THEN CallerSaved \ {"rax", "r10", "r11"} ELSE {}
Destroys(x) == IF x.op = "LIST_GET" THEN {"rax", "r10", "r11"} ELSE CallerSaved

-----------------------------------------------------------------------------
AllPlaced == starts # <<>> /\ todo = {}
\* Where an instruction has just written its result, every value that is live
\* there, and the result, has a place of its own: what the intervals, the loops and
\* the phi nodes add to them, and the allocation say together.
LiveApart ==
  AllPlaced =>
    \A l \in Labels(fn) : \A i \in DOMAIN fn.code[l] :
      LET live == LiveBehind(fn, starts, l, i) \cup ({fn.code[l][i].r} \ {0})
      IN \A v, w \in live : v # w => Loc(v) # Loc(w)

\* What a call destroys is saved if anyone needs it behind the call.
CallsKeep ==
  AllPlaced =>
    \A l \in Labels(fn) : \A i \in DOMAIN fn.code[l] :
      fn.code[l][i].op \in CallPoint =>
        \A v \in LiveBehind(fn, starts, l, i) \ {fn.code[l][i].r} :
          v \in DOMAIN reg /\ reg[v] \in Destroys(fn.code[l][i]) => reg[v] \in Saves(l, i)
=============================================================================
