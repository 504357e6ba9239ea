# A verification development for `fr`

`fr` is a small statically typed language. One front end (`src/src/parser.py`) feeds four ways of
running a program:

- a tree-walking virtual machine in Python (`src/src/runtime.py`);
- bytecode (`compiler.py`, `optimizer/bytecode_opt.py`) on a stack machine in C (`src/runtime/vm.c`);
- native code: the bytecode is made into IR (`optimizer/ir_builder.py`), rewritten
  (`optimizer/passes.py`), given registers (`analysis.py`, `regalloc.py`), emitted (`codegen.py`) and
  linked with a runtime (`src/runtime/fr_rt.c`, `syscall.S`);
- WebAssembly, from the same bytecode (`wasm_compiler.py`).

What makes the system correct is that the four agree, that the compilers' analyses say what the
code does, and that the runtimes' memory and exception state stays sound over a long run. The
modules here model these three.

## Inventory

| Component | State | Operations | Hard behaviour | What makes it correct |
|---|---|---|---|---|
| Allocator (`fr_rt.c:460-600`) | arena, bump pointer, 32 free lists threaded through the blocks | `malloc`, `free`, `realloc` | magic and link share a word; double free; oversized recycling; a full arena; copy before free | blocks are disjoint, none is lost or in two lists, each holds what was asked for |
| Managed objects (`fr_rt.c:602-771`, `2307-2345`, `syscall.S`) | headers with counts and two links, scope lists, scope depth and overflow | allocate, store, load, return, raise; scope push, pop, unwind; release cascade | cascades into the list being walked, cycles, unlinking in the middle, stale `scope_id`, overflow, exceptions over frames | counts equal owners, nothing owned is freed, scopes and frames agree, cascades end |
| Native exceptions (`fr_rt.c:1585-1690`, `codegen.py:1545-1579`) | stack of 256 handlers with jump buffers | push, pop, raise | handlers passed over stay; a jump into a dead frame | handlers are those of the try statements the program is in |
| C VM exceptions (`vm.c:735`, `1809`, `9730-9861`) | stack of 64 handlers, call stack | TRY_BEGIN, TRY_END, RAISE, faults, CALL, RETURN | a handler popped twice, a marker lost in the search | no handler of a try that has ended |
| Python VM (`runtime.py`) | scopes, call depth | run_scope, run_func, eval | variables after an exception crosses a call | it is what the other engines must agree with |
| Bytecode compiler (`compiler.py`) | labels, loop and try nesting while a function is emitted | one method per statement | what is on the operand stack where control leaves a statement | the code does what the tree walk does |
| Bytecode optimizer (`bytecode_opt.py`) | the text of a function | some twenty rewriting rules | a rule moves or fuses what a jump depends on, or another rule removed | the same output |
| C VM dispatch (`vm.c`) | operand stack, frames, handlers, globals | one opcode each | sizes of stacks, fused instructions | it neither gives up nor strays |
| IR builder (`ir_builder.py`) | blocks, edges, symbolic stack, versions of variables | simulate, insert phi nodes, repoint | versions over loops, exits and merges | SSA form, and the same output |
| Passes (`passes.py`, level 1) | the IR | fold, propagate, thread, merge, remove | phi nodes and the order of blocks survive every pass | SSA form, fall-through, the same output, a fixpoint |
| Analyses (`analysis.py`) | facts per block and value | dominators, loops, liveness, intervals | linear positions against a graph | facts hold of every path |
| Register allocation (`regalloc.py`) | intervals, active set, free registers, slots | expire, assign, spill | a register stolen, parameters, intervals that meet | what lives together is apart |
| Code generation (`codegen.py`) | registers, frame | copies on edges, caller saves, runtime calls | copies that read each other through one scratch register | copies act at once, calls keep what is live |
| WebAssembly types (`wasm_compiler.py`) | type stack, marks beside it, last source, the scan's own stack | one branch per opcode, a scan per function | a branch that notes too many or too few types; a remembered source that is stale | types follow the values |
| Parser, ranges, compile-time evaluation, strings, files, sockets, formatting, command line | none that outlives a call | | | not modelled, see the end |

The runtimes are single threaded. What interleaves is the order in which a program makes legal
calls, cascades that re-enter the lists they were started from, exceptions over frames and
cascades, and passes that run over the results of one another. `PROJECT.json` lists the hazards at their lines,
with the properties that look at them.

Native parts call one another: generated code pushes a scope on entry and pops it on return; objects
are blocks of the allocator; a raise unwinds scopes to the depth its handler saved, then jumps.
They are checked apart because neither module reads the state of the other: an address of `Obj`
is a block `malloc` may return again, `Raise` of `FrObjects` is the unwinding done by a raise of
`NativeExceptions`.

## Modules

| Module | Models | Composed by |
|---|---|---|
| `FrHeap` | the allocator | `MCFrHeap` |
| `FrObjects` | managed objects; implements `Ownership` | `MCFrObjects` |
| `Ownership` | what `doc/memory_and_pointers.md` promises of heap objects | `FrObjects` |
| `StructuredExceptions` | try and raise as the Python VM has them, control flow only | the next two |
| `NativeExceptions`, `CvmExceptions` | the handler stacks of the two runtimes; the first implements `StructuredExceptions` | |
| `FrSyntax` | the syntax tree, as far as programs here need it | all below |
| `TreeWalk` | `runtime.py`: what a program prints and how it ends | `Engines`, `Native` |
| `BytecodeCompiler` | `compiler.py`: a function to bytecode | `Engines`, `Native` |
| `BytecodeOpt` | `bytecode_opt.py`: the rules, in their order | `Engines`, `Native` |
| `StackVm` | loader and interpreter loop of `vm.c` | `Engines` |
| `Engines` | compiler, optimizer and C VM against the tree walk | `MCEngines` |
| `IrBuilder`, `Ssa` | `ir_builder.py`: symbolic execution to blocks; phi nodes and repointing | `Native` |
| `Passes` | the level-1 passes of `passes.py` | `Native` |
| `IrMachine` | what the code that `codegen.py` emits for IR does, control flow and phi copies | `Native` |
| `Native` | the whole back end against the tree walk | `MCNative`, `Registers` |
| `Analysis` | dominators, natural loops, liveness | `Registers` |
| `LiveIntervals` | live intervals of `analysis.py`; what it is to be live; what the intervals rely on (`Ready`) | `Placement` |
| `LinearScan` | `regalloc.py` | `Placement` |
| `Placement` | one function: intervals, allocation, caller saves | `EdgeCopies` |
| `ParallelMoves` | the copies on an edge, one by one | `EdgeCopies` |
| `EdgeCopies` | a placed function and the way over one of its edges | `Registers` |
| `Registers` | `EdgeCopies` on what the phases of `Native` leave | `MCRegisters` |
| `WasmOpcodes`, `WasmStack`, `WasmInstructions`, `WasmPrescan`, `IrTyping` | signatures; the type stack; the branches of the translator; its scan for local types; the IR builder's types | `OperandTyping` |
| `OperandTyping` | straight-line bytecode seen by the three, against the kinds of the values | `MCTyping` |
| `MCPrograms` | the families of programs the engines are compared on | `MCEngines`, `MCNative`, `MCRegisters` |
| `DataLemmas`, `*Proofs` | lemmas about sets and sequences; theorems | |

## How the models follow the code

**`FrHeap`.** `free_lists`, `heap_cur` and the header fields `word` (magic or link) and `bin` are the
code's; `header->size` is `payload`. `lists`, `blocks` and `asked` are history. `Malloc`, `Free` and
the four outcomes of `realloc` are actions; a `realloc` that moves is two steps, `ReallocMove`
(allocate and copy) and `FreeMoved`, so that both blocks are in use in between. The caller may free
and reallocate any block it ever got, also twice. Exhaustion and an invalid free end the process.

**`FrObjects`.** `refcount`, `scope_id`, `next_scope`, `prev_scope`, `kind` are `FrObjHeader`; `heads`,
`depth`, `overflow` the scope stack. Runtime functions that loop are cut into iterations, one
action each: `pending` is the `runtime_release` calls a cascade has still to make (in any order, so the
code's order is one of them), `walk` the cursor of `runtime_scope_pop`, `call` the function that has not
returned. The program moves only while the runtime rests. `cell` is every place that owns:
globals, fields, elements. A local borrows. `chain`, `rest` and `given` are history: what each scope
owns, what a pop has not visited, and references handed out by `return` or `pop` that no place holds. A
local whose object is freed is dropped from the frame: the model does not follow a dangling local.

**Exceptions.** A position is the stack of try statements a program is in. A jump buffer is the
position at which `setjmp` returned. In the native model a handler stays when it catches and
`TRY_END` pops it; in the C VM a search pops each handler it looks at. `Matching(first, next)` of
the C VM has two types, because the recursion of `vm_runtime_error` passes on a message whose type
marker was removed. `current_frame` is the pointer the interpreter loop caches.

**`Engines` and `Native`.** The compilers are operators: a syntax tree to instructions, instructions to
instructions, IR to IR, each translated rule by rule and applied in the source's order. The state
machine runs the result: `Load` gives the C VM its image and `Turn` executes one instruction;
in `Native` one step is one phase or pass, so that invariants see the IR between any two passes. What the
program should do comes from `TreeWalk`, a function of the program. Instructions carry an
operation and arguments, never text; `spread` says whether two statements stand on one line, which one
rule looks at.

**`Registers`.** Runs the phases of `Native` and takes one function. `Placement` computes its intervals as
`analysis.py` does and allocates with `LinearScan` (a step is a turn of the loop); `EdgeCopies` makes the
copies of one edge with `ParallelMoves` (a step is one emitted move). `Enters`, `LiveBehind` (in
`LiveIntervals`) and `ReachedPast` are not code: they say by paths what the analyses compute by equations.
These modules are apart from `Registers` because proofs about them may not reach the RECURSIVE operators of
the compilers: `Placement` and `EdgeCopies` take any functions (`Functions`), `Registers` takes those of the passes.

**`OperandTyping`.** A form is a bytecode instruction with the kinds of its operands and results as the
C VM executes it. Each of three parts follows the operand stack without running it. Where one is known to
be wrong whatever follows (`WasmDrifts`, `ScanDrifts`, `IrDrifts`, each disjunct with its reason)
the run of instructions ends; everything else must keep step.

## Runs

| Run | Bounds | Shows |
|---|---|---|
| `heap` | six 32-byte blocks, bins of 32, 64, 128 and one larger than the arena, five sizes (0 and one too large among them) | disjointness, conservation, whole lists, sizes, `realloc` |
| `objects_frames` | 2 objects of 2 fields, 1 global, 3 frames, 2 scopes | exact counts, no dangling place, scopes that balance through overflow and exceptions, a clean exit |
| `objects_owners` | 3 objects, 1 frame | lists match ownership, nothing owned is freed, `Ownership` is implemented, every runtime call returns |
| `objects_stale` (violation) | 2 objects, 2 globals, 3 scopes, arguments are stored | finding 1 |
| `native_exceptions` | 2 types, 3 frames, 3 handlers | handlers match the try statements; structured control flow |
| `cvm_exceptions` | the same | no return to a try that has ended |
| `cvm_try_body` (violation) | the same | finding 2 |
| `engines` | 1681 nests of two statements around a third, in `main` and in a called function, unoptimized; 1435 pairs of statements through the optimizer | code is sound, the operand stack is empty between statements, output and end as promised, programs end |
| `native` | 939 optimized programs | SSA form after every pass, fall-through, output and end as promised, passes settle |
| `native_carry` (violation) | one program | finding 3 |
| `registers` | loops, branches, calls, two variables that change places; files of five and of eight registers | analyses, allocation, caller saves and edge copies together |
| `typing` | one instruction of each sort for operands of every kind; stacks of 3, for the scan of 2 | types and sources keep step |

Why the bounds are enough. Two objects give every aliasing of container, value and old value in a
store; three give an unlinking from the middle of a list and a cascade through a chain or a cycle.
Three frames over two scopes reach overflow and an exception over two frames. `MaxCount` bounds the
references the program takes to one object. Three handlers hold an inner, a middle and an outer try,
and the fourth is the limit. Six blocks hold one block of each size with a free and a used
neighbour. Two statements around a third give every way of leaving one construct through another;
pairs of statements reach every fusion rule with its neighbour. `Fuel` (20 iterations of the tree walk)
is more than any program of the families uses. Five registers make every loop of
the family spill; eight make calls save. For typing, an instruction has at most three operands, so a stack of three holds what a step can
touch. `MAX_SIM` cuts the scan's stack, which may grow when the scan misjudges.

What the families leave out is named where it is: `Fits` (leaving a try other than through
its end; an exception over a call whose variables are read), `Agrees` (what `IrBuilder` is known to
get wrong, see the list below), `Selects` of `MCEngines` (two ternaries on one line).

Parameters that name classes of programs. `StoreArgs = FALSE`: no function stores an object it
received as an argument; with such stores the counts are not exact (`objects_stale`). `CatchDeep =
FALSE`: no handler lies in a frame beyond 1024 scopes, because `runtime_scope_unwind` drops every
overflow scope, those of live frames too. `Matched = TRUE` and `ReturnInTry = FALSE`: exceptions go to
the innermost try body, and functions do not return from inside a try.

Fairness. `FrObjects` assumes `WF(Runtime)`: a runtime function, once entered, is executed by the
processor until it returns; nothing is assumed of the program. Under it `CallsReturn` shows that
pops, unwinding and cascades over shared and cyclic data end, and the liveness part of `Ownership`
that an unowned object is reclaimed. `Engines` assumes `WF(Turn)`: the interpreter loop goes on; with it
`Terminates`. `Registers` assumes `WF(Copy)`: the emitting loop goes on; with it `CopiesEnd`.
The other modules state no fairness and no liveness. Deadlock is checked where the cfg does not say otherwise: the programs of
`engines`, `native` and `registers` end, and a typing run ends where a part drifts.

## Findings

1. **A stale `scope_id`** (`objects_stale`, `fr_rt.c:706`). An object that survives its scope keeps that
   scope's number; a store by a later function at the same depth then releases a reference it does
   not hold, and a global is left with a freed object.
2. **C VM: `TRY_END` after an except block** (`cvm_try_body`, `vm.c:9771`) pops the handler of the try
   around it.
3. **A variable that follows another through a loop** (`native_carry`, `ir_builder.py:2247`). The use
   behind the loop is re-pointed to the phi node of the other variable; the native program prints 2 for 3.

Each was also seen when running a program.

Seen while modelling; the models do what the code does, and the families or hypotheses above
keep clear of them:

- *Bytecode compiler.* `if … elif` without `else` never defines its last label (`compiler.py:1907`);
  a call statement of a function that is defined later gets no POP (2224); a non-void function without
  return falls into the next (2692); labels of cases collide (1970); a local named as a global
  compiles to the global; a `for` re-evaluates its end; a sparse `switch` in a loop leaks operands.
- *C VM.* `vm_find_function_for_pc` includes the end (`vm.c:2778`); the loop does not reload its frame when a
  caller catches (1862); `break` and `return` in a try leave its handler.
- *Bytecode optimizer.* `remove_dead_stores` does not look at ADDR_LOCAL; LOAD2_CMP and FUSED_ARITH_CONST pass by
  boxed locals; MIN, MAX and POW of one operand; an odd FUSED_STORE_LOAD; SELECT writes its condition twice.
- *Python VM.* `a && b && c` looks at two operands; after an exception over a call the callee's variables
  remain (`runtime.py:336`); unknown exception types become RuntimeError.
- *Native.* `&&` is bitwise (`codegen.py:1050`); an `else` arm, a switch of three tests and a variable assigned in
  a try read stale values; jump tables are off by one (`ir_builder.py:1497`); `if {}` before `while` does
  not link; merging blocks breaks fall-through or leaves a phi operand behind; an address-taken local in a loop
  is stale; with `-O` a self tail call does not set its parameters and `infer_loop_ranges` takes the
  first comparison of an unordered set; division and modulo of negative integers differ from the VMs.
- *Registers.* r11 is the sixth register a leaf function is given (`regalloc.py:37`, `104`) and also the scratch of copies
  and of results and bases in slots (`codegen.py:897`, `2225`, `2257`): with six values alive `n * 7` was seen to be `n * n`.
  `analysis.py:310` lengthens intervals for phi nodes only behind the loop over edges back (294): what a
  phi node over an outer edge back reads at a `continue` in an inner loop loses its register there (seen
  too). A block that goes to itself is no edge back (301, `<`).
  A memory-to-memory copy on a cycle goes through the scratch register that breaks the cycle;
  a parameter keeps its ABI register whatever is forbidden there, and a spill ignores what is forbidden;
  the first spill slot is `[rbp - 0]`; liveness misses a phi result read by another phi over the back edge;
  a parameter on the stack may get a register besides.
- *Native runtime.* References handed out by a return are released by nobody (`codegen.py:1525`); a
  store ends a lifetime (`fr_rt.c:763`); handlers passed over stay, and a later `TRY_END` pops the wrong one.
- *WebAssembly.* floor, sqrt and ceil lose their tracked result and ADD_STR notes it twice; `len` of a string
  after a list or set is that of a list; the last locals of a function with parameters are declared
  from the scan's guess, over their `.local` line.
- *IR types.* ROUND and POW are FLOAT64, ABS, MIN and MAX of floats INT64, DICT_GET and SELECT always INT64.

## Proofs

TLC looks at small instances; the theorems hold for every value of the constants that the named
`…Assumption` of a module allows. None of the properties is inductive alone; what each needs is said below.

| Module | Theorems | Under |
|---|---|---|
| `FrHeapProofs` | `HeapSafety`, `HeapTypes`, `BlocksDisjoint`, `BlocksConserved`, `ListsChained`, `RequestsFit`, `ReallocCopies` | |
| `FrObjectsProofs` | `ObjectTypes` | |
| | `ScopesStayBalanced` | `~CatchDeep` |
| | `CountsStayExact`, `NoCellDangles`, `ListsStayLinked`, `ExitIsClean`, `OnlyUnownedDie`, `ObjectsFollowOwnership`, `RuntimeAdvances` | `~StoreArgs`, `~CatchDeep` |
| `NativeExceptionsProofs` | `HandlersSafety`, `HandlersTypes`, `HandlersFollow`, `ImplementsStructured` | `Matched`, `~ReturnInTry` |
| `CvmExceptionsProofs` | `HandlersSafety`, `HandlersTypes`, `HandlersStayLive` | `~ReturnInTry` |
| `PlacementProofs` | `ScanSafety`, `NeverShared`, `AlwaysStored` | `AllSound` |
| | `LivenessCovers` | `Numbered` |
| | `PlacesUnshared`, `LiveValuesApart`, `CallsKeepAll` | `AllReady` |
| `MovesProofs` | `CopiesAtOnce`, `CopiesAdvance` | `CallsApart` |
| | `EdgesKeep` | `AllReady`, while `ScratchKept` |
| `TypingProofs` | `IrLocal`, `TypesFollow`, `DeclarationsHold` | |
| `DataLemmas` | lemmas about sequences, sets and functions that several of them cite | |

The conditions are the classes of programs the passing runs use. What happens outside is known:
`StoreArgs` is finding 1, `Matched` the handlers that are passed over and stay, `CatchDeep` and
`ReturnInTry` the hazards at `fr_rt.c:714`, `codegen.py:1545` and `vm.c:5266`. `AllSound` and `CallsApart` say what the
callers pass: one interval a value, parameters in registers of their own; locations written once, no cycle within
the stack. `AllReady` says of functions what the passes leave: blocks and edges that fit (`Numbered`), one definition
a value in a block numbered before those that need it (`OnceComputed`, `ComputedBefore`), phi nodes first
in their block, with one operand for each way and a result that is needed (`PhisFirst`), and the two
things the code relies on without seeing to them, `PhisLast` and `NoneToItself` (the list above). In the run
`registers` TLC checks `Ready` of every function the passes leave and `Sound` of every request made of it
(`AnalysesSound`), and all of `EdgeKeeps`, `Apart` and so `ScratchKept` included; its steps over `fn`, `starts`, the
allocation and the copies are those of `EdgeSpec`. `ScratchKept` excludes what is wrong in the code: a value in
r11, a cycle of copies from slot to slot. The register files of the run leave r11 out for that reason.

**Allocator.** `HeapInv` joins the types, `Disjoint`, `Conserved`, `Chained`, `PayloadFits` and
`MovingInUse`. Blocks stay disjoint because a block from a list was not in use, which is
`Conserved`; that the popped block is the one the list names is `Chained`, because the code follows
the first word of a free block, not the list; the size of a recycled block needs the header that
`Conserved` ties to the bin. `PopBlockKeeps`, `BumpKeeps` and `ReleaseKeeps` state the three ways an
operation touches the heap, `HeapUntouched` the rest. `ReallocCopies` is an action property:
it follows from what `Allocate` returns (`AllocateFits`).

**Managed objects.** `ScopeInv` says of every frame that its `base`, the scope depth saved with it, is the
number of frames with a scope up to it, cut at `FR_MAX_SCOPES`; it counts one scope more while an
epilogue has not popped yet and at least as many while an exception unwinds. `Inv` of
`FrObjectsProofs` adds four parts.

- `ListInv`: each chain is what the links say in both directions, without repetition, holds live
  objects whose `scope_id` names it, and lies below `depth`. Without it a `runtime_scope_forget` in the middle of
  a list could cut off its rest. `Unlink`, `Push` and `Pass` are the three facts about doubly
  linked lists it needs.
- `FrameInv`: what a frame can use is live and, unless it is in no list, in a list as old as the frame; what
  the frame obtained itself is in its own scope; arguments are locals of the caller. This is why a pop never
  drops what an older frame still uses, and why `runtime_scope_forget` finds the object it retained in the current
  list, as long as that object is not an argument: here `~StoreArgs` counts.
- `CallInv`: while a store waits for the release of the overwritten value, the new value is alive and in
  no scope, and as long as the overwritten value lives its release is the only one pending. Otherwise a
  cascade could free the new value before it is written, or count the old place twice. While
  `runtime_struct_new` fills fields, the fields left are empty and their values the function's own.
- `CountInv`: `refcount` is the number of places, plus one for a list, one for the list being walked, one for a
  value in transit, the references handed out and the releases pending; it is positive; what a place refers to is
  live and in no scope; dead objects have empty places.

TLC checked the whole of it first, on the instances of `objects_frames` and `objects_owners`.
One lemma `…Keeps` per action shows that it preserves the four. `CountsStayExact`, `NoCellDangles`
and `ListsStayLinked` then follow by the definitions, `ExitIsClean` from `ScopeInv` (no frame, so no
scope, so no list) and `OnlyUnownedDie` from the count (the last pending reference leaves no room
for another). `ObjectsFollowOwnership` is the refinement without its fairness: `Owners!Init`, and every step
is an abstract step or stutters, one lemma `…Seen` per action. A store is seen when its value is retained,
not when the pointer is written; a popped scope closes at once, its objects go later; a raw
cell loses its references when it dies.

**Exceptions.** `HandlersInv` adds `Nested` in both runtimes: the try statements a program is in are
ordered as the frames they belong to. A return that is not inside a try (`~ReturnInTry`) then leaves
none of its frame behind, and the handlers that are left have their position in a frame that is still
there. In the native runtime `AlignedKeeps` carries this over every change of the innermost statement,
`RaiseToInnermost` is where `Matched` counts, and `RaiseImplements` maps a raise to the structured one. The C VM needs
no condition on types, because a search takes off every handler it passes.

The measure of `RuntimeAdvances` is lexicographic: the call ends, or fields to fill, overflow scopes, scopes,
live objects, the part of a list not walked and pending releases go down in this order. A release
frees an object or takes one from the pending; each cascade over shared or cyclic data is bounded by
the objects that live. It is the part of `CallsReturn` that is about the code.

**Registers.** `ScanInv` adds to `NoSharing` what the linear scan relies on: active intervals have
different registers that are not free (`Held`), parameters have theirs for themselves (`Own`), and what has a
register and is not active has ended before everything to come (`Ended`). `SlotInv` says that slots
are taken in order.

From there to `LiveApart` the question is whether the intervals cover what is live, and it is about
`analysis.py` alone. `ExtentOfValue` says what an interval is: it begins at the definition, ends behind
every read (`RangeOfValue`) and behind the end of every block over which a phi node reads (`PhiEndsOf`), and is closed
under edges back (`StretchedAll`): one pass over the blocks is enough, because an interval only ever
grows to the end of the block at hand, and a block further on is still to come. A
value enters a block because it is needed there or in a block that is reached from it; `EntersOnly` turns
the rounds of `Enters` into an induction along such ways, and `EntersInside` shows with it that the interval reaches
into every block the value enters: `OverEdge` carries it against an edge, by the order of the numbers if
the edge leads forward, by `Closed` if it leads back. So all that is live behind an instruction has the
instruction in its interval (`LiveInside`), two such intervals overlap, and `NoSharing` gives `LiveApart`; `Saves`
takes the same intervals, which gives `CallsKeep`. `LivenessCovers` compares the equations of `analysis.py` with paths: every
solution holds what enters, except for what phi nodes read.

`MovesInv` says where the value of each copy that is left is to be found: in its source, or in the
scratch register, and then only cycles are left. A step of the emission takes away a copy, or parks one
where none was parked (`CopiesAdvance`, the part of `CopiesEnd` that is about the code). `EdgesKeep` joins the
two halves. `EntersClosed` (as many rounds as blocks are enough, because each but the last adds a block) makes what is
live at the end of a block live behind its last instruction, so it is apart there and `HeldOn` is what
the machine holds (`HeldThere`); the results of the phi nodes and what enters the block are live
behind its last phi node, so no two copies write one place and none writes what stays (`ResultsApart`).
Both together are `Apart`, and `AllAtOnce` is then what `EdgeKeeps` says.

**Types of operands.** `IrInv` ties the types on the builder's stack to the kinds of the program's values, one for one;
`ScanInv` of `TypingProofs` does the same for a table of declared locals. `IrLocal` makes the first possible at
every depth: an instruction looks at no more operands than `IrArity` says, whatever lies below. It needs that
the builder is right of one instruction at a time and that a table of locals is consistent, which are the `FormsAssumption` and
`LocalsAssumption` of `OperandTyping`; TLC evaluates them for the forms of the run `typing`. The forms
after which the builder's types no longer follow (`IrDrifts`) end the claim where they occur (`lost`).

Induction over 0 .. n is done in the form of a set that holds 0 and, with k - 1, k (`UpTo` of `DataLemmas`); what a recursive
function on 0 .. n is follows from `Recursion`.

**Only model-checked.** Liveness (`CallsReturn`, `Terminates`, `CopiesEnd`, the fairness of `ImplementsOwnership`:
an unowned object is reclaimed) needs ENABLED; of `CallsReturn` and `CopiesEnd` the decreasing
measure is proved, that a step is possible while something is left to do stays with TLC. The
properties of `Engines` and `Native`, and the dominators and loops in `AnalysesSound`, are about recursive interpreters and compilers,
whose RECURSIVE operators and induction over syntax trees the provers do not take. That the passes leave
functions that are `Ready` is of this kind too: it is what joins `Native` to the theorems, and TLC checks it. `InStep`
and `RightHelper` depend on marks and on a last source below the operands of an instruction, so
that no invariant of one instruction at a time is enough.

## Not modelled

Dictionaries (they own nothing), structs on the stack, the buffers of lists, strings, files and
sockets keep no state that the modelled parts share. The parser and formatting are functions of
text. Of the C VM, structs, strings, sets, reference counts of values and jump tables; of the optimizer, levels 2
and 3, inlining, escape analysis, ranges (a fixpoint over integers) and compile-time evaluation (an
interpreter with a step budget); of the code generator, instruction selection; of WebAssembly,
control flow, struct layout, its optimizer and the host's glue. `PROJECT.json` names every part with its status.
