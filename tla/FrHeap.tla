------------------------------- MODULE FrHeap -------------------------------
(***************************************************************************)
(* The allocator of the native runtime (src/runtime/fr_rt.c): one mmap     *)
(* arena, blocks of power-of-two sizes carved from it by a bump pointer,   *)
(* and one LIFO free list per size.  Blocks are never split or merged.     *)
(*                                                                         *)
(* The first word of a block is shared: it holds HEAP_MAGIC while the      *)
(* block is in use and the link of the free list once it has been freed.   *)
(* The caller frees and reallocates any block it was ever given, also one  *)
(* it has freed before.  Sizes do not wrap: they stay far below 2^64.      *)
(***************************************************************************)
EXTENDS Integers, Sequences, FiniteSets

CONSTANTS
  HEAP_SIZE,     \* bytes of the arena, 64 MiB in the code
  NUM_BINS,      \* 32 in the code
  HeaderSize,    \* sizeof(BlockHeader), 24
  MinBin,        \* smallest bin bin_index returns, 4
  Size           \* sizes the program asks for

Bin == 0 .. NUM_BINS - 1
bin_size(b) == 2 ^ b

\* The last bin is larger than the whole arena: 2^31 against 2^26.
ASSUME FrHeapAssumption ==
  /\ HEAP_SIZE \in Nat /\ NUM_BINS \in Nat \ {0} /\ HeaderSize \in Nat \ {0}
  /\ MinBin \in Bin
  /\ Size \subseteq Nat
  /\ \A b \in Bin : bin_size(b) \in Nat \ {0}
  /\ \A b, c \in Bin : b <= c => bin_size(b) <= bin_size(c)
  /\ HEAP_SIZE < bin_size(NUM_BINS - 1)

Addr == 0 .. HEAP_SIZE - 1
NULL == -1
HEAP_MAGIC == -2

VARIABLES
  heap_cur,     \* bump pointer, as an offset into the arena
  free_lists,   \* head of each list
  word,         \* first word of each block: HEAP_MAGIC, or the next free block
  bin,          \* bin recorded in the header
  blocks,       \* history: blocks carved so far
  lists,        \* history: contents of each free list, head first
  asked,        \* history: size its holder asked for
  moving,       \* realloc: block still to be copied from and freed
  exited        \* why the process was stopped, "no" while it runs

vars == <<heap_cur, free_lists, word, bin, blocks, lists, asked, moving, exited>>

payload(b) == bin_size(bin[b]) - HeaderSize
InUse(b) == b \in blocks /\ word[b] = HEAP_MAGIC

\* bin_index: the first bin, from the smallest, that holds the block; the last
\* one if none does.
Fits(size, b) == bin_size(b) >= size + HeaderSize
IsBinIndex(size, b) ==
  /\ b \in MinBin .. NUM_BINS - 1
  /\ Fits(size, b) \/ b = NUM_BINS - 1
  /\ \A c \in MinBin .. b - 1 : ~Fits(size, c)

Rounded(size) == IF size = 0 THEN 8 ELSE size

\* Take the head of list a and give it a fresh header.
PopBlock(a, size) ==
  LET b == free_lists[a] IN
  /\ free_lists[a] # NULL
  /\ free_lists' = [free_lists EXCEPT ![a] = word[b]]
  /\ lists' = [lists EXCEPT ![a] = Tail(@)]
  /\ word' = [word EXCEPT ![b] = HEAP_MAGIC]
  /\ bin' = [bin EXCEPT ![b] = a]
  /\ asked' = [asked EXCEPT ![b] = size]
  /\ UNCHANGED <<heap_cur, blocks>>

\* Mutants: the end of the arena is not looked at; the bump pointer advances by
\* the request, not by the block.
BumpUnchecked(a, size) ==
  /\ heap_cur' = heap_cur + bin_size(a)
  /\ blocks' = blocks \cup {heap_cur}
  /\ word' = [word EXCEPT ![heap_cur] = HEAP_MAGIC]
  /\ bin' = [bin EXCEPT ![heap_cur] = a]
  /\ asked' = [asked EXCEPT ![heap_cur] = size]
  /\ UNCHANGED <<free_lists, lists>>
BumpByRequest(a, size) ==
  /\ heap_cur + bin_size(a) <= HEAP_SIZE
  /\ heap_cur' = heap_cur + size + HeaderSize
  /\ blocks' = blocks \cup {heap_cur}
  /\ word' = [word EXCEPT ![heap_cur] = HEAP_MAGIC]
  /\ bin' = [bin EXCEPT ![heap_cur] = a]
  /\ asked' = [asked EXCEPT ![heap_cur] = size]
  /\ UNCHANGED <<free_lists, lists>>

\* Carve a block of list a from the arena.
Bump(a, size) ==
  /\ heap_cur + bin_size(a) <= HEAP_SIZE
  /\ heap_cur' = heap_cur + bin_size(a)
  /\ blocks' = blocks \cup {heap_cur}
  /\ word' = [word EXCEPT ![heap_cur] = HEAP_MAGIC]
  /\ bin' = [bin EXCEPT ![heap_cur] = a]
  /\ asked' = [asked EXCEPT ![heap_cur] = size]
  /\ UNCHANGED <<free_lists, lists>>

OutOfMemory ==
  /\ exited' = "out of memory"
  /\ moving' = NULL
  /\ UNCHANGED <<heap_cur, free_lists, word, bin, blocks, lists, asked>>

\* Mutant: any list is taken when the list of the bin is empty.
AllocateAnyList(size, k) ==
  \/ /\ \E a, b \in Bin : IsBinIndex(size, b) /\ free_lists[b] = NULL /\ PopBlock(a, size)
     /\ UNCHANGED exited /\ moving' = k
  \/ /\ \E b \in Bin : IsBinIndex(size, b) /\ free_lists[b] = NULL /\ Bump(b, size)
     /\ UNCHANGED exited /\ moving' = k

\* malloc: the list of the bin, else the arena, else the next larger list that
\* has a block, else the process ends.  k is what realloc still has to free.
Allocate(size, k) ==
  \E b \in Bin :
    /\ IsBinIndex(size, b)
    /\ \/ /\ PopBlock(b, size)
          /\ moving' = k /\ UNCHANGED exited
       \/ /\ free_lists[b] = NULL
          /\ Bump(b, size)
          /\ moving' = k /\ UNCHANGED exited
       \/ /\ free_lists[b] = NULL
          /\ heap_cur + bin_size(b) > HEAP_SIZE
          /\ \E a \in b + 1 .. NUM_BINS - 1 :
               /\ \A c \in b + 1 .. a - 1 : free_lists[c] = NULL
               /\ PopBlock(a, size)
          /\ moving' = k /\ UNCHANGED exited
       \/ /\ free_lists[b] = NULL
          /\ heap_cur + bin_size(b) > HEAP_SIZE
          /\ \A a \in b + 1 .. NUM_BINS - 1 : free_lists[a] = NULL
          /\ OutOfMemory

\* Mutant: free without the test of the magic.
ReleaseUnchecked(p) ==
  /\ word' = [word EXCEPT ![p] = free_lists[bin[p]]]
  /\ free_lists' = [free_lists EXCEPT ![bin[p]] = p]
  /\ lists' = [lists EXCEPT ![bin[p]] = <<p>> \o @]
  /\ moving' = NULL
  /\ UNCHANGED <<heap_cur, bin, blocks, asked, exited>>

\* Mutant: the link to the rest of the list is not stored.
ReleaseUnlinked(p) ==
  \/ /\ word[p] # HEAP_MAGIC
     /\ exited' = "invalid free"
     /\ moving' = NULL
     /\ UNCHANGED <<heap_cur, free_lists, word, bin, blocks, lists, asked>>
  \/ /\ word[p] = HEAP_MAGIC
     /\ word' = [word EXCEPT ![p] = NULL]
     /\ free_lists' = [free_lists EXCEPT ![bin[p]] = p]
     /\ lists' = [lists EXCEPT ![bin[p]] = <<p>> \o @]
     /\ moving' = NULL
     /\ UNCHANGED <<heap_cur, bin, blocks, asked, exited>>

\* free on a block: pushed on the list of the bin in its header, over the magic.
\* A block that is not in use stops the process.
Release(p) ==
  \/ /\ word[p] # HEAP_MAGIC
     /\ exited' = "invalid free"
     /\ moving' = NULL
     /\ UNCHANGED <<heap_cur, free_lists, word, bin, blocks, lists, asked>>
  \/ /\ word[p] = HEAP_MAGIC
     /\ word' = [word EXCEPT ![p] = free_lists[bin[p]]]
     /\ free_lists' = [free_lists EXCEPT ![bin[p]] = p]
     /\ lists' = [lists EXCEPT ![bin[p]] = <<p>> \o @]
     /\ moving' = NULL
     /\ UNCHANGED <<heap_cur, bin, blocks, asked, exited>>

Idle == exited = "no" /\ moving = NULL

Malloc(size) == Idle /\ Allocate(Rounded(size), NULL)

Free(p) == Idle /\ p \in blocks /\ Release(p)

\* realloc: nothing to do if the block is large enough; a pointer without the
\* magic gets a new block and is not freed; size 0 frees.
ReallocFree(p) == Idle /\ p \in blocks /\ 0 \in Size /\ Release(p)
ReallocInPlace(p, size) ==
  /\ Idle /\ InUse(p) /\ size # 0 /\ payload(p) >= size
  /\ asked' = [asked EXCEPT ![p] = size]
  /\ UNCHANGED <<heap_cur, free_lists, word, bin, blocks, lists, moving, exited>>
ReallocMove(p, size) ==
  /\ Idle /\ InUse(p) /\ size # 0 /\ payload(p) < size
  /\ Allocate(size, p)
ReallocForeign(p, size) ==
  /\ Idle /\ p \in blocks /\ ~InUse(p) /\ size # 0
  /\ Allocate(size, NULL)

\* realloc, once the contents have been copied.
FreeMoved == exited = "no" /\ moving # NULL /\ Release(moving)

Exited == exited # "no" /\ UNCHANGED vars

\* init_heap
Init ==
  /\ heap_cur = 0
  /\ free_lists = [b \in Bin |-> NULL]
  /\ word = [a \in Addr |-> NULL]
  /\ bin = [a \in Addr |-> 0]
  /\ blocks = {}
  /\ lists = [b \in Bin |-> <<>>]
  /\ asked = [a \in Addr |-> 0]
  /\ moving = NULL
  /\ exited = "no"

Next ==
  \/ \E size \in Size : Malloc(size)
  \/ \E p \in Addr : Free(p)
  \/ \E p \in Addr : ReallocFree(p)
  \/ \E p \in Addr, size \in Size : ReallocInPlace(p, size)
  \/ \E p \in Addr, size \in Size : ReallocMove(p, size)
  \/ \E p \in Addr, size \in Size : ReallocForeign(p, size)
  \/ FreeMoved
  \/ Exited

Spec == Init /\ [][Next]_vars

------------------------------------------------------------------------------
TypeOK ==
  /\ heap_cur \in 0 .. HEAP_SIZE
  /\ free_lists \in [Bin -> Addr \cup {NULL}]
  /\ word \in [Addr -> Addr \cup {NULL, HEAP_MAGIC}]
  /\ bin \in [Addr -> Bin]
  /\ blocks \in SUBSET Addr
  /\ lists \in [Bin -> Seq(Addr)]
  /\ asked \in [Addr -> Nat]
  /\ moving \in Addr \cup {NULL}
  /\ exited \in {"no", "out of memory", "invalid free"}

\* No two blocks overlap and none reaches beyond the bump pointer, whatever
\* mixture of recycling, oversized blocks and carving produced them.
End(b) == b + bin_size(bin[b])
Disjoint ==
  /\ \A b \in blocks : End(b) <= heap_cur
  /\ \A b, c \in blocks : b < c => End(b) <= c

\* Every block carved is in use, or is in the free list of its own bin, once.
Conserved ==
  /\ \A b \in blocks : ~InUse(b) => \E i \in 1 .. Len(lists[bin[b]]) : lists[bin[b]][i] = b
  /\ \A a \in Bin : \A i \in 1 .. Len(lists[a]) :
       /\ lists[a][i] \in blocks /\ ~InUse(lists[a][i]) /\ bin[lists[a][i]] = a
       /\ \A j \in 1 .. Len(lists[a]) : lists[a][i] = lists[a][j] => i = j

\* The links through the first words visit the free blocks of a bin in order.
Chained ==
  \A a \in Bin :
    LET s == lists[a] IN
    /\ free_lists[a] = IF s = <<>> THEN NULL ELSE s[1]
    /\ \A i \in 1 .. Len(s) : word[s[i]] = IF i = Len(s) THEN NULL ELSE s[i + 1]

\* A block in use holds what was asked for, also when it came from a larger bin
\* or kept its place in realloc.
PayloadFits == \A b \in blocks : InUse(b) => asked[b] <= payload(b)

\* realloc copies into another block, one that nobody was using and that is
\* larger than the one it copies from.
ReallocCopyFits ==
  [][moving' # NULL =>
       \E b \in blocks' :
         /\ b # moving' /\ ~InUse(b) /\ word'[b] = HEAP_MAGIC
         /\ InUse(moving') /\ bin_size(bin'[b]) > bin_size(bin[moving'])]_vars
==============================================================================
