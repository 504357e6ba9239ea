---------------------------- MODULE FrHeapProofs ----------------------------
(***************************************************************************)
(* The allocator keeps its blocks apart, loses none of them and never      *)
(* hands out one that is too small, for every arena and every list of      *)
(* sizes.                                                                  *)
(***************************************************************************)
EXTENDS FrHeap, SequenceTheorems, TLAPS

\* realloc frees a block that is in use and is not the one it copied into.
MovingInUse == moving # NULL => InUse(moving)

HeapInv == TypeOK /\ Disjoint /\ Conserved /\ Chained /\ PayloadFits /\ MovingInUse

\* What the assumptions say of the constants.
LEMMA Constants ==
  /\ MinBin \in Bin /\ Size \subseteq Nat
  /\ HEAP_SIZE \in Nat /\ NUM_BINS \in Nat \ {0} /\ HeaderSize \in Nat
  /\ \A b \in Bin : bin_size(b) \in Nat \ {0}
  /\ \A b, c \in Bin : b <= c => bin_size(b) <= bin_size(c)
  /\ NUM_BINS - 1 \in Bin
  /\ HEAP_SIZE < bin_size(NUM_BINS - 1)
  BY FrHeapAssumption DEF Bin

\* A sequence without its head.
LEMMA TailOfSeq ==
  ASSUME NEW S, NEW q \in Seq(S), q # <<>>
  PROVE  /\ Tail(q) \in Seq(S) /\ Len(Tail(q)) = Len(q) - 1 /\ Len(q) \in Nat \ {0}
         /\ \A i \in 1 .. Len(q) - 1 : Tail(q)[i] = q[i + 1]
         /\ Tail(q) = <<>> <=> Len(q) = 1
         /\ Len(q) # 1 => Tail(q)[1] = q[2]
  <1>1. Len(q) \in Nat /\ Len(q) # 0
    OBVIOUS
  <1>2. Tail(q) \in Seq(S) /\ Len(Tail(q)) = Len(q) - 1
    BY <1>1
  <1>3. \A i \in 1 .. Len(q) - 1 : Tail(q)[i] = q[i + 1]
    BY <1>1
  <1>4. Tail(q) = <<>> <=> Len(Tail(q)) = 0
    BY <1>2, EmptySeq
  <1>5. Len(q) # 1 => 1 \in 1 .. Len(q) - 1
    <2>1. \A n \in Nat : n # 0 /\ n # 1 => 1 \in 1 .. n - 1
      OBVIOUS
    <2> QED
      BY <1>1, <2>1, Zenon
  <1>6. Len(q) # 1 => Tail(q)[1] = q[1 + 1]
    BY <1>1, <1>3, <1>5
  <1> QED
    BY <1>1, <1>2, <1>3, <1>4, <1>6

\* A sequence with a new head.
LEMMA ConsOfSeq ==
  ASSUME NEW S, NEW q \in Seq(S), NEW x \in S
  PROVE  /\ <<x>> \o q \in Seq(S) /\ <<x>> \o q # <<>> /\ Len(<<x>> \o q) = Len(q) + 1
         /\ Len(q) \in Nat /\ (<<x>> \o q)[1] = x
         /\ \A i \in 1 .. Len(q) : (<<x>> \o q)[i + 1] = q[i]
         /\ q = <<>> <=> Len(q) = 0
  <1>1. <<x>> \in Seq(S) /\ Len(<<x>>) = 1 /\ <<x>>[1] = x /\ Len(q) \in Nat
    OBVIOUS
  <1>2. <<x>> \o q \in Seq(S) /\ Len(<<x>> \o q) = Len(q) + 1 /\ (<<x>> \o q)[1] = x
    BY <1>1
  <1>3. \A i \in 1 .. Len(q) : (<<x>> \o q)[i + 1] = q[i]
    BY <1>1
  <1>4. q = <<>> <=> Len(q) = 0
    BY EmptySeq
  <1>5. <<x>> \o q # <<>>
    BY <1>1, <1>2, EmptySeq
  <1> QED
    BY <1>1, <1>2, <1>3, <1>4, <1>5

\* A block carved from the arena has an address in it, and its bin is never the
\* last one: that bin is larger than the arena.
LEMMA BlockInArena ==
  ASSUME TypeOK, Disjoint, NEW b \in blocks
  PROVE  /\ b \in Addr /\ bin[b] \in Bin
         /\ b < heap_cur
         /\ bin[b] # NUM_BINS - 1
  <1>1. b \in Addr /\ bin[b] \in Bin /\ heap_cur \in 0 .. HEAP_SIZE
    BY DEF TypeOK
  <1>2. End(b) <= heap_cur
    BY DEF Disjoint
  <1>3. bin_size(bin[b]) \in Nat \ {0}
    BY <1>1, Constants
  <1>4. b < heap_cur /\ bin_size(bin[b]) <= HEAP_SIZE
    BY <1>1, <1>2, <1>3, Constants DEF Addr, End
  <1> QED
    BY <1>1, <1>4, Constants

\* The head of a free list is a block of that bin that is not in use.
LEMMA HeadIsFree ==
  ASSUME TypeOK, Conserved, Chained, NEW a \in Bin, free_lists[a] # NULL
  PROVE  /\ lists[a] \in Seq(Addr) /\ lists[a] # <<>> /\ free_lists[a] = lists[a][1]
         /\ free_lists[a] \in blocks /\ free_lists[a] \in Addr
         /\ ~InUse(free_lists[a]) /\ bin[free_lists[a]] = a
  <1>1. lists[a] # <<>> /\ free_lists[a] = lists[a][1]
    BY DEF Chained
  <1>2. lists[a] \in Seq(Addr)
    BY DEF TypeOK
  <1>3. 1 \in 1 .. Len(lists[a]) /\ lists[a][1] \in Addr
    BY <1>1, <1>2
  <1> QED
    BY <1>1, <1>2, <1>3 DEF Conserved

\* Taking the head of a list for a request it can hold.
LEMMA PopBlockKeeps ==
  ASSUME HeapInv, NEW a \in Bin, NEW size \in Nat, PopBlock(a, size),
         size <= bin_size(a) - HeaderSize,
         NEW k \in Addr \cup {NULL}, k # NULL => InUse(k), moving' = k, exited' = exited
  PROVE  HeapInv'
  <1> DEFINE b == free_lists[a]
             s == lists[a]
  <1>1. TypeOK /\ Disjoint /\ Conserved /\ Chained /\ PayloadFits
    BY DEF HeapInv
  <1>2. /\ b # NULL
        /\ free_lists' = [free_lists EXCEPT ![a] = word[b]]
        /\ lists' = [lists EXCEPT ![a] = Tail(s)]
        /\ word' = [word EXCEPT ![b] = HEAP_MAGIC]
        /\ bin' = [bin EXCEPT ![b] = a]
        /\ asked' = [asked EXCEPT ![b] = size]
        /\ heap_cur' = heap_cur /\ blocks' = blocks
    BY DEF PopBlock
  <1>3. /\ s \in Seq(Addr) /\ s # <<>> /\ b = s[1]
        /\ b \in blocks /\ b \in Addr /\ ~InUse(b) /\ bin[b] = a
    BY <1>1, <1>2, HeadIsFree
  <1>4. /\ Tail(s) \in Seq(Addr) /\ Len(Tail(s)) = Len(s) - 1 /\ Len(s) \in Nat \ {0}
        /\ \A i \in 1 .. Len(s) - 1 : Tail(s)[i] = s[i + 1]
    BY <1>3, TailOfSeq
  <1>5. /\ word[b] = IF 1 = Len(s) THEN NULL ELSE s[2]
        /\ \A i \in 1 .. Len(s) : word[s[i]] = IF i = Len(s) THEN NULL ELSE s[i + 1]
    <2>1. \A i \in 1 .. Len(s) : word[s[i]] = IF i = Len(s) THEN NULL ELSE s[i + 1]
      BY <1>1 DEF Chained
    <2>2. 1 \in 1 .. Len(s) /\ s[1 + 1] = s[2]
      BY <1>4
    <2> QED
      BY <1>3, <2>1, <2>2
  <1>6. bin' = bin /\ blocks' = blocks
    BY <1>1, <1>2, <1>3 DEF TypeOK
  <1>7. TypeOK'
    <2>1. word[b] \in Addr \cup {NULL}
      BY <1>3, <1>4, <1>5
    <2>2. free_lists' \in [Bin -> Addr \cup {NULL}]
      BY <1>1, <1>2, <2>1 DEF TypeOK
    <2>3. word' \in [Addr -> Addr \cup {NULL, HEAP_MAGIC}]
      BY <1>1, <1>2 DEF TypeOK
    <2>4. lists' \in [Bin -> Seq(Addr)]
      BY <1>1, <1>2, <1>4 DEF TypeOK
    <2>5. asked' \in [Addr -> Nat]
      BY <1>1, <1>2 DEF TypeOK
    <2> QED
      BY <1>1, <1>2, <1>6, <2>2, <2>3, <2>4, <2>5 DEF TypeOK
  <1>8. Disjoint'
    BY <1>1, <1>2, <1>6 DEF Disjoint, End
  <1>9. \A x \in Bin : \A i \in 1 .. Len(lists[x]) : x # a => lists[x][i] # b
    BY <1>1, <1>3 DEF Conserved
  <1>10. \A i \in 1 .. Len(s) : i # 1 => s[i] # b
    BY <1>1, <1>3, <1>4 DEF Conserved
  <1>11. Conserved'
    <2>1. ASSUME NEW c \in blocks, word'[c] # HEAP_MAGIC
          PROVE  \E i \in 1 .. Len(lists'[bin[c]]) : lists'[bin[c]][i] = c
      <3>1. c \in Addr /\ bin[c] \in Bin
        BY <1>1 DEF TypeOK
      <3>2. c # b /\ ~InUse(c)
        BY <1>1, <1>2, <1>3, <2>1, <3>1 DEF InUse, TypeOK
      <3>3. PICK i \in 1 .. Len(lists[bin[c]]) : lists[bin[c]][i] = c
        BY <1>1, <3>2 DEF Conserved
      <3>4. CASE bin[c] # a
        BY <1>1, <1>2, <3>1, <3>3, <3>4 DEF TypeOK
      <3>5. CASE bin[c] = a
        <4>1. i \in 2 .. Len(s)
          BY <1>3, <1>4, <3>2, <3>3, <3>5
        <4>2. i - 1 \in 1 .. Len(s) - 1 /\ Tail(s)[i - 1] = c
          BY <1>4, <3>3, <3>5, <4>1
        <4>3. lists'[bin[c]] = Tail(s)
          BY <1>1, <1>2, <3>5 DEF TypeOK
        <4> QED
          BY <1>4, <4>2, <4>3
      <3> QED
        BY <3>4, <3>5
    <2>2. ASSUME NEW x \in Bin, NEW i \in 1 .. Len(lists'[x])
          PROVE  /\ lists'[x][i] \in blocks' /\ word'[lists'[x][i]] # HEAP_MAGIC
                 /\ bin'[lists'[x][i]] = x
                 /\ \A j \in 1 .. Len(lists'[x]) : lists'[x][i] = lists'[x][j] => i = j
      <3>1. CASE x # a
        <4>1. lists'[x] = lists[x]
          BY <1>1, <1>2, <3>1 DEF TypeOK
        <4>2. lists[x][i] \in blocks /\ ~InUse(lists[x][i]) /\ bin[lists[x][i]] = x
          BY <1>1, <2>2, <4>1 DEF Conserved
        <4>3. lists[x][i] # b /\ lists[x][i] \in Addr
          BY <1>1, <1>9, <2>2, <3>1, <4>1, <4>2 DEF TypeOK
        <4>4. word'[lists[x][i]] = word[lists[x][i]]
          BY <1>1, <1>2, <4>3 DEF TypeOK
        <4>5. \A j \in 1 .. Len(lists[x]) : lists[x][i] = lists[x][j] => i = j
          BY <1>1, <2>2, <4>1 DEF Conserved
        <4>6. word[lists[x][i]] # HEAP_MAGIC
          BY <4>2 DEF InUse
        <4>7. lists'[x][i] \in blocks' /\ bin'[lists'[x][i]] = x
          BY <1>6, <4>1, <4>2
        <4>8. word'[lists'[x][i]] # HEAP_MAGIC
          BY <4>1, <4>4, <4>6
        <4>9. \A j \in 1 .. Len(lists'[x]) : lists'[x][i] = lists'[x][j] => i = j
          BY <4>1, <4>5
        <4> QED
          BY <4>7, <4>8, <4>9
      <3>2. CASE x = a
        <4>1. lists'[x] = Tail(s)
          BY <1>1, <1>2, <3>2 DEF TypeOK
        <4>2. i \in 1 .. Len(s) - 1 /\ i + 1 \in 1 .. Len(s) /\ Tail(s)[i] = s[i + 1]
          BY <1>4, <2>2, <4>1
        <4>3. s[i + 1] \in blocks /\ ~InUse(s[i + 1]) /\ bin[s[i + 1]] = a
          BY <1>1, <4>2 DEF Conserved
        <4>4. s[i + 1] # b /\ s[i + 1] \in Addr
          <5>1. i + 1 # 1
            BY <4>2
          <5>2. blocks \subseteq Addr
            BY <1>1 DEF TypeOK
          <5> QED
            BY <1>10, <4>2, <4>3, <5>1, <5>2
        <4>5. word'[s[i + 1]] = word[s[i + 1]]
          BY <1>1, <1>2, <4>4 DEF TypeOK
        <4>6. word'[s[i + 1]] # HEAP_MAGIC
          BY <1>2, <4>3, <4>5 DEF InUse
        <4>7. ASSUME NEW j \in 1 .. Len(Tail(s)), Tail(s)[i] = Tail(s)[j] PROVE i = j
          <5>1. j + 1 \in 1 .. Len(s) /\ Tail(s)[j] = s[j + 1]
            BY <1>4, <4>7
          <5>2. i + 1 = j + 1
            BY <1>1, <4>2, <4>7, <5>1 DEF Conserved
          <5> QED
            BY <4>2, <4>7, <5>2
        <4>8. lists'[x][i] \in blocks' /\ bin'[lists'[x][i]] = x
          BY <1>6, <3>2, <4>1, <4>2, <4>3
        <4>9. word'[lists'[x][i]] # HEAP_MAGIC
          BY <4>1, <4>2, <4>6
        <4>10. \A j \in 1 .. Len(lists'[x]) : lists'[x][i] = lists'[x][j] => i = j
          BY <4>1, <4>7
        <4> QED
          BY <4>8, <4>9, <4>10
      <3> QED
        BY <3>1, <3>2
    <2>3. \A c \in blocks' : word'[c] # HEAP_MAGIC =>
            \E i \in 1 .. Len(lists'[bin'[c]]) : lists'[bin'[c]][i] = c
      BY <1>2, <1>6, <2>1
    <2>4. \A x \in Bin : \A i \in 1 .. Len(lists'[x]) :
            /\ lists'[x][i] \in blocks' /\ word'[lists'[x][i]] # HEAP_MAGIC
            /\ bin'[lists'[x][i]] = x
            /\ \A j \in 1 .. Len(lists'[x]) : lists'[x][i] = lists'[x][j] => i = j
      BY <2>2
    <2> QED
      BY <2>3, <2>4 DEF Conserved, InUse
  <1>12. Chained'
    <2> SUFFICES ASSUME NEW x \in Bin
                 PROVE  /\ free_lists'[x] = IF lists'[x] = <<>> THEN NULL ELSE lists'[x][1]
                        /\ \A i \in 1 .. Len(lists'[x]) :
                             word'[lists'[x][i]] = IF i = Len(lists'[x]) THEN NULL ELSE lists'[x][i + 1]
      BY DEF Chained
    <2>1. CASE x # a
      <3>1. lists'[x] = lists[x] /\ free_lists'[x] = free_lists[x]
        BY <1>1, <1>2, <2>1 DEF TypeOK
      <3>2. \A i \in 1 .. Len(lists[x]) : word'[lists[x][i]] = word[lists[x][i]]
        <4> SUFFICES ASSUME NEW i \in 1 .. Len(lists[x])
                     PROVE  word'[lists[x][i]] = word[lists[x][i]]
          OBVIOUS
        <4>1. lists[x][i] \in blocks
          BY <1>1 DEF Conserved
        <4>2. lists[x][i] \in Addr /\ lists[x][i] # b
          BY <1>1, <1>9, <2>1, <4>1 DEF TypeOK
        <4> QED
          BY <1>1, <1>2, <4>2 DEF TypeOK
      <3> QED
        BY <1>1, <3>1, <3>2 DEF Chained
    <2>2. CASE x = a
      <3>1. lists'[x] = Tail(s) /\ free_lists'[x] = word[b]
        BY <1>1, <1>2, <2>2 DEF TypeOK
      <3>2. word[b] = IF Tail(s) = <<>> THEN NULL ELSE Tail(s)[1]
        <4>1. Tail(s) = <<>> <=> Len(s) = 1
          BY <1>3, TailOfSeq
        <4>2. Len(s) # 1 => Tail(s)[1] = s[2]
          BY <1>3, TailOfSeq
        <4> QED
          BY <1>5, <4>1, <4>2
      <3>3. ASSUME NEW i \in 1 .. Len(Tail(s))
            PROVE  word'[Tail(s)[i]] = IF i = Len(Tail(s)) THEN NULL ELSE Tail(s)[i + 1]
        <4>1. i \in 1 .. Len(s) - 1 /\ i + 1 \in 1 .. Len(s) /\ Tail(s)[i] = s[i + 1]
          BY <1>4, <3>3
        <4>2. s[i + 1] # b /\ s[i + 1] \in Addr
          BY <1>3, <1>10, <4>1
        <4>3. word'[s[i + 1]] = IF i + 1 = Len(s) THEN NULL ELSE s[i + 1 + 1]
          <5>1. word'[s[i + 1]] = word[s[i + 1]]
            BY <1>1, <1>2, <4>2 DEF TypeOK
          <5> QED
            BY <1>5, <4>1, <5>1
        <4>4. i # Len(Tail(s)) => Tail(s)[i + 1] = s[i + 1 + 1]
          BY <1>4, <4>1
        <4> QED
          BY <1>4, <4>1, <4>3, <4>4
      <3> QED
        BY <2>2, <3>1, <3>2, <3>3
    <2> QED
      BY <2>1, <2>2
  <1>13. PayloadFits'
    <2> SUFFICES ASSUME NEW c \in blocks, word'[c] = HEAP_MAGIC
                 PROVE  asked'[c] <= bin_size(bin[c]) - HeaderSize
      BY <1>2, <1>6 DEF PayloadFits, payload, InUse
    <2>1. CASE c = b
      BY <1>1, <1>2, <1>3, <2>1 DEF TypeOK
    <2>2. CASE c # b
      <3>1. InUse(c) /\ asked'[c] = asked[c]
        BY <1>1, <1>2, <2>2 DEF TypeOK, InUse
      <3> QED
        BY <1>1, <3>1 DEF PayloadFits, payload
    <2> QED
      BY <2>1, <2>2
  <1>14. MovingInUse'
    BY <1>1, <1>2 DEF MovingInUse, InUse, TypeOK
  <1> QED
    BY <1>7, <1>8, <1>11, <1>12, <1>13, <1>14 DEF HeapInv

\* Carving a new block for a request it can hold.
LEMMA BumpKeeps ==
  ASSUME HeapInv, NEW a \in Bin, NEW size \in Nat, Bump(a, size),
         size <= bin_size(a) - HeaderSize,
         NEW k \in Addr \cup {NULL}, k # NULL => InUse(k), moving' = k, exited' = exited
  PROVE  HeapInv'
  <1>1. TypeOK /\ Disjoint /\ Conserved /\ Chained /\ PayloadFits
    BY DEF HeapInv
  <1>2. /\ heap_cur + bin_size(a) <= HEAP_SIZE
        /\ heap_cur' = heap_cur + bin_size(a)
        /\ blocks' = blocks \cup {heap_cur}
        /\ word' = [word EXCEPT ![heap_cur] = HEAP_MAGIC]
        /\ bin' = [bin EXCEPT ![heap_cur] = a]
        /\ asked' = [asked EXCEPT ![heap_cur] = size]
    BY DEF Bump
  <1>3. free_lists' = free_lists /\ lists' = lists
    BY DEF Bump
  <1>4. /\ bin_size(a) \in Nat \ {0} /\ HEAP_SIZE \in Nat /\ heap_cur \in 0 .. HEAP_SIZE
        /\ heap_cur \in Addr
    <2>1. bin_size(a) \in Nat \ {0} /\ HEAP_SIZE \in Nat
      BY Constants
    <2>2. heap_cur \in 0 .. HEAP_SIZE
      BY <1>1 DEF TypeOK
    <2> QED
      BY <1>2, <2>1, <2>2 DEF Addr
  <1>5. \A b \in blocks : b \in Addr /\ bin[b] \in Bin /\ b < heap_cur
    BY <1>1, BlockInArena
  <1>6. \A b \in blocks : word'[b] = word[b] /\ bin'[b] = bin[b] /\ asked'[b] = asked[b]
    <2> SUFFICES ASSUME NEW b \in blocks
                 PROVE  word'[b] = word[b] /\ bin'[b] = bin[b] /\ asked'[b] = asked[b]
      OBVIOUS
    <2>1. b \in Addr /\ b # heap_cur
      BY <1>4, <1>5 DEF Addr
    <2> QED
      BY <1>1, <1>2, <2>1 DEF TypeOK
  <1>7. word'[heap_cur] = HEAP_MAGIC /\ bin'[heap_cur] = a /\ asked'[heap_cur] = size
    BY <1>1, <1>2, <1>4 DEF TypeOK
  <1>8. \A x \in Bin : lists[x] \in Seq(Addr) /\ \A i \in 1 .. Len(lists[x]) :
          lists[x][i] \in blocks /\ word[lists[x][i]] # HEAP_MAGIC /\ bin[lists[x][i]] = x
    BY <1>1 DEF Conserved, InUse, TypeOK
  <1>9. TypeOK'
    <2>1. heap_cur' \in 0 .. HEAP_SIZE
      BY <1>2, <1>4
    <2>2. word' \in [Addr -> Addr \cup {NULL, HEAP_MAGIC}] /\ bin' \in [Addr -> Bin]
          /\ asked' \in [Addr -> Nat]
      BY <1>1, <1>2 DEF TypeOK
    <2>3. blocks' \in SUBSET Addr
      BY <1>1, <1>2, <1>4 DEF TypeOK
    <2> QED
      BY <1>1, <1>3, <2>1, <2>2, <2>3 DEF TypeOK
  <1>10. Disjoint'
    <2>1. \A b \in blocks : b + bin_size(bin'[b]) <= heap_cur
      BY <1>1, <1>6 DEF Disjoint, End
    <2>2. \A b \in blocks : bin_size(bin[b]) \in Nat
      BY <1>5, Constants
    <2>3. ASSUME NEW b \in blocks' PROVE b + bin_size(bin'[b]) <= heap_cur'
      <3>1. CASE b = heap_cur
        BY <1>2, <1>7, <3>1
      <3>2. CASE b \in blocks
        BY <1>2, <1>4, <1>5, <1>6, <2>1, <2>2, <3>2 DEF Addr
      <3> QED
        BY <1>2, <3>1, <3>2
    <2>4. ASSUME NEW b \in blocks', NEW c \in blocks', b < c
          PROVE  b + bin_size(bin'[b]) <= c
      <3>1. b \in blocks
        BY <1>2, <1>4, <1>5, <2>4 DEF Addr
      <3>2. CASE c \in blocks
        BY <1>1, <1>6, <2>4, <3>1, <3>2 DEF Disjoint, End
      <3>3. CASE c = heap_cur
        BY <2>1, <3>1, <3>3
      <3> QED
        BY <1>2, <3>2, <3>3
    <2> QED
      BY <2>3, <2>4 DEF Disjoint, End
  <1>11. Conserved'
    <2>1. ASSUME NEW b \in blocks', word'[b] # HEAP_MAGIC
          PROVE  \E i \in 1 .. Len(lists'[bin'[b]]) : lists'[bin'[b]][i] = b
      <3>1. b \in blocks
        BY <1>2, <1>7, <2>1
      <3>2. \E i \in 1 .. Len(lists[bin[b]]) : lists[bin[b]][i] = b
        BY <1>1, <1>6, <2>1, <3>1 DEF Conserved, InUse
      <3> QED
        BY <1>3, <1>6, <3>1, <3>2
    <2>2. \A x \in Bin : \A i \in 1 .. Len(lists[x]) :
            \A j \in 1 .. Len(lists[x]) : lists[x][i] = lists[x][j] => i = j
      BY <1>1 DEF Conserved
    <2>3. \A x \in Bin : \A i \in 1 .. Len(lists[x]) :
            lists[x][i] \in blocks' /\ word'[lists[x][i]] # HEAP_MAGIC /\ bin'[lists[x][i]] = x
      BY <1>2, <1>6, <1>8
    <2> QED
      BY <1>3, <2>1, <2>2, <2>3 DEF Conserved, InUse
  <1>12. Chained'
    <2>1. \A x \in Bin : \A i \in 1 .. Len(lists[x]) : word'[lists[x][i]] = word[lists[x][i]]
      BY <1>6, <1>8
    <2> QED
      BY <1>1, <1>3, <2>1 DEF Chained
  <1>13. PayloadFits'
    <2>1. ASSUME NEW b \in blocks', word'[b] = HEAP_MAGIC
          PROVE  asked'[b] <= bin_size(bin'[b]) - HeaderSize
      <3>1. CASE b = heap_cur
        BY <1>7, <3>1
      <3>2. CASE b \in blocks
        BY <1>1, <1>6, <2>1, <3>2 DEF PayloadFits, InUse, payload
      <3> QED
        BY <1>2, <3>1, <3>2
    <2> QED
      BY <2>1 DEF PayloadFits, InUse, payload
  <1>14. MovingInUse'
    BY <1>2, <1>6 DEF MovingInUse, InUse
  <1> QED
    BY <1>9, <1>10, <1>11, <1>12, <1>13, <1>14 DEF HeapInv

\* A step of the process ending leaves the heap as it is.
LEMMA HeapUntouched ==
  ASSUME HeapInv,
         UNCHANGED <<heap_cur, free_lists, word, bin, blocks, lists, asked>>,
         moving' = NULL \/ moving' = moving,
         exited' \in {"no", "out of memory", "invalid free"}
  PROVE  HeapInv'
  <1>1. TypeOK'
    BY DEF HeapInv, TypeOK
  <1>2. Disjoint'
    BY DEF HeapInv, Disjoint, End
  <1>3. Conserved'
    BY DEF HeapInv, Conserved, InUse
  <1>4. Chained'
    BY DEF HeapInv, Chained
  <1>5. PayloadFits'
    BY DEF HeapInv, PayloadFits, payload, InUse
  <1>6. MovingInUse'
    BY DEF HeapInv, MovingInUse, InUse
  <1> QED
    BY <1>1, <1>2, <1>3, <1>4, <1>5, <1>6 DEF HeapInv

\* malloc: the request fits the block, whether it comes from the list of its
\* bin, from the arena, or from a larger list.
LEMMA AllocateKeeps ==
  ASSUME HeapInv, NEW size \in Nat, NEW k \in Addr \cup {NULL}, k # NULL => InUse(k),
         Allocate(size, k)
  PROVE  HeapInv'
  <1>1. TypeOK /\ Disjoint /\ Conserved /\ Chained
    BY DEF HeapInv
  <1>2. PICK b \in Bin :
        /\ IsBinIndex(size, b)
        /\ \/ PopBlock(b, size) /\ moving' = k /\ exited' = exited
           \/ Bump(b, size) /\ moving' = k /\ exited' = exited
           \/ /\ \E a \in b + 1 .. NUM_BINS - 1 : PopBlock(a, size)
              /\ moving' = k /\ exited' = exited
           \/ OutOfMemory
    BY DEF Allocate
  <1>3. Fits(size, b) \/ b = NUM_BINS - 1
    BY <1>2 DEF IsBinIndex
  <1>4. \A a \in Bin : bin_size(a) \in Nat /\ (b <= a => bin_size(b) <= bin_size(a))
    BY Constants
  <1>5. \A a \in Bin : Fits(size, b) /\ b <= a => size <= bin_size(a) - HeaderSize
    BY <1>4, Constants DEF Fits
  <1>6. b <= b
    BY <1>2 DEF Bin
  <1>7. CASE PopBlock(b, size) /\ moving' = k /\ exited' = exited
    <2>1. free_lists[b] # NULL
      BY <1>7 DEF PopBlock
    <2>2. free_lists[b] \in blocks /\ bin[free_lists[b]] = b
      BY <1>1, <2>1, HeadIsFree
    <2>3. b # NUM_BINS - 1
      BY <1>1, <2>2, BlockInArena
    <2> QED
      BY <1>3, <1>5, <1>6, <1>7, <2>3, PopBlockKeeps
  <1>8. CASE Bump(b, size) /\ moving' = k /\ exited' = exited
    <2>1. heap_cur + bin_size(b) <= HEAP_SIZE
      BY <1>8 DEF Bump
    <2>2. heap_cur \in Nat
      <3>1. heap_cur \in 0 .. HEAP_SIZE
        BY <1>1 DEF TypeOK
      <3> QED
        BY <3>1, Constants
    <2>3. b # NUM_BINS - 1
      BY <1>4, <2>1, <2>2, Constants
    <2> QED
      BY <1>3, <1>5, <1>6, <1>8, <2>3, BumpKeeps
  <1>9. CASE /\ \E a \in b + 1 .. NUM_BINS - 1 : PopBlock(a, size)
             /\ moving' = k /\ exited' = exited
    <2>1. PICK a \in b + 1 .. NUM_BINS - 1 : PopBlock(a, size)
      BY <1>9
    <2>2. a \in Bin /\ b <= a /\ b # NUM_BINS - 1
      BY <1>2, Constants DEF Bin
    <2> QED
      BY <1>3, <1>5, <1>9, <2>1, <2>2, PopBlockKeeps
  <1>10. CASE OutOfMemory
    BY <1>10, HeapUntouched DEF OutOfMemory
  <1> QED
    BY <1>2, <1>7, <1>8, <1>9, <1>10

\* free: a block in use goes to the front of the list of its bin; on any other
\* block the process ends.
LEMMA ReleaseKeeps ==
  ASSUME HeapInv, NEW p \in blocks, Release(p)
  PROVE  HeapInv'
  <1>1. CASE word[p] # HEAP_MAGIC
    BY <1>1, HeapUntouched DEF Release
  <1>2. CASE word[p] = HEAP_MAGIC
    <2> DEFINE a == bin[p]
               s == lists[a]
    <2>1. TypeOK /\ Disjoint /\ Conserved /\ Chained /\ PayloadFits
      BY DEF HeapInv
    <2>2. p \in Addr /\ a \in Bin /\ s \in Seq(Addr) /\ blocks \subseteq Addr
      BY <2>1 DEF TypeOK
    <2>3. /\ word' = [word EXCEPT ![p] = free_lists[a]]
          /\ free_lists' = [free_lists EXCEPT ![a] = p]
          /\ lists' = [lists EXCEPT ![a] = <<p>> \o s]
          /\ moving' = NULL
      BY <1>2 DEF Release
    <2>4. /\ heap_cur' = heap_cur /\ bin' = bin /\ blocks' = blocks /\ asked' = asked
          /\ exited' = exited
      BY <1>2 DEF Release
    <2>5. /\ \A c \in Addr : c # p => word'[c] = word[c]
          /\ word'[p] = free_lists[a] /\ free_lists[a] \in Addr \cup {NULL}
      BY <2>1, <2>2, <2>3 DEF TypeOK
    <2>6. /\ lists'[a] = <<p>> \o s /\ free_lists'[a] = p
          /\ \A x \in Bin : x # a => lists'[x] = lists[x] /\ free_lists'[x] = free_lists[x]
      BY <2>1, <2>2, <2>3 DEF TypeOK
    <2>7. /\ <<p>> \o s \in Seq(Addr) /\ Len(<<p>> \o s) = Len(s) + 1 /\ Len(s) \in Nat
          /\ (<<p>> \o s)[1] = p /\ <<p>> \o s # <<>>
          /\ \A i \in 1 .. Len(s) : (<<p>> \o s)[i + 1] = s[i]
          /\ s = <<>> <=> Len(s) = 0
      BY <2>2, ConsOfSeq
    <2>8. \A x \in Bin : \A i \in 1 .. Len(lists[x]) :
            /\ lists[x][i] \in blocks /\ word[lists[x][i]] # HEAP_MAGIC /\ bin[lists[x][i]] = x
            /\ lists[x][i] # p /\ word'[lists[x][i]] = word[lists[x][i]]
      BY <1>2, <2>1, <2>2, <2>5 DEF Conserved, InUse
    <2>9. word'[p] # HEAP_MAGIC
      BY <2>5 DEF Addr, NULL, HEAP_MAGIC
    <2>10. TypeOK'
      <3>1. word' \in [Addr -> Addr \cup {NULL, HEAP_MAGIC}]
        BY <2>1, <2>3, <2>5 DEF TypeOK
      <3>2. free_lists' \in [Bin -> Addr \cup {NULL}]
        BY <2>1, <2>2, <2>3 DEF TypeOK
      <3>3. lists' \in [Bin -> Seq(Addr)]
        BY <2>1, <2>3, <2>7 DEF TypeOK
      <3> QED
        BY <2>1, <2>3, <2>4, <3>1, <3>2, <3>3 DEF TypeOK
    <2>11. Disjoint'
      BY <2>1, <2>4 DEF Disjoint, End
    <2>12. Conserved'
      <3>1. ASSUME NEW c \in blocks, word'[c] # HEAP_MAGIC
            PROVE  \E i \in 1 .. Len(lists'[bin[c]]) : lists'[bin[c]][i] = c
        <4>1. CASE c = p
          BY <2>6, <2>7, <4>1
        <4>2. CASE c # p
          <5>1. c \in Addr /\ bin[c] \in Bin /\ word[c] # HEAP_MAGIC
            BY <2>1, <2>5, <3>1, <4>2 DEF TypeOK
          <5>2. PICK i \in 1 .. Len(lists[bin[c]]) : lists[bin[c]][i] = c
            BY <2>1, <5>1 DEF Conserved, InUse
          <5>3. CASE bin[c] # a
            BY <2>6, <5>1, <5>2, <5>3
          <5>4. CASE bin[c] = a
            <6>1. i + 1 \in 1 .. Len(s) + 1 /\ (<<p>> \o s)[i + 1] = c
              BY <2>7, <5>2, <5>4
            <6> QED
              BY <2>6, <2>7, <5>4, <6>1
          <5> QED
            BY <5>3, <5>4
        <4> QED
          BY <4>1, <4>2
      <3>2. ASSUME NEW x \in Bin, NEW i \in 1 .. Len(lists'[x])
            PROVE  /\ lists'[x][i] \in blocks /\ word'[lists'[x][i]] # HEAP_MAGIC
                   /\ bin[lists'[x][i]] = x
                   /\ \A j \in 1 .. Len(lists'[x]) : lists'[x][i] = lists'[x][j] => i = j
        <4>1. CASE x # a
          <5>1. lists'[x] = lists[x]
            BY <2>6, <4>1
          <5>2. \A j \in 1 .. Len(lists[x]) : lists[x][i] = lists[x][j] => i = j
            BY <2>1, <3>2, <5>1 DEF Conserved
          <5> QED
            BY <2>8, <3>2, <5>1, <5>2
        <4>2. CASE x = a
          <5>1. lists'[x] = <<p>> \o s
            BY <2>6, <4>2
          <5>2. \A j \in 1 .. Len(s) + 1 :
                  \/ j = 1 /\ (<<p>> \o s)[j] = p
                  \/ j - 1 \in 1 .. Len(s) /\ (<<p>> \o s)[j] = s[j - 1]
            BY <2>7
          <5>3. \A j \in 1 .. Len(s) : s[j] # p /\ s[j] \in blocks
                                      /\ word'[s[j]] # HEAP_MAGIC /\ bin[s[j]] = a
            BY <2>2, <2>8
          <5>4. \A j, l \in 1 .. Len(s) : s[j] = s[l] => j = l
            BY <2>1, <2>2 DEF Conserved
          <5>5. i \in 1 .. Len(s) + 1
            BY <2>7, <3>2, <5>1
          <5>6. /\ (<<p>> \o s)[i] \in blocks /\ word'[(<<p>> \o s)[i]] # HEAP_MAGIC
                /\ bin[(<<p>> \o s)[i]] = a
            BY <2>9, <5>2, <5>3, <5>5
          <5>7. ASSUME NEW j \in 1 .. Len(s) + 1, (<<p>> \o s)[i] = (<<p>> \o s)[j]
                PROVE  i = j
            BY <5>2, <5>3, <5>4, <5>5, <5>7
          <5> QED
            BY <2>7, <4>2, <5>1, <5>6, <5>7
        <4> QED
          BY <4>1, <4>2
      <3>3. \A c \in blocks' : word'[c] # HEAP_MAGIC =>
              \E i \in 1 .. Len(lists'[bin'[c]]) : lists'[bin'[c]][i] = c
        BY <2>4, <3>1
      <3>4. \A x \in Bin : \A i \in 1 .. Len(lists'[x]) :
              /\ lists'[x][i] \in blocks' /\ word'[lists'[x][i]] # HEAP_MAGIC
              /\ bin'[lists'[x][i]] = x
              /\ \A j \in 1 .. Len(lists'[x]) : lists'[x][i] = lists'[x][j] => i = j
        BY <2>4, <3>2
      <3> QED
        BY <3>3, <3>4 DEF Conserved, InUse
    <2>13. Chained'
      <3> SUFFICES ASSUME NEW x \in Bin
                   PROVE  /\ free_lists'[x] = IF lists'[x] = <<>> THEN NULL ELSE lists'[x][1]
                          /\ \A i \in 1 .. Len(lists'[x]) :
                               word'[lists'[x][i]] = IF i = Len(lists'[x]) THEN NULL ELSE lists'[x][i + 1]
        BY DEF Chained
      <3>1. CASE x # a
        BY <2>1, <2>6, <2>8, <3>1 DEF Chained
      <3>2. CASE x = a
        <4>1. free_lists[a] = IF s = <<>> THEN NULL ELSE s[1]
          BY <2>1, <2>2 DEF Chained
        <4>2. \A i \in 1 .. Len(s) : word'[s[i]] = IF i = Len(s) THEN NULL ELSE s[i + 1]
          BY <2>1, <2>2, <2>8 DEF Chained
        <4>3. ASSUME NEW i \in 1 .. Len(s) + 1
              PROVE  word'[(<<p>> \o s)[i]] =
                       IF i = Len(s) + 1 THEN NULL ELSE (<<p>> \o s)[i + 1]
          <5>1. CASE i = 1
            BY <2>5, <2>7, <4>1, <5>1
          <5>2. CASE i # 1
            <6>1. i - 1 \in 1 .. Len(s) /\ (<<p>> \o s)[i] = s[i - 1]
              BY <2>7, <4>3, <5>2
            <6>2. \A n \in Nat : \A m \in 1 .. n + 1 : m # n + 1 => m \in 1 .. n
              OBVIOUS
            <6>3. i # Len(s) + 1 => i \in 1 .. Len(s)
              BY <2>7, <4>3, <6>2, Zenon
            <6>4. i # Len(s) + 1 => (<<p>> \o s)[i + 1] = s[i]
              BY <2>7, <6>3
            <6>5. word'[s[i - 1]] = IF i - 1 = Len(s) THEN NULL ELSE s[i - 1 + 1]
              BY <4>2, <6>1
            <6>6. i - 1 + 1 = i /\ (i - 1 = Len(s) <=> i = Len(s) + 1)
              BY <2>7, <4>3
            <6> QED
              BY <6>1, <6>4, <6>5, <6>6
          <5> QED
            BY <5>1, <5>2
        <4>4. \A i \in 1 .. Len(<<p>> \o s) : word'[(<<p>> \o s)[i]] =
                 IF i = Len(<<p>> \o s) THEN NULL ELSE (<<p>> \o s)[i + 1]
          BY <2>7, <4>3
        <4>5. free_lists'[x] = p /\ lists'[x] = <<p>> \o s
          BY <2>6, <3>2
        <4> HIDE DEF s
        <4>6. free_lists'[x] = IF lists'[x] = <<>> THEN NULL ELSE lists'[x][1]
          BY <2>7, <4>5
        <4> QED
          BY <4>4, <4>5, <4>6, Zenon
      <3> QED
        BY <3>1, <3>2
    <2>14. PayloadFits'
      <3>1. \A c \in blocks : word'[c] = HEAP_MAGIC => word[c] = HEAP_MAGIC
        BY <2>2, <2>5, <2>9
      <3> QED
        BY <2>1, <2>4, <3>1 DEF PayloadFits, payload, InUse
    <2>15. MovingInUse'
      BY <2>3 DEF MovingInUse
    <2> QED
      BY <2>10, <2>11, <2>12, <2>13, <2>14, <2>15 DEF HeapInv
  <1> QED
    BY <1>1, <1>2

\* The block malloc returns was used by nobody and holds the request.
LEMMA AllocateFits ==
  ASSUME HeapInv, NEW size \in Nat, NEW k \in Addr \cup {NULL}, Allocate(size, k), moving' # NULL
  PROVE  /\ moving' = k
         /\ \E b \in blocks' : /\ ~InUse(b) /\ word'[b] = HEAP_MAGIC
                             /\ bin_size(bin'[b]) - HeaderSize >= size
  <1>1. TypeOK /\ Disjoint /\ Conserved /\ Chained
    BY DEF HeapInv
  <1>2. PICK b \in Bin :
        /\ IsBinIndex(size, b)
        /\ moving' = k
        /\ \/ Bump(b, size)
           \/ \E a \in b .. NUM_BINS - 1 : PopBlock(a, size)
    <2>1. PICK b \in Bin :
          /\ IsBinIndex(size, b)
          /\ \/ PopBlock(b, size) /\ moving' = k
             \/ Bump(b, size) /\ moving' = k
             \/ (\E a \in b + 1 .. NUM_BINS - 1 : PopBlock(a, size)) /\ moving' = k
             \/ OutOfMemory
      BY DEF Allocate
    <2>2. ~OutOfMemory
      BY DEF OutOfMemory
    <2>3. b \in b .. NUM_BINS - 1 /\ b + 1 .. NUM_BINS - 1 \subseteq b .. NUM_BINS - 1
      BY <2>1, Constants DEF Bin
    <2> QED
      BY <2>1, <2>2, <2>3
  <1>3. Fits(size, b) \/ b = NUM_BINS - 1
    BY <1>2 DEF IsBinIndex
  <1>4. \A a \in Bin : b <= a /\ Fits(size, b) => bin_size(a) - HeaderSize >= size
    BY Constants DEF Fits
  <1>5. heap_cur \in Nat
    <2>1. heap_cur \in 0 .. HEAP_SIZE
      BY <1>1 DEF TypeOK
    <2> QED
      BY <2>1, Constants
  <1>6. CASE Bump(b, size)
    <2>1. /\ heap_cur + bin_size(b) <= HEAP_SIZE /\ blocks' = blocks \cup {heap_cur}
          /\ word' = [word EXCEPT ![heap_cur] = HEAP_MAGIC]
          /\ bin' = [bin EXCEPT ![heap_cur] = b]
      BY <1>6 DEF Bump
    <2>2. bin_size(b) \in Nat \ {0}
      BY Constants
    <2>3. heap_cur \in Addr
      BY <1>5, <2>1, <2>2, Constants DEF Addr
    <2>4. heap_cur \notin blocks
      <3>1. \A c \in blocks : c < heap_cur
        BY <1>1, BlockInArena
      <3> QED
        BY <1>5, <3>1
    <2>5. word'[heap_cur] = HEAP_MAGIC /\ bin'[heap_cur] = b
      BY <1>1, <2>1, <2>3 DEF TypeOK
    <2>6. b # NUM_BINS - 1 /\ b <= b
      BY <1>2, <1>5, <2>1, <2>2, Constants DEF Bin
    <2>7. bin_size(b) - HeaderSize >= size
      BY <1>3, <1>4, <2>6
    <2> QED
      BY <1>2, <2>1, <2>4, <2>5, <2>7 DEF InUse
  <1>7. CASE \E a \in b .. NUM_BINS - 1 : PopBlock(a, size)
    <2>1. PICK a \in b .. NUM_BINS - 1 : PopBlock(a, size)
      BY <1>7
    <2>2. a \in Bin /\ b <= a /\ (b = NUM_BINS - 1 => a = NUM_BINS - 1)
      BY <1>2, Constants DEF Bin
    <2> DEFINE h == free_lists[a]
    <2>3. /\ h # NULL /\ blocks' = blocks
          /\ word' = [word EXCEPT ![h] = HEAP_MAGIC] /\ bin' = [bin EXCEPT ![h] = a]
      BY <2>1 DEF PopBlock
    <2>4. h \in blocks /\ h \in Addr /\ ~InUse(h) /\ bin[h] = a
      BY <1>1, <2>2, <2>3, HeadIsFree
    <2>5. word'[h] = HEAP_MAGIC /\ bin'[h] = a
      BY <1>1, <2>3, <2>4 DEF TypeOK
    <2>6. a # NUM_BINS - 1
      BY <1>1, <2>4, BlockInArena
    <2>7. bin_size(a) - HeaderSize >= size
      BY <1>3, <1>4, <2>2, <2>6
    <2> QED
      BY <1>2, <2>3, <2>4, <2>5, <2>7
  <1> QED
    BY <1>2, <1>6, <1>7

\* The empty arena satisfies the invariant.
LEMMA HeapInit == Init => HeapInv
  <1> SUFFICES ASSUME Init PROVE HeapInv
    OBVIOUS
  <1>1. TypeOK
    <2>1. 0 \in Bin /\ 0 \in 0 .. HEAP_SIZE
      BY Constants DEF Bin
    <2> QED
      BY <2>1 DEF Init, TypeOK
  <1>2. Disjoint /\ PayloadFits /\ MovingInUse
    BY DEF Init, Disjoint, PayloadFits, MovingInUse
  <1>3. Conserved /\ Chained
    BY DEF Init, Conserved, Chained
  <1> QED
    BY <1>1, <1>2, <1>3 DEF HeapInv

\* Every step of the allocator keeps the invariant.
LEMMA HeapNext == HeapInv /\ [Next]_vars => HeapInv'
  <1> SUFFICES ASSUME HeapInv, [Next]_vars PROVE HeapInv'
    OBVIOUS
  <1>1. blocks \subseteq Addr /\ NULL \in Addr \cup {NULL} /\ Size \subseteq Nat
    BY Constants DEF HeapInv, TypeOK
  <1>2. ASSUME NEW size \in Size, Malloc(size) PROVE HeapInv'
    <2>1. Rounded(size) \in Nat
      BY <1>1 DEF Rounded
    <2> QED
      BY <1>1, <1>2, <2>1, AllocateKeeps DEF Malloc
  <1>3. ASSUME NEW p \in Addr, Free(p) PROVE HeapInv'
    BY <1>3, ReleaseKeeps DEF Free
  <1>4. ASSUME NEW p \in Addr, ReallocFree(p) PROVE HeapInv'
    BY <1>4, ReleaseKeeps DEF ReallocFree
  <1>5. ASSUME NEW p \in Addr, NEW size \in Size, ReallocInPlace(p, size) PROVE HeapInv'
    <2>1. /\ size <= payload(p) /\ asked' = [asked EXCEPT ![p] = size]
          /\ UNCHANGED <<heap_cur, free_lists, word, bin, blocks, lists, moving, exited>>
      <3>1. bin[p] \in Bin
        BY DEF HeapInv, TypeOK
      <3>2. payload(p) \in Int
        BY <3>1, Constants DEF payload
      <3> QED
        BY <1>1, <1>5, <3>2 DEF ReallocInPlace
    <2>2. TypeOK'
      BY <1>1, <2>1 DEF HeapInv, TypeOK
    <2>3. Disjoint'
      BY <2>1 DEF HeapInv, Disjoint, End
    <2>4. Conserved'
      BY <2>1 DEF HeapInv, Conserved, InUse
    <2>5. Chained'
      BY <2>1 DEF HeapInv, Chained
    <2>6. PayloadFits'
      BY <2>1 DEF HeapInv, TypeOK, PayloadFits, payload, InUse
    <2>7. MovingInUse'
      BY <2>1 DEF HeapInv, MovingInUse, InUse
    <2> QED
      BY <2>2, <2>3, <2>4, <2>5, <2>6, <2>7 DEF HeapInv
  <1>6. ASSUME NEW p \in Addr, NEW size \in Size, ReallocMove(p, size) PROVE HeapInv'
    BY <1>1, <1>6, AllocateKeeps DEF ReallocMove
  <1>7. ASSUME NEW p \in Addr, NEW size \in Size, ReallocForeign(p, size) PROVE HeapInv'
    BY <1>1, <1>7, AllocateKeeps DEF ReallocForeign
  <1>8. CASE FreeMoved
    <2>1. moving \in blocks /\ Release(moving)
      BY <1>8 DEF FreeMoved, HeapInv, MovingInUse, InUse
    <2> QED
      BY <2>1, ReleaseKeeps
  <1>9. CASE Exited \/ UNCHANGED vars
    BY <1>9, HeapUntouched DEF Exited, vars, HeapInv, TypeOK
  <1> QED
    BY <1>2, <1>3, <1>4, <1>5, <1>6, <1>7, <1>8, <1>9 DEF Next

\* The inductive invariant, from which the properties of the allocator follow.
THEOREM HeapSafety == Spec => []HeapInv
  BY HeapInit, HeapNext, PTL DEF Spec

\* Links, bins and the bump pointer stay within the arena, also after a block
\* was freed twice.
THEOREM HeapTypes == Spec => []TypeOK
  <1>1. HeapInv => TypeOK
    BY DEF HeapInv
  <1> QED
    BY <1>1, HeapSafety, PTL

\* No two blocks overlap, whatever was recycled.
THEOREM BlocksDisjoint == Spec => []Disjoint
  <1>1. HeapInv => Disjoint
    BY DEF HeapInv
  <1> QED
    BY <1>1, HeapSafety, PTL

\* No block is lost, none is in two lists, and none is handed out twice.
THEOREM BlocksConserved == Spec => []Conserved
  <1>1. HeapInv => Conserved
    BY DEF HeapInv
  <1> QED
    BY <1>1, HeapSafety, PTL

\* The list of a bin, followed through the first words of its blocks, is whole.
THEOREM ListsChained == Spec => []Chained
  <1>1. HeapInv => Chained
    BY DEF HeapInv
  <1> QED
    BY <1>1, HeapSafety, PTL

\* A block in use holds what was asked for: bin_index caps at the last bin, so
\* this rests on no block of the last bin fitting the arena.
THEOREM RequestsFit == Spec => []PayloadFits
  <1>1. HeapInv => PayloadFits
    BY DEF HeapInv
  <1> QED
    BY <1>1, HeapSafety, PTL

\* realloc copies from a block in use into a larger one that was free.
THEOREM ReallocCopies == Spec => ReallocCopyFits
  <1> DEFINE Copies ==
        moving' # NULL =>
          \E b \in blocks' :
            /\ b # moving' /\ ~InUse(b) /\ word'[b] = HEAP_MAGIC
            /\ InUse(moving') /\ bin_size(bin'[b]) > bin_size(bin[moving'])
  <1>1. ASSUME HeapInv, Next, moving' # NULL, ~UNCHANGED vars PROVE Copies
    <2>1. Size \subseteq Nat /\ NULL \in Addr \cup {NULL}
      BY Constants
    <2>2. ASSUME NEW size \in Size, Malloc(size) PROVE FALSE
      <3>1. Rounded(size) \in Nat
        BY <2>1 DEF Rounded
      <3> QED
        BY <1>1, <2>1, <2>2, <3>1, AllocateFits DEF Malloc
    <2>3. ASSUME NEW p \in Addr, Release(p) PROVE FALSE
      BY <1>1, <2>3 DEF Release
    <2>4. ASSUME NEW p \in Addr, NEW size \in Size, ReallocForeign(p, size) PROVE FALSE
      BY <1>1, <2>1, <2>4, AllocateFits DEF ReallocForeign
    <2>5. ASSUME NEW p \in Addr, NEW size \in Size, ReallocInPlace(p, size) PROVE FALSE
      BY <1>1, <2>5 DEF ReallocInPlace, Idle
    <2>6. ASSUME NEW p \in Addr, NEW size \in Size, ReallocMove(p, size) PROVE Copies
      <3>1. /\ InUse(p) /\ payload(p) < size /\ size \in Nat /\ p \in Addr \cup {NULL}
            /\ Allocate(size, p)
        BY <2>1, <2>6 DEF ReallocMove
      <3>2. PICK b \in blocks' : /\ ~InUse(b) /\ word'[b] = HEAP_MAGIC
                                 /\ bin_size(bin'[b]) - HeaderSize >= size
        BY <1>1, <3>1, AllocateFits
      <3>3. moving' = p
        BY <1>1, <3>1, AllocateFits
      <3>4. b # p
        BY <3>1, <3>2
      <3>5. bin'[b] \in Bin /\ bin[p] \in Bin
        <4>1. TypeOK' /\ TypeOK
          BY <1>1, HeapNext DEF HeapInv
        <4>2. b \in Addr
          BY <4>1, <3>2 DEF TypeOK
        <4> QED
          BY <4>1, <4>2 DEF TypeOK
      <3>6. bin_size(bin'[b]) > bin_size(bin[p])
        BY <3>1, <3>2, <3>5, Constants DEF payload
      <3> QED
        BY <3>1, <3>2, <3>3, <3>4, <3>6
    <2>7. CASE FreeMoved
      <3>1. moving \in Addr /\ Release(moving)
        BY <1>1, <2>7 DEF FreeMoved, HeapInv, TypeOK
      <3> QED
        BY <2>3, <3>1
    <2>8. CASE Exited
      BY <1>1, <2>8 DEF Exited
    <2> QED
      BY <1>1, <2>2, <2>3, <2>4, <2>5, <2>6, <2>7, <2>8 DEF Next, Free, ReallocFree
  <1>2. HeapInv /\ [Next]_vars => [Copies]_vars
    BY <1>1
  <1> QED
    BY <1>2, HeapSafety, PTL DEF Spec, ReallocCopyFits
==============================================================================
