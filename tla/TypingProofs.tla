----------------------------- MODULE TypingProofs -----------------------------
(***************************************************************************)
(* Proofs about the parts that follow the types of the operands: how each  *)
(* keeps step with the program however deep the operand stack is.          *)
(***************************************************************************)
EXTENDS OperandTyping, DataLemmas

---------------------------------------------------------------------------
(* A sequence s on top of a sequence base. *)

Over(w, base, s) == w = base \o s

\* Where its elements are.
LEMMA OnTop ==
  ASSUME NEW S, NEW base \in Seq(S), NEW s \in Seq(S), NEW w, Over(w, base, s)
  PROVE  /\ w \in Seq(S) /\ Len(base) \in Nat /\ Len(s) \in Nat
         /\ Len(w) = Len(base) + Len(s)
         /\ \A i \in 1 .. Len(base) : w[i] = base[i]
         /\ \A i \in 1 .. Len(s) : w[Len(base) + i] = s[i]
  BY ConcatProperties DEF Over

\* What is dropped comes off the top.
LEMMA DropsTop ==
  ASSUME NEW S, NEW base \in Seq(S), NEW s \in Seq(S), NEW w, Over(w, base, s),
         NEW n \in 0 .. Len(s)
  PROVE  /\ Ir!Dropped(s, n) \in Seq(S)
         /\ Over(Ir!Dropped(w, n), base, Ir!Dropped(s, n))
  <1>1. Len(base) \in Nat /\ Len(s) \in Nat /\ Len(s) - n \in 0 .. Len(s)
    BY LenProperties
  <1>2. PICK k \in 0 .. Len(s) : k = Len(s) - n
    BY <1>1
  <1>3. PICK short : short = SubSeq(s, 1, k)
    OBVIOUS
  <1>4. short \in Seq(S) /\ Len(short) = k /\ \A i \in 1 .. k : short[i] = s[i]
    BY <1>3, PrefixOf
  <1>5. w \in Seq(S) /\ Len(w) = Len(base) + Len(s)
    BY OnTop
  <1>6. /\ \A i \in 1 .. Len(base) : w[i] = base[i]
        /\ \A i \in 1 .. Len(s) : w[Len(base) + i] = s[i]
    BY OnTop
  <1>7. PICK m \in 0 .. Len(w) : m = Len(w) - n /\ m = Len(base) + k
    <2>1. Len(w) - n \in 0 .. Len(w) /\ Len(w) - n = Len(base) + k
      BY <1>1, <1>2, <1>5
    <2> QED
      BY <2>1
  <1>8. PICK u : u = SubSeq(w, 1, m)
    OBVIOUS
  <1>9. u \in Seq(S) /\ Len(u) = m /\ \A i \in 1 .. m : u[i] = w[i]
    BY <1>5, <1>8, PrefixOf
  <1>10. PICK v : Over(v, base, short)
    BY DEF Over
  <1>11. v \in Seq(S) /\ Len(v) = m
    BY <1>4, <1>7, <1>10, OnTop
  <1>12. /\ \A i \in 1 .. Len(base) : v[i] = base[i]
         /\ \A i \in 1 .. k : v[Len(base) + i] = short[i]
    BY <1>4, <1>10, OnTop
  <1>13. ASSUME NEW i \in 1 .. m PROVE u[i] = v[i]
    <2>1. CASE i <= Len(base)
      <3>1. i \in 1 .. Len(base)
        BY <2>1, <1>1
      <3> QED
        BY <3>1, <1>6, <1>9, <1>12
    <2>2. CASE i > Len(base)
      <3>1. PICK j \in 1 .. k : i = Len(base) + j
        <4>1. i - Len(base) \in 1 .. k /\ i = Len(base) + (i - Len(base))
          BY <2>2, <1>1, <1>2, <1>7
        <4> QED
          BY <4>1
      <3>2. j \in 1 .. Len(s)
        BY <1>1, <1>2
      <3> QED
        BY <3>1, <3>2, <1>4, <1>6, <1>9, <1>12
    <2> QED
      BY <2>1, <2>2, <1>1, <1>7
  <1>14. u = v
    BY <1>9, <1>11, <1>13, SeqEqual
  <1>15. Ir!Dropped(s, n) = short /\ Ir!Dropped(w, n) = u
    BY <1>2, <1>3, <1>7, <1>8 DEF Ir!Dropped
  <1> QED
    BY <1>4, <1>10, <1>14, <1>15

\* More goes on top.
LEMMA AddsTop ==
  ASSUME NEW S, NEW base \in Seq(S), NEW s \in Seq(S), NEW w, Over(w, base, s), NEW t
  PROVE  Over(Append(w, t), base, Append(s, t))
  <1> DEFINE A == S \cup {t}
  <1>1. base \in Seq(A) /\ s \in Seq(A) /\ t \in A
    BY ElementOfSeq, LenProperties
  <1> HIDE DEF A
  <1>2. Append(base \o s, t) = (base \o s) \o <<t>> /\ Append(s, t) = s \o <<t>>
    BY <1>1, AppendIsConcat, ConcatProperties
  <1> QED
    BY <1>1, <1>2, ConcatAssociative DEF Over

\* Two results pushed in one step stay over the operands below.
LEMMA PairTop ==
  ASSUME NEW S, NEW base \in Seq(S), NEW s \in Seq(S), NEW w, Over(w, base, s), NEW t, NEW u
  PROVE  Over(w \o <<t, u>>, base, s \o <<t, u>>)
  <1> DEFINE A == S \cup {t, u}
  <1>1. base \in Seq(A) /\ s \in Seq(A) /\ <<t, u>> \in Seq(A)
    BY SeqMonotonic
  <1> HIDE DEF A
  <1> QED
    BY <1>1, ConcatAssociative DEF Over

\* An element counted from the top.
LEMMA OperandTop ==
  ASSUME NEW S, NEW base \in Seq(S), NEW s \in Seq(S), NEW w, Over(w, base, s),
         NEW n \in 1 .. Len(s)
  PROVE  Ir!Operand(w, n) = Ir!Operand(s, n)
  <1>1. Len(base) \in Nat /\ Len(s) \in Nat
    BY LenProperties
  <1>2. Len(w) = Len(base) + Len(s) /\ \A i \in 1 .. Len(s) : w[Len(base) + i] = s[i]
    BY OnTop
  <1>3. PICK i \in 1 .. Len(s) : i = Len(s) + 1 - n
    <2>1. Len(s) + 1 - n \in 1 .. Len(s)
      BY <1>1
    <2> QED
      BY <2>1
  <1>4. Len(w) >= n /\ Len(s) >= n /\ Len(w) + 1 - n = Len(base) + i
    BY <1>1, <1>2, <1>3
  <1> QED
    BY <1>2, <1>3, <1>4 DEF Ir!Operand

\* What pops n operands and leaves a result.
LEMMA ResultTop ==
  ASSUME NEW S, NEW base \in Seq(S), NEW s \in Seq(S), NEW w, Over(w, base, s),
         NEW n \in 0 .. Len(s), NEW t
  PROVE  /\ Over(Ir!Result(w, n, t), base, Ir!Result(s, n, t))
         /\ Over(Append(Ir!Dropped(w, n), t), base, Append(Ir!Dropped(s, n), t))
  BY DropsTop, AddsTop DEF Ir!Result

---------------------------------------------------------------------------
(* The IR builder: how many operands each group of branches takes. *)

\* The calls with a fixed number of operands are those of the eight tables.
LEMMA FixedNames ==
  DOMAIN Ir!FixedCalls =
    DOMAIN Ir!StringCalls \cup DOMAIN Ir!FileCalls \cup DOMAIN Ir!SocketCalls
      \cup DOMAIN Ir!Statements \cup DOMAIN Ir!Processes2 \cup DOMAIN Ir!SetCalls
      \cup DOMAIN Ir!DictCalls \cup DOMAIN Ir!OtherCalls
  BY DEF Ir!FixedCalls

\* How many operands each branch takes, whatever other tables say.
LEMMA Arities ==
  ASSUME NEW f
  PROVE  /\ f.op \in DOMAIN Ir!IrConstants => Ir!IrArity(f) = 0
         /\ f.op \in Ir!IntArithmetic \cup Ir!FloatArithmetic => Ir!IrArity(f) = 2
         /\ f.op \in Ir!IntConstants \cup Ir!FloatConstants => Ir!IrArity(f) = 1
         /\ f.op \in DOMAIN Ir!Math1 => Ir!IrArity(f) = 1
         /\ f.op \in DOMAIN Ir!Math2 => Ir!IrArity(f) = 2
         /\ f.op = "NEG" => Ir!IrArity(f) = 1
         /\ f.op \in DOMAIN Ir!Conversion => Ir!IrArity(f) = 1
         /\ f.op \in {"CMP_EQ", "CMP_NE", "CMP_LT", "CMP_LE", "CMP_GT", "CMP_GE", "AND", "OR"} => Ir!IrArity(f) = 2
         /\ f.op \in {"CMP_EQ_CONST", "CMP_NE_CONST", "CMP_LT_CONST", "CMP_LE_CONST", "CMP_GT_CONST", "CMP_GE_CONST"} => Ir!IrArity(f) = 1
         /\ f.op \in DOMAIN Ir!FixedCalls => Ir!IrArity(f) = Ir!FixedCalls[f.op][1]
         /\ f.op \in DOMAIN Ir!NewLists => Ir!IrArity(f) = 0
         /\ f.op = "LIST_APPEND" => Ir!IrArity(f) = 2
         /\ f.op = "LIST_GET" => Ir!IrArity(f) = 2
         /\ f.op = "LIST_SET" => Ir!IrArity(f) = 3
         /\ f.op = "LIST_POP" => Ir!IrArity(f) = 1
         /\ f.op = "STRUCT_NEW" => Ir!IrArity(f) = Ir!Cardinality(DOMAIN IrFields)
         /\ f.op = "STRUCT_GET" => Ir!IrArity(f) = 1
         /\ f.op = "STRUCT_SET" => Ir!IrArity(f) = 2
         /\ f.op \in {"LOAD", "LOAD_GLOBAL", "FUSED_LOAD_STORE"} => Ir!IrArity(f) = 0
         /\ f.op \in DOMAIN Ir!Load2Arithmetic => Ir!IrArity(f) = 0
         /\ f.op \in {"LOAD2_CMP_LT", "LOAD2_CMP_GT"} => Ir!IrArity(f) = 0
         /\ f.op = "CALL" => Ir!IrArity(f) = f.count
         /\ f.op = "ADDR_FIELD" => Ir!IrArity(f) = 1
         /\ f.op = "ADDR_ELEM" => Ir!IrArity(f) = 2
         /\ f.op = "ADDR_LOCAL" => Ir!IrArity(f) = 0
         /\ f.op = "DEREF" => Ir!IrArity(f) = 1
         /\ f.op = "DUP" => Ir!IrArity(f) = 1
         /\ f.op = "SWAP" => Ir!IrArity(f) = 2
  <1> USE FixedNames DEF Ir!IrArity, Ir!StringCalls, Ir!FileCalls, Ir!SocketCalls, Ir!Statements,
        Ir!Processes2, Ir!SetCalls, Ir!DictCalls, Ir!IrConstants, Ir!NewLists, Ir!Load2Arithmetic,
        Ir!IntArithmetic, Ir!FloatArithmetic, Ir!IntConstants, Ir!FloatConstants, Ir!Math1, Ir!Math2,
        Ir!Conversion, Ir!OtherCalls
  <1>1. f.op \in DOMAIN Ir!IrConstants => Ir!IrArity(f) = 0
    OBVIOUS
  <1>2. f.op \in Ir!IntArithmetic \cup Ir!FloatArithmetic => Ir!IrArity(f) = 2
    OBVIOUS
  <1>3. f.op \in Ir!IntConstants \cup Ir!FloatConstants => Ir!IrArity(f) = 1
    OBVIOUS
  <1>4. f.op \in DOMAIN Ir!Math1 => Ir!IrArity(f) = 1
    OBVIOUS
  <1>5. f.op \in DOMAIN Ir!Math2 => Ir!IrArity(f) = 2
    OBVIOUS
  <1>6. f.op = "NEG" => Ir!IrArity(f) = 1
    OBVIOUS
  <1>7. f.op \in DOMAIN Ir!Conversion => Ir!IrArity(f) = 1
    OBVIOUS
  <1>8. f.op \in {"CMP_EQ", "CMP_NE", "CMP_LT", "CMP_LE", "CMP_GT", "CMP_GE", "AND", "OR"} => Ir!IrArity(f) = 2
    OBVIOUS
  <1>9. f.op \in {"CMP_EQ_CONST", "CMP_NE_CONST", "CMP_LT_CONST", "CMP_LE_CONST", "CMP_GT_CONST", "CMP_GE_CONST"} => Ir!IrArity(f) = 1
    OBVIOUS
  <1>10. f.op \in DOMAIN Ir!FixedCalls => Ir!IrArity(f) = Ir!FixedCalls[f.op][1]
    OBVIOUS
  <1>11. f.op \in DOMAIN Ir!NewLists => Ir!IrArity(f) = 0
    OBVIOUS
  <1>12. f.op = "LIST_APPEND" => Ir!IrArity(f) = 2
    OBVIOUS
  <1>13. f.op = "LIST_GET" => Ir!IrArity(f) = 2
    OBVIOUS
  <1>14. f.op = "LIST_SET" => Ir!IrArity(f) = 3
    OBVIOUS
  <1>15. f.op = "LIST_POP" => Ir!IrArity(f) = 1
    OBVIOUS
  <1>16. f.op = "STRUCT_NEW" => Ir!IrArity(f) = Ir!Cardinality(DOMAIN IrFields)
    OBVIOUS
  <1>17. f.op = "STRUCT_GET" => Ir!IrArity(f) = 1
    OBVIOUS
  <1>18. f.op = "STRUCT_SET" => Ir!IrArity(f) = 2
    OBVIOUS
  <1>19. f.op \in {"LOAD", "LOAD_GLOBAL", "FUSED_LOAD_STORE"} => Ir!IrArity(f) = 0
    OBVIOUS
  <1>20. f.op \in DOMAIN Ir!Load2Arithmetic => Ir!IrArity(f) = 0
    OBVIOUS
  <1>21. f.op \in {"LOAD2_CMP_LT", "LOAD2_CMP_GT"} => Ir!IrArity(f) = 0
    OBVIOUS
  <1>22. f.op = "CALL" => Ir!IrArity(f) = f.count
    OBVIOUS
  <1>23. f.op = "ADDR_FIELD" => Ir!IrArity(f) = 1
    OBVIOUS
  <1>24. f.op = "ADDR_ELEM" => Ir!IrArity(f) = 2
    OBVIOUS
  <1>25. f.op = "ADDR_LOCAL" => Ir!IrArity(f) = 0
    OBVIOUS
  <1>26. f.op = "DEREF" => Ir!IrArity(f) = 1
    OBVIOUS
  <1>27. f.op = "DUP" => Ir!IrArity(f) = 1
    OBVIOUS
  <1>28. f.op = "SWAP" => Ir!IrArity(f) = 2
    OBVIOUS
  <1> QED
    BY <1>1, <1>2, <1>3, <1>4, <1>5, <1>6, <1>7, <1>8, <1>9, <1>10, <1>11, <1>12, <1>13, <1>14, <1>15, <1>16, <1>17, <1>18, <1>19, <1>20, <1>21, <1>22, <1>23, <1>24, <1>25, <1>26, <1>27, <1>28, Zenon

\* The branches themselves: below the operands it takes nothing is looked at.
THEOREM IrLocal ==
  ASSUME NEW S, NEW base \in Seq(S), NEW s \in Seq(S), NEW w, Over(w, base, s),
         NEW f, Ir!IrArity(f) \in 0 .. Len(s),
         f.op \notin {"RETURN", "RETURN_VOID", "RAISE"}
  PROVE  Over(Ir!IrTranslate(w, f), base, Ir!IrTranslate(s, f))
  <1>1. Len(s) \in Nat /\ Len(w) \in Nat /\ Len(w) >= Len(s)
    BY OnTop
  <1>2. \A n \in 1 .. Len(s) : Ir!Operand(w, n) = Ir!Operand(s, n)
    BY OperandTop
  <1>3. \A n \in 0 .. Len(s) :
          /\ Over(Ir!Dropped(w, n), base, Ir!Dropped(s, n)) /\ Ir!Dropped(s, n) \in Seq(S)
    BY DropsTop
  <1>4. \A n \in 0 .. Len(s) : \A t :
          /\ Over(Ir!Result(w, n, t), base, Ir!Result(s, n, t))
          /\ Over(Append(Ir!Dropped(w, n), t), base, Append(Ir!Dropped(s, n), t))
    BY ResultTop
  <1>5. \A t : Over(Append(w, t), base, Append(s, t))
    BY AddsTop
  <1>6. \A n \in 0 .. Len(s) : \A t : \A u :
          Over(Ir!Dropped(w, n) \o <<t, u>>, base, Ir!Dropped(s, n) \o <<t, u>>)
    BY <1>3, PairTop
  <1>7. ASSUME f.op \in DOMAIN Ir!IrConstants
        PROVE  Over(Append(w, Ir!IrConstants[f.op]),
                    base, Append(s, Ir!IrConstants[f.op]))
    BY <1>5
  <1>8. ASSUME f.op \in Ir!IntArithmetic \cup Ir!FloatArithmetic
        PROVE  Over(Ir!Arithmetic(w, f.op),
                    base, Ir!Arithmetic(s, f.op))
    BY <1>8, <1>4, Arities DEF Ir!Arithmetic
  <1>9. ASSUME f.op \in Ir!IntConstants \cup Ir!FloatConstants
        PROVE  Over(Ir!ConstArithmetic(w, f.op),
                    base, Ir!ConstArithmetic(s, f.op))
    <2>1. Ir!IrArity(f) = 1
      BY <1>9, Arities
    <2>2. 1 \in 0 .. Len(s) /\ Ir!Operand(w, 1) = Ir!Operand(s, 1)
      BY <2>1, <1>1, <1>2
    <2> QED
      BY <2>2, <1>4 DEF Ir!ConstArithmetic
  <1>10. ASSUME f.op \in DOMAIN Ir!Math1
        PROVE  Over(Ir!Result(w, 1, Ir!Math1[f.op]),
                    base, Ir!Result(s, 1, Ir!Math1[f.op]))
    BY <1>10, <1>4, Arities
  <1>11. ASSUME f.op \in DOMAIN Ir!Math2
        PROVE  Over(Ir!Result(w, 2, Ir!Math2[f.op]),
                    base, Ir!Result(s, 2, Ir!Math2[f.op]))
    BY <1>11, <1>4, Arities
  <1>12. ASSUME f.op = "NEG"
        PROVE  Over(Ir!Result(w, 1, IF Ir!Operand(w, 1) = Ir!Float64 THEN Ir!Float64 ELSE Ir!Int64),
                    base, Ir!Result(s, 1, IF Ir!Operand(s, 1) = Ir!Float64 THEN Ir!Float64 ELSE Ir!Int64))
    <2>1. Ir!IrArity(f) = 1
      BY <1>12, Arities
    <2>2. 1 \in 0 .. Len(s) /\ Ir!Operand(w, 1) = Ir!Operand(s, 1)
      BY <2>1, <1>1, <1>2
    <2> QED
      BY <2>2, <1>4
  <1>13. ASSUME f.op \in DOMAIN Ir!Conversion
        PROVE  Over(Ir!Result(w, 1, Ir!Conversion[f.op]),
                    base, Ir!Result(s, 1, Ir!Conversion[f.op]))
    BY <1>13, <1>4, Arities
  <1>14. ASSUME f.op \in {"CMP_EQ", "CMP_NE", "CMP_LT", "CMP_LE", "CMP_GT", "CMP_GE", "AND", "OR"}
        PROVE  Over(Ir!Result(w, 2, Ir!Bool),
                    base, Ir!Result(s, 2, Ir!Bool))
    BY <1>14, <1>4, Arities
  <1>15. ASSUME f.op \in {"CMP_EQ_CONST", "CMP_NE_CONST", "CMP_LT_CONST", "CMP_LE_CONST", "CMP_GT_CONST", "CMP_GE_CONST"}
        PROVE  Over(Ir!Result(w, 1, Ir!Bool),
                    base, Ir!Result(s, 1, Ir!Bool))
    BY <1>15, <1>4, Arities
  <1>16. ASSUME f.op \in DOMAIN Ir!FixedCalls
        PROVE  Over(Ir!Result(w, Ir!FixedCalls[f.op][1], Ir!FixedCalls[f.op][2]),
                    base, Ir!Result(s, Ir!FixedCalls[f.op][1], Ir!FixedCalls[f.op][2]))
    BY <1>16, <1>4, Arities
  <1>17. ASSUME f.op \in DOMAIN Ir!NewLists
        PROVE  Over(Append(w, Ir!ListOf(Ir!NewLists[f.op])),
                    base, Append(s, Ir!ListOf(Ir!NewLists[f.op])))
    BY <1>5
  <1>18. ASSUME f.op = "LIST_APPEND"
        PROVE  Over(Ir!IrListAppend(w),
                    base, Ir!IrListAppend(s))
    <2>1. Ir!IrArity(f) = 2
      BY <1>18, Arities
    <2>2. 2 \in 0 .. Len(s) /\ Ir!Operand(w, 1) = Ir!Operand(s, 1) /\ Ir!Operand(w, 2) = Ir!Operand(s, 2)
      BY <2>1, <1>1, <1>2
    <2> QED
      BY <2>2, <1>4 DEF Ir!IrListAppend
  <1>19. ASSUME f.op = "LIST_GET"
        PROVE  Over(Ir!IrListGet(w),
                    base, Ir!IrListGet(s))
    <2>1. Ir!IrArity(f) = 2
      BY <1>19, Arities
    <2>2. 2 \in 0 .. Len(s) /\ Ir!Operand(w, 1) = Ir!Operand(s, 1) /\ Ir!Operand(w, 2) = Ir!Operand(s, 2)
      BY <2>1, <1>1, <1>2
    <2> QED
      BY <2>2, <1>4 DEF Ir!IrListGet
  <1>20. ASSUME f.op = "LIST_SET"
        PROVE  Over(Ir!IrListSet(w),
                    base, Ir!IrListSet(s))
    <2>1. Ir!IrArity(f) = 3
      BY <1>20, Arities
    <2>2. 3 \in 0 .. Len(s) /\ Ir!Operand(w, 1) = Ir!Operand(s, 1) /\ Ir!Operand(w, 2) = Ir!Operand(s, 2) /\ Ir!Operand(w, 3) = Ir!Operand(s, 3)
      BY <2>1, <1>1, <1>2
    <2> QED
      BY <2>2, <1>4 DEF Ir!IrListSet
  <1>21. ASSUME f.op = "LIST_POP"
        PROVE  Over(Ir!IrListPop(w),
                    base, Ir!IrListPop(s))
    <2>1. Ir!IrArity(f) = 1
      BY <1>21, Arities
    <2>2. 1 \in 0 .. Len(s) /\ Ir!Operand(w, 1) = Ir!Operand(s, 1)
      BY <2>1, <1>1, <1>2
    <2> QED
      BY <2>2, <1>6 DEF Ir!IrListPop
  <1>22. ASSUME f.op = "STRUCT_NEW"
        PROVE  Over(Ir!IrStructNew(w),
                    base, Ir!IrStructNew(s))
    BY <1>22, <1>4, Arities DEF Ir!IrStructNew
  <1>23. ASSUME f.op = "STRUCT_GET"
        PROVE  Over(Ir!IrStructGet(w, f.arg),
                    base, Ir!IrStructGet(s, f.arg))
    <2>1. Ir!IrArity(f) = 1
      BY <1>23, Arities
    <2>2. 1 \in 0 .. Len(s) /\ Ir!Operand(w, 1) = Ir!Operand(s, 1)
      BY <2>1, <1>1, <1>2
    <2> QED
      BY <2>2, <1>4 DEF Ir!IrStructGet, Ir!FieldType
  <1>24. ASSUME f.op = "STRUCT_SET"
        PROVE  Over(Ir!IrStructSet(w),
                    base, Ir!IrStructSet(s))
    <2>1. Ir!IrArity(f) = 2
      BY <1>24, Arities
    <2>2. 2 \in 0 .. Len(s) /\ Ir!Operand(w, 1) = Ir!Operand(s, 1) /\ Ir!Operand(w, 2) = Ir!Operand(s, 2)
      BY <2>1, <1>1, <1>2
    <2> QED
      BY <2>2, <1>4 DEF Ir!IrStructSet
  <1>25. ASSUME f.op \in {"LOAD", "LOAD_GLOBAL", "FUSED_LOAD_STORE"}
        PROVE  Over(Append(w, IrLocals[f.arg]),
                    base, Append(s, IrLocals[f.arg]))
    BY <1>5
  <1>26. ASSUME f.op \in DOMAIN Ir!Load2Arithmetic
        PROVE  Over(Append(w, Ir!Load2Arithmetic[f.op]),
                    base, Append(s, Ir!Load2Arithmetic[f.op]))
    BY <1>5
  <1>27. ASSUME f.op \in {"LOAD2_CMP_LT", "LOAD2_CMP_GT"}
        PROVE  Over(Append(w, Ir!Bool),
                    base, Append(s, Ir!Bool))
    BY <1>5
  <1>28. ASSUME f.op = "CALL"
        PROVE  Over(Ir!Result(w, f.count, IrReturns[f.arg]),
                    base, Ir!Result(s, f.count, IrReturns[f.arg]))
    BY <1>28, <1>4, Arities
  <1>29. ASSUME f.op \in {"DUP", "SWAP"}
        PROVE  Over(Ir!IrShuffle(w, f.op),
                    base, Ir!IrShuffle(s, f.op))
    <2>1. CASE f.op = "DUP"
      <3>1. Ir!IrArity(f) = 1
        BY <2>1, Arities
      <3>2. Ir!Operand(w, 1) = Ir!Operand(s, 1)
        BY <3>1, <1>1, <1>2
      <3> QED
        BY <2>1, <3>2, <1>5 DEF Ir!IrShuffle
    <2>2. CASE f.op = "SWAP"
      <3>1. Ir!IrArity(f) = 2
        BY <2>2, Arities
      <3>2. 2 \in 0 .. Len(s) /\ Ir!Operand(w, 1) = Ir!Operand(s, 1) /\ Ir!Operand(w, 2) = Ir!Operand(s, 2)
        BY <3>1, <1>1, <1>2
      <3> QED
        BY <2>2, <3>2, <1>6 DEF Ir!IrShuffle
    <2> QED
      BY <1>29, <2>1, <2>2
  <1>30. ASSUME f.op = "ADDR_FIELD"
        PROVE  Over(Ir!AddrField(w, f.arg),
                    base, Ir!AddrField(s, f.arg))
    <2>1. Ir!IrArity(f) = 1
      BY <1>30, Arities
    <2>2. 1 \in 0 .. Len(s) /\ Ir!Operand(w, 1) = Ir!Operand(s, 1)
      BY <2>1, <1>1, <1>2
    <2> QED
      BY <2>2, <1>4 DEF Ir!AddrField, Ir!FieldType
  <1>31. ASSUME f.op = "ADDR_ELEM"
        PROVE  Over(Ir!AddrElem(w),
                    base, Ir!AddrElem(s))
    <2>1. Ir!IrArity(f) = 2
      BY <1>31, Arities
    <2>2. 2 \in 0 .. Len(s) /\ Ir!Operand(w, 1) = Ir!Operand(s, 1) /\ Ir!Operand(w, 2) = Ir!Operand(s, 2)
      BY <2>1, <1>1, <1>2
    <2> QED
      BY <2>2, <1>4 DEF Ir!AddrElem
  <1>32. ASSUME f.op = "ADDR_LOCAL"
        PROVE  Over(Ir!AddrLocal(w, f.arg),
                    base, Ir!AddrLocal(s, f.arg))
    BY <1>5 DEF Ir!AddrLocal
  <1>33. ASSUME f.op = "DEREF"
        PROVE  Over(Ir!Deref(w),
                    base, Ir!Deref(s))
    <2>1. Ir!IrArity(f) = 1
      BY <1>33, Arities
    <2>2. 1 \in 0 .. Len(s) /\ Ir!Operand(w, 1) = Ir!Operand(s, 1)
      BY <2>1, <1>1, <1>2
    <2> QED
      BY <2>2, <1>4 DEF Ir!Deref
  <1>34. ASSUME Ir!IrArity(f) = 2
        PROVE  Over(Ir!Result(w, IF Len(w) < 2 THEN Len(w) ELSE 2, Ir!Int64), base,
                    Ir!Result(s, IF Len(s) < 2 THEN Len(s) ELSE 2, Ir!Int64))
    <2>1. /\ (IF Len(w) < 2 THEN Len(w) ELSE 2) = 2 /\ (IF Len(s) < 2 THEN Len(s) ELSE 2) = 2
          /\ 2 \in 0 .. Len(s)
      BY <1>34, <1>1
    <2> QED
      BY <2>1, <1>4
  <1> QED
    BY <1>7, <1>8, <1>9, <1>10, <1>11, <1>12, <1>13, <1>14, <1>15, <1>16, <1>17, <1>18, <1>19, <1>20, <1>21, <1>22, <1>23, <1>24, <1>25, <1>26, <1>27, <1>28, <1>29, <1>30, <1>31, <1>32, <1>33, <1>34 DEF Ir!IrTranslate, Ir!IrArity

---------------------------------------------------------------------------
(* The IR builder's stack. *)

\* What a stack that ends in t has below it.
LEMMA Below ==
  ASSUME NEW S, NEW s \in Seq(S), NEW t \in Seq(S), EndsIn(s, t)
  PROVE  Keep(s, Len(t)) \in Seq(S) /\ Over(s, Keep(s, Len(t)), t)
  <1>1. Len(s) \in Nat /\ Len(t) \in Nat /\ Len(t) <= Len(s)
    BY LenProperties DEF EndsIn
  <1>2. PICK k \in 0 .. Len(s) : k = Len(s) - Len(t)
    <2>1. Len(s) - Len(t) \in 0 .. Len(s)
      BY <1>1
    <2> QED
      BY <2>1
  <1>3. SubSeq(s, 1, k) \in Seq(S)
    BY PrefixOf
  <1>4. SubSeq(s, 1, k) \o SubSeq(s, k + 1, Len(s)) = SubSeq(s, 1, Len(s))
    <2>1. 1 \in 1 .. Len(s) + 1 /\ k \in 1 - 1 .. Len(s) /\ Len(s) \in k .. Len(s)
      BY <1>1, <1>2
    <2> QED
      BY <2>1, ConcatAdjacentSubSeq
  <1>5. SubSeq(s, k + 1, Len(s)) = t
    BY <1>2 DEF EndsIn
  <1>6. SubSeq(s, 1, Len(s)) = s
    BY SubSeqFull
  <1> QED
    BY <1>2, <1>3, <1>4, <1>5, <1>6 DEF Over, Keep

IrTypes == {IrKind(k) : k \in STRING}

\* A form that ends the block leaves nothing.
LEMMA Leaves ==
  ASSUME NEW s, NEW f, f.op \in {"RETURN", "RETURN_VOID", "RAISE"}
  PROVE  Ir!IrTranslate(s, f) = <<>>
  BY FixedNames DEF Ir!IrTranslate

\* The IR types of a stack are the IR types of its parts.
LEMMA KindsOnTop ==
  ASSUME NEW s \in Seq(STRING), NEW base \in Seq(STRING), NEW w, Over(w, base, s)
  PROVE  OnIr(s) \in Seq(IrTypes) /\ OnIr(base) \in Seq(IrTypes) /\ Over(OnIr(w), OnIr(base), OnIr(s))
  <1>1. /\ w \in Seq(STRING) /\ Len(base) \in Nat /\ Len(s) \in Nat
        /\ Len(w) = Len(base) + Len(s)
    BY OnTop
  <1>2. /\ \A i \in 1 .. Len(base) : w[i] = base[i]
        /\ \A i \in 1 .. Len(s) : w[Len(base) + i] = s[i]
    BY OnTop
  <1>3. ASSUME NEW q \in Seq(STRING)
        PROVE  /\ OnIr(q) \in Seq(IrTypes) /\ Len(OnIr(q)) = Len(q)
               /\ \A i \in 1 .. Len(q) : OnIr(q)[i] = IrKind(q[i])
    <2>1. Len(q) \in Nat /\ \A i \in 1 .. Len(q) : q[i] \in STRING
      BY ElementOfSeq
    <2>2. OnIr(q) \in [1 .. Len(q) -> IrTypes]
      BY <2>1 DEF OnIr, IrTypes
    <2> QED
      BY <2>1, <2>2, FunctionIsSeq DEF OnIr
  <1>4. PICK v : Over(v, OnIr(base), OnIr(s))
    BY DEF Over
  <1>5. /\ Len(OnIr(w)) = Len(w) /\ Len(OnIr(base)) = Len(base) /\ Len(OnIr(s)) = Len(s)
        /\ OnIr(w) \in Seq(IrTypes) /\ OnIr(base) \in Seq(IrTypes) /\ OnIr(s) \in Seq(IrTypes)
    BY <1>1, <1>3
  <1>6. /\ v \in Seq(IrTypes) /\ Len(v) = Len(OnIr(w))
        /\ \A i \in 1 .. Len(base) : v[i] = OnIr(base)[i]
        /\ \A i \in 1 .. Len(s) : v[Len(base) + i] = OnIr(s)[i]
    <2>1. /\ v \in Seq(IrTypes) /\ Len(v) = Len(OnIr(base)) + Len(OnIr(s))
          /\ \A i \in 1 .. Len(OnIr(base)) : v[i] = OnIr(base)[i]
          /\ \A i \in 1 .. Len(OnIr(s)) : v[Len(OnIr(base)) + i] = OnIr(s)[i]
      BY <1>4, <1>5, OnTop
    <2> QED
      BY <2>1, <1>1, <1>5
  <1>7. ASSUME NEW i \in 1 .. Len(w) PROVE OnIr(w)[i] = v[i]
    <2>1. CASE i <= Len(base)
      <3>1. i \in 1 .. Len(base)
        BY <2>1, <1>1
      <3> QED
        BY <3>1, <1>1, <1>2, <1>3, <1>6
    <2>2. CASE i > Len(base)
      <3>1. PICK j \in 1 .. Len(s) : i = Len(base) + j
        <4>1. i - Len(base) \in 1 .. Len(s) /\ i = Len(base) + (i - Len(base))
          BY <2>2, <1>1
        <4> QED
          BY <4>1
      <3> QED
        BY <3>1, <1>1, <1>2, <1>3, <1>6
    <2> QED
      BY <2>1, <2>2, <1>1
  <1>8. OnIr(w) = v
    BY <1>5, <1>6, <1>7, SeqEqual
  <1> QED
    BY <1>4, <1>5, <1>8

\* Neither the machine's stack nor the builder's is left to chance: kinds
\* are strings, and until the builder is known to be out of step it has
\* the type of each value that is on the machine's stack.
IrInv == subject = "ir" => src \in Seq(STRING) /\ (~lost => ir = OnIr(src))

\* What the machine leaves is a stack of kinds again.
LEMMA SrcTyped ==
  ASSUME FormsAssumption, NEW f \in Forms, src \in Seq(STRING), Execute(f)
  PROVE  /\ src' \in Seq(STRING)
         /\ f.outs # <<>> => /\ Keep(src, Len(f.ins)) \in Seq(STRING)
                             /\ Over(src, Keep(src, Len(f.ins)), f.ins)
                             /\ Over(src', Keep(src, Len(f.ins)), f.outs)
         /\ f.outs = <<>> => src = f.ins /\ src' = <<>>
  <1>1. f.ins \in Seq(STRING) /\ f.outs \in Seq(STRING)
    BY DEF FormsAssumption
  <1>2. CASE f.outs # <<>>
    <2>1. EndsIn(src, f.ins)
      BY <1>2 DEF Execute
    <2>2. Keep(src, Len(f.ins)) \in Seq(STRING) /\ Over(src, Keep(src, Len(f.ins)), f.ins)
      BY <1>1, <2>1, Below
    <2>3. Over(src', Keep(src, Len(f.ins)), f.outs)
      BY DEF Execute, Over
    <2>4. src' \in Seq(STRING)
      BY <1>1, <2>2, <2>3, OnTop
    <2> QED
      BY <1>2, <2>2, <2>3, <2>4
  <1>3. CASE f.outs = <<>>
    <2>1. src = f.ins
      BY <1>3 DEF Execute
    <2>2. Keep(src, Len(f.ins)) = <<>>
      <3>1. Len(src) \in Nat /\ Len(src) - Len(src) = 0
        BY LenProperties
      <3> QED
        BY <2>1, <3>1 DEF Keep
    <2>3. src' = <<>> \o <<>>
      BY <1>3, <2>2 DEF Execute
    <2>4. src' = <<>>
      BY <2>3
    <2> QED
      BY <1>3, <2>1, <2>4
  <1> QED
    BY <1>2, <1>3

\* An instruction the builder is right about by itself it is right about on
\* top of any stack.
LEMMA IrStepKeeps ==
  ASSUME FormsAssumption, IrInv, NEW f \in Forms, IrStep(f)
  PROVE  IrInv'
  <1>1. subject = "ir" /\ ~lost /\ src \in Seq(STRING) /\ ir = OnIr(src) /\ Execute(f)
    BY DEF IrStep, Execute, IrInv
  <1>2. src' \in Seq(STRING)
    BY <1>1, SrcTyped
  <1>3. ASSUME ~lost'
        PROVE  ir' = OnIr(src')
    <2>1. ~IrDrifts(f)
      BY <1>3 DEF IrStep
    <2>2. /\ Ir!IrTranslate(OnIr(f.ins), f) = OnIr(f.outs)
          /\ f.outs # <<>> => Ir!IrArity(f) \in 0 .. Len(f.ins)
      BY <2>1 DEF FormsAssumption, IrAlone
    <2>3. ir' = Ir!IrTranslate(OnIr(src), f)
      BY <1>1 DEF IrStep
    <2>4. CASE f.outs = <<>>
      <3>1. src = f.ins /\ src' = <<>>
        BY <1>1, <2>4, SrcTyped
      <3> QED
        BY <2>2, <2>3, <2>4, <3>1
    <2>5. CASE f.outs # <<>>
      <3>1. PICK base : base = Keep(src, Len(f.ins))
        OBVIOUS
      <3>2. base \in Seq(STRING) /\ Over(src, base, f.ins) /\ Over(src', base, f.outs)
        BY <1>1, <2>5, <3>1, SrcTyped
      <3>3. f.ins \in Seq(STRING) /\ f.outs \in Seq(STRING)
        BY DEF FormsAssumption
      <3>4. /\ OnIr(f.ins) \in Seq(IrTypes) /\ OnIr(base) \in Seq(IrTypes)
            /\ Over(OnIr(src), OnIr(base), OnIr(f.ins))
        BY <3>2, <3>3, KindsOnTop
      <3>5. Over(OnIr(src'), OnIr(base), OnIr(f.outs))
        BY <3>2, <3>3, KindsOnTop
      <3>6. Len(OnIr(f.ins)) = Len(f.ins)
        <4>1. Len(f.ins) \in Nat /\ OnIr(f.ins) \in [1 .. Len(f.ins) -> IrTypes]
          BY <3>3, ElementOfSeq DEF OnIr, IrTypes
        <4> QED
          BY <4>1, FunctionIsSeq
      <3>7. f.op \notin {"RETURN", "RETURN_VOID", "RAISE"}
        <4>1. SUFFICES ASSUME f.op \in {"RETURN", "RETURN_VOID", "RAISE"} PROVE FALSE
          OBVIOUS
        <4>2. OnIr(f.outs) = <<>>
          BY <2>2, <4>1, Leaves
        <4>3. Len(f.outs) \in Nat /\ OnIr(f.outs) \in [1 .. Len(f.outs) -> IrTypes]
          BY <3>3, ElementOfSeq DEF OnIr, IrTypes
        <4>4. Len(f.outs) = 0
          BY <4>2, <4>3, FunctionIsSeq
        <4> QED
          BY <2>5, <3>3, <4>4
      <3>8. Over(Ir!IrTranslate(OnIr(src), f), OnIr(base), Ir!IrTranslate(OnIr(f.ins), f))
        BY <2>2, <2>5, <3>4, <3>6, <3>7, IrLocal
      <3> QED
        BY <2>2, <2>3, <3>5, <3>8 DEF Over
    <2> QED
      BY <2>4, <2>5
  <1> QED
    BY <1>2, <1>3 DEF IrInv

\* The types the builder works with are those of the program's values, at
\* every depth of the stack, for any set of forms the builder is right
\* about one by one.
THEOREM TypesFollow == Spec => []IrTyped
  <1>1. Init => IrInv
    <2> SUFFICES ASSUME Init PROVE src \in Seq(STRING) /\ ir = OnIr(src)
      BY DEF IrInv
    <2>1. src = <<>> /\ ir = <<>> /\ Len(<<>>) = 0
      BY DEF Init
    <2>2. OnIr(<<>>) = <<>>
      BY DEF OnIr
    <2> QED
      BY <2>1, <2>2
  <1>2. IrInv /\ [Next]_vars => IrInv'
    <2> SUFFICES ASSUME IrInv, [Next]_vars PROVE IrInv'
      OBVIOUS
    <2>1. ASSUME NEW f \in Forms, IrStep(f) PROVE IrInv'
      BY <2>1, IrStepKeeps, FormsAssumption
    <2>2. ASSUME NEW f \in Forms, NEW caught \in BOOLEAN, WasmStep(f, caught) PROVE IrInv'
      BY <2>2 DEF WasmStep, IrInv
    <2>3. ASSUME NEW f \in Scanned, ScanStep(f) PROVE IrInv'
      BY <2>3 DEF ScanStep, IrInv
    <2>4. CASE UNCHANGED vars
      BY <2>4 DEF vars, IrInv
    <2> QED
      BY <2>1, <2>2, <2>3, <2>4 DEF Next
  <1>3. IrInv => IrTyped
    BY DEF IrInv, IrTyped
  <1> QED
    BY <1>1, <1>2, <1>3, PTL DEF Spec

---------------------------------------------------------------------------
(* The scan for the types of the locals. *)

IsScan(g) == g = [x \in {"sim", "marks", "inferred", "consts"} |-> g[x]]
Spares(g, h) == IsScan(h) /\ h.inferred = g.inferred

\* Pushing and discarding entries teaches the scan nothing about locals.
LEMMA Spared ==
  ASSUME NEW g, NEW h, Spares(g, h)
  PROVE  /\ \A n : Spares(g, Scan!Discard(h, n)) /\ Spares(g, Scan!Need(h, n))
         /\ \A t : Spares(g, Scan!Push1(h, t))
         /\ \A m : Spares(g, Scan!PushMarked(h, m))
         /\ Spares(g, Scan!PushText(h))
         /\ \A s : Spares(g, [h EXCEPT !.sim = @ \o s])
  <1>1. ASSUME NEW e, NEW u, Spares(g, e) PROVE Spares(g, [e EXCEPT !.sim = u])
    BY <1>1 DEF Spares, IsScan
  <1>2. ASSUME NEW e, NEW u, Spares(g, e) PROVE Spares(g, [e EXCEPT !.marks = u])
    BY <1>2 DEF Spares, IsScan
  <1>3. ASSUME NEW e, NEW n, Spares(g, e) PROVE Spares(g, Scan!Discard(e, n))
    BY <1>1, <1>3 DEF Scan!Discard
  <1>4. ASSUME NEW e, NEW t, Spares(g, e) PROVE Spares(g, Scan!Push1(e, t))
    BY <1>1, <1>4 DEF Scan!Push1
  <1>5. ASSUME NEW e, NEW m, Spares(g, e) PROVE Spares(g, Scan!PushMarked(e, m))
    <2>1. Spares(g, Scan!Push1(e, "i32"))
      BY <1>4, <1>5
    <2> QED
      BY <2>1, <1>2 DEF Scan!PushMarked
  <1>6. Spares(g, Scan!PushText(h))
    BY <1>5 DEF Scan!PushText
  <1>7. ASSUME NEW s PROVE Spares(g, [h EXCEPT !.sim = @ \o s])
    BY <1>1
  <1>8. ASSUME NEW n PROVE Spares(g, Scan!Need(h, n))
    BY <1>3 DEF Scan!Need
  <1> QED
    BY <1>3, <1>4, <1>5, <1>6, <1>7, <1>8

\* Only the branches for stores learn something about a local.
LEMMA OnlyStoresLearn ==
  ASSUME NEW g, IsScan(g), NEW f,
         f.op \notin {"STORE", "STORE_CONST_I64", "STORE_CONST_F64", "STORE_CONST_BOOL"}
  PROVE  Spares(g, Scan!Foresee(g, f))
  <1>1. Spares(g, g)
    BY DEF Spares
  <1>2. /\ \A h, n : Spares(g, h) => Spares(g, Scan!Discard(h, n)) /\ Spares(g, Scan!Need(h, n))
        /\ \A h, t : Spares(g, h) => Spares(g, Scan!Push1(h, t))
        /\ \A h, m : Spares(g, h) => Spares(g, Scan!PushMarked(h, m))
        /\ \A h : Spares(g, h) => Spares(g, Scan!PushText(h))
        /\ \A h, s : Spares(g, h) => Spares(g, [h EXCEPT !.sim = @ \o s])
    BY Spared
  <1>3. ASSUME f.op \in {"STRUCT_NEW", "STRUCT_SET"}
        PROVE  Spares(g, Scan!ScanStruct(g, f.op, "0"))
    BY <1>3, <1>1, <1>2 DEF Scan!ScanStruct
  <1>4. ASSUME f.op \in {"STRUCT_GET"}
        PROVE  Spares(g, Scan!ScanStruct(g, f.op, f.arg))
    BY <1>4, <1>1, <1>2 DEF Scan!ScanStruct
  <1>5. ASSUME f.op \in {"CONST_STR", "CONST_I64", "CONST_F64", "FORK", "LIST_LEN",
                "LOAD2_ADD_I64", "LOAD2_MUL_I64", "LOAD2_DIV_I64", "LOAD2_DIV_F64",
                "LOAD2_CMP_LT", "LOAD2_CMP_GT"}
        PROVE  Spares(g, Scan!ScanConst(g, f.op))
    BY <1>5, <1>1, <1>2 DEF Scan!ScanConst
  <1>6. ASSUME f.op \in {"LOAD"}
        PROVE  Spares(g, Scan!ScanLoad(g, f.arg))
    BY <1>6, <1>1, <1>2 DEF Scan!ScanLoad, Scan!PushLocal
  <1>7. ASSUME f.op \in {"LIST_NEW", "LIST_NEW_I64", "LIST_NEW_STR", "LIST_APPEND",
                "LIST_SET", "LIST_POP", "LIST_GET"}
        PROVE  Spares(g, Scan!ScanList(g, f.op))
    BY <1>7, <1>1, <1>2 DEF Scan!ScanList
  <1>8. ASSUME f.op \in {"SET_NEW", "SET_ADD", "SET_REMOVE", "SET_CONTAINS", "CONTAINS"}
        PROVE  Spares(g, Scan!ScanSet(g, f.op))
    BY <1>8, <1>1, <1>2 DEF Scan!ScanSet
  <1>9. ASSUME f.op \in {"STR_SPLIT", "STR_JOIN", "ADD_STR", "BUILTIN_LEN", "BUILTIN_STR"}
        PROVE  Spares(g, Scan!ScanText(g, f.op))
    BY <1>9, <1>1, <1>2 DEF Scan!ScanText
  <1>10. ASSUME f.op \in {"TO_INT", "TO_FLOAT", "TO_BOOL"}
        PROVE  Spares(g, Scan!ScanConvert(g, f.op))
    BY <1>10, <1>1, <1>2 DEF Scan!ScanConvert
  <1>11. ASSUME f.op \in {"CMP_EQ", "CMP_NE", "CMP_LT", "CMP_LT_CONST", "CMP_EQ_CONST", "AND",
                "OR", "NOT"}
        PROVE  Spares(g, Scan!ScanCompare(g, f.op))
    BY <1>11, <1>1, <1>2 DEF Scan!ScanCompare
  <1>12. ASSUME f.op \in {"FILE_OPEN", "FILE_READ", "FILE_WRITE", "FILE_CLOSE",
                "SOCKET_CLOSE", "POP", "SWITCH_JUMP_TABLE", "SOCKET_CREATE", "SOCKET_CONNECT",
                "SOCKET_ACCEPT", "JOIN", "SOCKET_SEND", "SOCKET_RECV", "DUP"}
        PROVE  Spares(g, Scan!ScanSystem(g, f.op))
    BY <1>12, <1>1, <1>2 DEF Scan!ScanSystem
  <1>13. ASSUME f.op \in {"CALL"}
        PROVE  Spares(g, Scan!ScanCall(g, f.arg))
    BY <1>13, <1>1, <1>2 DEF Scan!ScanCall
  <1>14. ASSUME f.op \in {"FUSED_LOAD_STORE"}
        PROVE  Spares(g, Scan!ScanFused(g, f.arg))
    BY <1>14, <1>1, <1>2 DEF Scan!ScanFused
  <1>15. ASSUME f.op \in {"ADD_CONST_I64", "ADD_I64", "ADD_F64", "SUB_CONST_I64", "SUB_I64",
                "SUB_F64", "MUL_CONST_I64", "MUL_I64", "MUL_F64", "DIV_CONST_I64", "DIV_I64",
                "DIV_F64", "MOD_CONST_I64", "MOD_I64"}
        PROVE  Spares(g, Scan!ScanArith(g, f.op))
    BY <1>15, <1>1, <1>2 DEF Scan!ScanArith
  <1> QED
    BY <1>1, <1>3, <1>4, <1>5, <1>6, <1>7, <1>8, <1>9, <1>10, <1>11, <1>12, <1>13, <1>14, <1>15 DEF Scan!Foresee

\* A type the scan may have found for the local of kind k without harm.
Agrees(k, t) ==
  \/ t = "none"
  \/ /\ Scan!WasmOf(t) = MapType(LocalTypes[k])
     /\ LocalTypes[k] = "i64" => t \notin {"i32", "str"}

\* What the scan knows: about each local that is not late nothing or what
\* its declaration says, and about the stack, as long as it is in step,
\* whether a string is on top.
ScanInv ==
  subject = "scan" =>
    /\ IsScan(scan) /\ scan.inferred = [k \in DOMAIN LocalTypes |-> scan.inferred[k]]
    /\ \A k \in DOMAIN LocalTypes \ Late : Agrees(k, scan.inferred[k])
    /\ ~lost => (Scan!Text(scan) <=> EndsIn(src, <<"str">>))

\* An entry of the table of inferred types is replaced.
Taught(g, k, t) == [g EXCEPT !.inferred[k] = t]

\* Nothing else is.
LEMMA Learns ==
  ASSUME NEW g, IsScan(g), NEW k \in DOMAIN LocalTypes, NEW t,
         g.inferred = [j \in DOMAIN LocalTypes |-> g.inferred[j]],
         NEW h, h = Taught(g, k, t)
  PROVE  /\ IsScan(h) /\ h.inferred = [j \in DOMAIN LocalTypes |-> h.inferred[j]]
         /\ h.inferred[k] = t
         /\ \A j \in DOMAIN LocalTypes \ {k} : h.inferred[j] = g.inferred[j]
  <1>1. IsScan(h) /\ h.inferred = [g.inferred EXCEPT ![k] = t]
    BY DEF IsScan, Taught
  <1> QED
    BY <1>1

\* A store into a declared local: the scan takes the value for a string only
\* when it is one, and learns nothing otherwise.
LEMMA StoreAgrees ==
  ASSUME LocalsAssumption, NEW g, IsScan(g), NEW k \in DOMAIN LocalTypes,
         g.inferred = [j \in DOMAIN LocalTypes |-> g.inferred[j]],
         \A j \in DOMAIN LocalTypes \ Late : Agrees(j, g.inferred[j]),
         Scan!Text(g) => k = "str",
         NEW h, h = Scan!ScanStore(g, k)
  PROVE  /\ IsScan(h) /\ h.inferred = [j \in DOMAIN LocalTypes |-> h.inferred[j]]
         /\ \A j \in DOMAIN LocalTypes \ Late : Agrees(j, h.inferred[j])
  <1>1. CASE h = g
    BY <1>1
  <1>2. ASSUME NEW n, NEW t, h = Taught(Scan!Discard(g, n), k, t),
               k \notin Late => Agrees(k, t)
        PROVE  /\ IsScan(h) /\ h.inferred = [j \in DOMAIN LocalTypes |-> h.inferred[j]]
               /\ \A j \in DOMAIN LocalTypes \ Late : Agrees(j, h.inferred[j])
    <2>1. PICK e : e = Scan!Discard(g, n)
      OBVIOUS
    <2>2. Spares(g, g)
      BY DEF Spares
    <2>3. IsScan(e) /\ e.inferred = g.inferred
      BY <2>1, <2>2, Spared DEF Spares
    <2>4. h = Taught(e, k, t)
      BY <1>2, <2>1
    <2>5. /\ IsScan(h) /\ h.inferred = [j \in DOMAIN LocalTypes |-> h.inferred[j]]
          /\ h.inferred[k] = t
          /\ \A j \in DOMAIN LocalTypes \ {k} : h.inferred[j] = e.inferred[j]
      BY <2>3, <2>4, Learns
    <2> QED
      BY <1>2, <2>3, <2>5
  <1>3. Scan!Text(g) => Agrees(k, "str")
    BY DEF LocalsAssumption, Agrees, Scan!WasmOf, MapType
  <1>4. \A n : Scan!Discard(g, n).inferred = g.inferred
    <2>1. Spares(g, g)
      BY DEF Spares
    <2> QED
      BY <2>1, Spared DEF Spares
  <1>5. k \notin Late => Agrees(k, g.inferred[k])
    OBVIOUS
  <1>6. CASE g.sim # <<>> /\ Scan!Text(g)
    <2>1. PICK t : /\ h = Taught(Scan!Discard(g, 2), k, t)
                   /\ t = IF k \notin g.consts THEN "str" ELSE Scan!Discard(g, 2).inferred[k]
      BY <1>6 DEF Scan!ScanStore, Taught
    <2>2. k \notin Late => Agrees(k, t)
      BY <2>1, <1>3, <1>4, <1>5, <1>6
    <2> QED
      BY <2>1, <2>2, <1>2
  <1>7. CASE g.sim # <<>> /\ ~Scan!Text(g)
    <2>1. PICK t : /\ h = Taught(Scan!Discard(g, 1), k, t)
                   /\ t = IF k \notin g.consts /\ k \in Late THEN Scan!At(g, 1)
                          ELSE Scan!Discard(g, 1).inferred[k]
      BY <1>7 DEF Scan!ScanStore, Taught
    <2>2. k \notin Late => Agrees(k, t)
      BY <2>1, <1>4, <1>5
    <2> QED
      BY <2>1, <2>2, <1>2
  <1>8. CASE g.sim = <<>>
    <2>1. ~Scan!Text(g)
      BY <1>8 DEF Scan!Text, Scan!Pair, Scan!At
    <2>2. h = g
      BY <1>8, <2>1 DEF Scan!ScanStore
    <2> QED
      BY <2>2, <1>1
  <1> QED
    BY <1>6, <1>7, <1>8

\* A store of a constant: of the type the local is declared with.
LEMMA ConstAgrees ==
  ASSUME LocalsAssumption, NEW f \in Scanned,
         f.op \in {"STORE_CONST_I64", "STORE_CONST_F64", "STORE_CONST_BOOL"},
         NEW g, IsScan(g), g.inferred = [j \in DOMAIN LocalTypes |-> g.inferred[j]],
         \A j \in DOMAIN LocalTypes \ Late : Agrees(j, g.inferred[j]),
         NEW h, h = Scan!ScanStoreConst(g, f.op, f.arg)
  PROVE  /\ IsScan(h) /\ h.inferred = [j \in DOMAIN LocalTypes |-> h.inferred[j]]
         /\ \A j \in DOMAIN LocalTypes \ Late : Agrees(j, h.inferred[j])
  <1>1. f.arg \in DOMAIN LocalTypes
    BY DEF LocalsAssumption
  <1>2. PICK t : /\ h = [Taught(g, f.arg, t) EXCEPT !.consts = @ \cup {f.arg}]
                 /\ f.op = "STORE_CONST_I64" => t = "i64"
                 /\ f.op = "STORE_CONST_F64" => t = "f64"
                 /\ f.op = "STORE_CONST_BOOL" => t = "i32"
    BY DEF Scan!ScanStoreConst, IsScan, Taught
  <1>3. Agrees(f.arg, t)
    BY <1>2 DEF LocalsAssumption, Agrees, Scan!WasmOf, MapType
  <1>4. PICK e : e = Taught(g, f.arg, t)
    OBVIOUS
  <1>5. /\ IsScan(e) /\ e.inferred = [j \in DOMAIN LocalTypes |-> e.inferred[j]]
        /\ e.inferred[f.arg] = t
        /\ \A j \in DOMAIN LocalTypes \ {f.arg} : e.inferred[j] = g.inferred[j]
    BY <1>1, <1>4, Learns
  <1>6. IsScan(h) /\ h.inferred = e.inferred
    BY <1>2, <1>4, <1>5 DEF IsScan
  <1> QED
    BY <1>3, <1>5, <1>6

\* A step of the scan.
LEMMA ScanStepKeeps ==
  ASSUME FormsAssumption, LocalsAssumption, ScanInv, NEW f \in Scanned, ScanStep(f)
  PROVE  ScanInv'
  <1>1. /\ subject = "scan" /\ ~lost /\ Execute(f) /\ subject' = subject
        /\ scan' = Scan!Foresee(scan, f)
        /\ lost' = ScanDrifts(scan', src')
    BY DEF ScanStep, Execute
  <1>2. /\ IsScan(scan) /\ scan.inferred = [k \in DOMAIN LocalTypes |-> scan.inferred[k]]
        /\ \A k \in DOMAIN LocalTypes \ Late : Agrees(k, scan.inferred[k])
        /\ Scan!Text(scan) <=> EndsIn(src, <<"str">>)
    BY <1>1 DEF ScanInv
  <1>3. ~lost' => (Scan!Text(scan') <=> EndsIn(src', <<"str">>))
    BY <1>1 DEF ScanDrifts
  <1>4. /\ IsScan(scan') /\ scan'.inferred = [k \in DOMAIN LocalTypes |-> scan'.inferred[k]]
        /\ \A k \in DOMAIN LocalTypes \ Late : Agrees(k, scan'.inferred[k])
    <2>1. CASE f.op = "STORE"
      <3>1. f.arg \in DOMAIN LocalTypes /\ f.ins = <<f.arg>> /\ f.outs = <<>>
        BY <2>1 DEF LocalsAssumption
      <3>2. src = <<f.arg>>
        BY <1>1, <3>1 DEF Execute
      <3>3. EndsIn(<<f.arg>>, <<"str">>) => f.arg = "str"
        <4>1. Len(<<f.arg>>) = 1 /\ Len(<<"str">>) = 1 /\ <<f.arg>> \in Seq({f.arg})
          OBVIOUS
        <4>2. SubSeq(<<f.arg>>, 1, 1) = <<f.arg>>
          BY <4>1, SubSeqFull
        <4>3. Len(<<f.arg>>) - Len(<<"str">>) + 1 = 1
          BY <4>1
        <4> QED
          BY <4>1, <4>2, <4>3 DEF EndsIn
      <3>4. scan' = Scan!ScanStore(scan, f.arg)
        BY <1>1, <2>1 DEF Scan!Foresee
      <3> QED
        BY <1>2, <3>1, <3>2, <3>3, <3>4, StoreAgrees
    <2>2. CASE f.op \in {"STORE_CONST_I64", "STORE_CONST_F64", "STORE_CONST_BOOL"}
      <3>1. scan' = Scan!ScanStoreConst(scan, f.op, f.arg)
        BY <1>1, <2>2 DEF Scan!Foresee
      <3> QED
        BY <1>2, <2>2, <3>1, ConstAgrees
    <2>3. CASE f.op \notin {"STORE", "STORE_CONST_I64", "STORE_CONST_F64", "STORE_CONST_BOOL"}
      <3>1. Spares(scan, scan')
        BY <1>1, <1>2, <2>3, OnlyStoresLearn
      <3> QED
        BY <1>2, <3>1 DEF Spares
    <2> QED
      BY <2>1, <2>2, <2>3
  <1> QED
    BY <1>3, <1>4 DEF ScanInv, Agrees

\* A local that is in the table of declared types is declared with its type,
\* and the translator takes it for that type, whatever the scan made of the
\* code before: for any set of forms and any table of locals.
THEOREM DeclarationsHold == Spec => []DeclaredFits
  <1>1. Init => ScanInv
    <2> SUFFICES ASSUME Init PROVE ScanInv
      OBVIOUS
    <2>1. src = <<>> /\ scan = Scan!NoScan
      BY DEF Init
    <2>2. /\ IsScan(scan) /\ scan.inferred = [k \in DOMAIN LocalTypes |-> scan.inferred[k]]
          /\ \A k \in DOMAIN LocalTypes : scan.inferred[k] = "none"
      BY <2>1 DEF Scan!NoScan, IsScan
    <2>3. ~Scan!Text(scan)
      BY <2>1 DEF Scan!NoScan, Scan!Text, Scan!Pair, Scan!At
    <2>4. ~EndsIn(src, <<"str">>)
      BY <2>1 DEF EndsIn
    <2> QED
      BY <2>2, <2>3, <2>4 DEF ScanInv, Agrees
  <1>2. ScanInv /\ [Next]_vars => ScanInv'
    <2> SUFFICES ASSUME ScanInv, [Next]_vars PROVE ScanInv'
      OBVIOUS
    <2>1. ASSUME NEW f \in Forms, IrStep(f) PROVE ScanInv'
      BY <2>1 DEF IrStep, ScanInv
    <2>2. ASSUME NEW f \in Forms, NEW caught \in BOOLEAN, WasmStep(f, caught) PROVE ScanInv'
      BY <2>2 DEF WasmStep, ScanInv
    <2>3. ASSUME NEW f \in Scanned, ScanStep(f) PROVE ScanInv'
      BY <2>3, ScanStepKeeps, FormsAssumption, LocalsAssumption
    <2>4. CASE UNCHANGED vars
      BY <2>4 DEF vars, ScanInv, Agrees, IsScan, Scan!Text, Scan!Pair, Scan!At, Scan!MarkAt
    <2> QED
      BY <2>1, <2>2, <2>3, <2>4 DEF Next
  <1>3. ScanInv => DeclaredFits
    <2> SUFFICES ASSUME ScanInv, subject = "scan", NEW k \in DOMAIN LocalTypes \ Late
                 PROVE  /\ Scan!LocalVars(scan)[k] = LocalTypes[k]
                        /\ Scan!DeclaredAs(scan)[k] = MapType(LocalTypes[k])
      BY DEF DeclaredFits
    <2>1. Agrees(k, scan.inferred[k])
      BY DEF ScanInv
    <2>2. Scan!LocalVars(scan)[k] = LocalTypes[k]
      BY <2>1 DEF Agrees, Scan!LocalVars
    <2>3. Scan!WasmOf(LocalTypes[k]) = MapType(LocalTypes[k])
      BY LocalsAssumption DEF LocalsAssumption, Scan!WasmOf, MapType
    <2>4. Scan!DeclaredAs(scan)[k] = MapType(LocalTypes[k])
      BY <2>1, <2>2, <2>3 DEF Agrees, Scan!DeclaredAs
    <2> QED
      BY <2>2, <2>4
  <1> QED
    BY <1>1, <1>2, <1>3, PTL DEF Spec
===============================================================================
