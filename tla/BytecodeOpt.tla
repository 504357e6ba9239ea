------------------------------ MODULE BytecodeOpt ------------------------------
(***************************************************************************)
(* The bytecode optimizer (src/src/optimizer/bytecode_opt.py): twenty-two  *)
(* passes over the code of one function, in the order of optimize.         *)
(*                                                                         *)
(* Most passes walk the code and rewrite what begins at position i: Match  *)
(* says how many instructions go and what comes in their place.  The I64   *)
(* instructions stand for their F64 and BOOL twins, which the passes treat *)
(* alike.                                                                  *)
(***************************************************************************)
EXTENDS BytecodeCompiler, SequencesExt

\* A rewrite: n instructions make room for out; n = 0 is no rewrite.
To(n, out) == [n |-> n, out |-> out]
Keep == To(0, <<>>)

\* The operation of s at i, "" past the end.
Op(s, i) == IF i \in DOMAIN s THEN s[i].op ELSE ""
\* The operations of s from i on begin with ops.
Starts(s, i, ops) == \A j \in DOMAIN ops : Op(s, i + j - 1) = ops[j]
\* The first operand of s at i.
Arg(s, i) == s[i].a[1]
\* The first position from i on whose operation is not op.
RECURSIVE After(_, _, _)
After(s, i, op) == IF Op(s, i) = op THEN After(s, i + 1, op) ELSE i
\* All operands of s from i to j, in order.
Args(s, i, j) == FoldLeft(LAMBDA x, y : x \o y.a, <<>>, SubSeq(s, i, j))

\* How long the run is that begins at i and in which the operations of ops take
\* turns.
RECURSIVE Alternating(_, _, _)
Alternating(s, i, ops) ==
  IF Op(s, i) = Head(ops) THEN 1 + Alternating(s, i + 1, Tail(ops) \o <<Head(ops)>>) ELSE 0

-----------------------------------------------------------------------------
\* combine_patterns, in the order of its patterns.
ConstForm == [ADD_I64 |-> "ADD_CONST_I64", SUB_I64 |-> "SUB_CONST_I64",
              MUL_I64 |-> "MUL_CONST_I64", MOD_I64 |-> "MOD_CONST_I64",
              CMP_LT |-> "CMP_LT_CONST", CMP_GT |-> "CMP_GT_CONST", CMP_LE |-> "CMP_LE_CONST",
              CMP_GE |-> "CMP_GE_CONST", CMP_EQ |-> "CMP_EQ_CONST", CMP_NE |-> "CMP_NE_CONST"]
Load2Form == [ADD_I64 |-> "LOAD2_ADD_I64", SUB_I64 |-> "LOAD2_SUB_I64",
              MUL_I64 |-> "LOAD2_MUL_I64", MOD_I64 |-> "LOAD2_MOD_I64",
              CMP_LT |-> "LOAD2_CMP_LT", CMP_GT |-> "LOAD2_CMP_GT", CMP_LE |-> "LOAD2_CMP_LE",
              CMP_GE |-> "LOAD2_CMP_GE", CMP_EQ |-> "LOAD2_CMP_EQ", CMP_NE |-> "LOAD2_CMP_NE"]

\* A local that is read, changed by one and written back.
Bump(s, i, op) ==
  /\ Starts(s, i, <<"LOAD", "CONST_I64", op, "STORE">>)
  /\ s[i + 1].a = <<1>> /\ Arg(s, i) = Arg(s, i + 3)

CombineConst(s, i) ==
  LET adds == After(s, i, "ADD_CONST_I64")
  IN IF Bump(s, i, "ADD_I64") THEN To(4, <<I("INC_LOCAL", Arg(s, i))>>)
     ELSE IF Bump(s, i, "SUB_I64") THEN To(4, <<I("DEC_LOCAL", Arg(s, i))>>)
     ELSE IF adds - i >= 2 THEN To(adds - i, <<IA("ADD_CONST_I64", Args(s, i, adds - 1))>>)
     ELSE IF Op(s, i) = "CONST_I64" /\ Op(s, i + 1) \in DOMAIN ConstForm
     THEN To(2, <<I(ConstForm[Op(s, i + 1)], Arg(s, i))>>)
     ELSE Keep

\* Two loads of one variable; two loads and an operation; more loads than that;
\* a load and a store in turns.
CombineLoad(s, i) ==
  LET loads == After(s, i, "LOAD")
      turns == Alternating(s, i, <<"LOAD", "STORE">>)
  IN IF Starts(s, i, <<"LOAD", "LOAD">>) /\ Arg(s, i) = Arg(s, i + 1)
     THEN To(2, <<s[i], I("DUP", 0)>>)
     ELSE IF Starts(s, i, <<"LOAD", "LOAD">>) /\ Op(s, i + 2) \in DOMAIN Load2Form
     THEN To(3, <<IA(Load2Form[Op(s, i + 2)], Args(s, i, i + 1))>>)
     ELSE IF loads - i >= 2 THEN To(loads - i, <<IA("LOAD", Args(s, i, loads - 1))>>)
     ELSE IF turns >= 2 THEN To(turns, <<IA("FUSED_LOAD_STORE", Args(s, i, i + turns - 1))>>)
     ELSE Keep

CombineStore(s, i) ==
  LET turns == Alternating(s, i, <<"STORE", "LOAD">>)
  IN IF turns >= 2 /\ Arg(s, i) = Arg(s, i + 1) THEN To(2, <<I("DUP", 0), s[i]>>)
     ELSE IF turns >= 2 THEN To(turns, <<IA("FUSED_STORE_LOAD", Args(s, i, i + turns - 1))>>)
     ELSE Keep

CombinePatterns(s, i) ==
  LET c == CombineConst(s, i)
      l == CombineLoad(s, i)
  IN IF c.n > 0 THEN c ELSE IF l.n > 0 THEN l ELSE CombineStore(s, i)

-----------------------------------------------------------------------------
\* merge_const_store_init: one constant each; a longer CONST is left alone only
\* because merge_constants comes later.
MergeConstStoreInit(s, i) ==
  LET n == (Alternating(s, i, <<"CONST_I64", "STORE">>) \div 2) * 2
      pairs == [j \in 1 .. n |-> IF j % 2 = 1 THEN Arg(s, i + j) ELSE Arg(s, i + j - 2)]
  IN IF n = 0 THEN Keep ELSE To(n, <<IA("STORE_CONST_I64", pairs)>>)

\* merge_store_const_sequences: lines in between are put after the merged one.
RECURSIVE SpanStores(_, _)
SpanStores(s, i) ==
  IF Op(s, i) \in {"STORE_CONST_I64", "LINE"} THEN SpanStores(s, i + 1) ELSE i
MergeStoreConst(s, i) ==
  LET span == SubSeq(s, i, SpanStores(s, i) - 1)
      stores == SelectSeq(span, LAMBDA x : x.op # "LINE")
  IN IF Op(s, i) # "STORE_CONST_I64" THEN Keep
     ELSE To(Len(span), <<IA("STORE_CONST_I64", Args(stores, 1, Len(stores)))>>
                          \o SelectSeq(span, LAMBDA x : x.op = "LINE"))

\* merge_fused_load_store_sequences and merge_constants.
MergeRun(s, i, op) ==
  LET j == After(s, i, op)
  IN IF j - i < 2 THEN Keep ELSE To(j - i, <<IA(op, Args(s, i, j - 1))>>)

\* _is_copy_ref_safe: the alias is sure to end before either variable changes.
RECURSIVE CopyRefSafe(_, _, _, _, _)
CopyRefSafe(s, i, src, dst, ahead) ==
  IF ahead = 0 \/ i > Len(s) THEN FALSE
  ELSE LET op == s[i].op IN
       IF op \in {"LABEL", "JUMP", "JUMP_IF_FALSE", "JUMP_IF_TRUE"} THEN FALSE
       ELSE IF \/ op = "STORE" /\ s[i].a[1] = dst
               \/ op = "COPY_LOCAL_REF" /\ dst \in {s[i].a[1], s[i].a[2]} THEN TRUE
       ELSE IF op = "LOAD" /\ s[i].a[1] = dst
               /\ Op(s, i + 1) \in {"ADD_I64", "SUB_I64", "MUL_I64", "MOD_I64", "ADD_CONST_I64"}
            THEN FALSE
       ELSE IF op = "STORE" /\ s[i].a[1] = src THEN FALSE
       ELSE CopyRefSafe(s, i + 1, src, dst, ahead - 1)

\* optimize_variable_copies: only the first operand of the load is looked at.
VariableCopies(s, i) ==
  IF Starts(s, i, <<"LOAD", "STORE">>) /\ Arg(s, i) # Arg(s, i + 1)
  THEN To(2, <<IA(IF CopyRefSafe(s, i + 2, Arg(s, i), Arg(s, i + 1), 10)
                  THEN "COPY_LOCAL_REF" ELSE "COPY_LOCAL", <<Arg(s, i), Arg(s, i + 1)>>)>>)
  ELSE Keep

\* remove_redundant_loads.
RedundantLoads(s, i) ==
  IF Starts(s, i, <<"STORE", "LOAD">>) /\ Arg(s, i) = Arg(s, i + 1)
  THEN To(2, <<I("DUP", 0), s[i]>>) ELSE Keep

\* optimize_negation: the comparison with the text "CONST_I64 -1" also holds for
\* -10 .. -19 and so on.
MinusOne(v) == v \in {-1} \cup (-19 .. -10) \cup (-199 .. -100)
Negation(s, i) ==
  IF Starts(s, i, <<"CONST_I64", "MUL_I64">>) /\ MinusOne(Arg(s, i)) THEN To(2, <<I("NEG", 0)>>)
  ELSE IF Starts(s, i, <<"CONST_I64", "SWAP", "SUB_I64">>) /\ Arg(s, i) = 0
  THEN To(3, <<I("NEG", 0)>>) ELSE Keep

\* optimize_jumps: a jump to the label that follows.
Jumps(s, i) ==
  IF Starts(s, i, <<"JUMP", "LABEL">>) /\ Arg(s, i) = Arg(s, i + 1) THEN To(2, <<s[i + 1]>>)
  ELSE Keep

\* algebraic_simplifications, the integer and logical identities.
Algebraic(s, i) ==
  LET is(v, op) == Starts(s, i, <<"CONST_I64", op>>) /\ s[i].a = <<v>>
  IN IF is(0, "ADD_I64") \/ is(0, "SUB_I64") \/ is(1, "MUL_I64") THEN To(2, <<>>)
     ELSE IF is(0, "MUL_I64") THEN To(2, <<I("POP", 0), I("CONST_I64", 0)>>)
     ELSE IF Starts(s, i, <<"NOT", "NOT">>) THEN To(2, <<>>)
     ELSE Keep

\* Mutant: the other direction is taken for the opposite.
MirrorOf == [CMP_LT |-> "CMP_GT", CMP_GE |-> "CMP_LE", CMP_GT |-> "CMP_LT", CMP_LE |-> "CMP_GE",
             CMP_EQ |-> "CMP_NE", CMP_NE |-> "CMP_EQ",
             LOAD2_CMP_LT |-> "LOAD2_CMP_GT", LOAD2_CMP_GE |-> "LOAD2_CMP_LE",
             LOAD2_CMP_GT |-> "LOAD2_CMP_LT", LOAD2_CMP_LE |-> "LOAD2_CMP_GE",
             LOAD2_CMP_EQ |-> "LOAD2_CMP_NE", LOAD2_CMP_NE |-> "LOAD2_CMP_EQ"]

\* optimize_comparison_inversions.
Inverse2 == [CMP_LT |-> "CMP_GE", CMP_GE |-> "CMP_LT", CMP_GT |-> "CMP_LE", CMP_LE |-> "CMP_GT",
             CMP_EQ |-> "CMP_NE", CMP_NE |-> "CMP_EQ",
             LOAD2_CMP_LT |-> "LOAD2_CMP_GE", LOAD2_CMP_GE |-> "LOAD2_CMP_LT",
             LOAD2_CMP_GT |-> "LOAD2_CMP_LE", LOAD2_CMP_LE |-> "LOAD2_CMP_GT",
             LOAD2_CMP_EQ |-> "LOAD2_CMP_NE", LOAD2_CMP_NE |-> "LOAD2_CMP_EQ"]
ComparisonInversions(s, i) ==
  IF Op(s, i) \in DOMAIN Inverse2 /\ Op(s, i + 1) = "NOT"
  THEN To(2, <<IA(Inverse2[Op(s, i)], s[i].a)>>) ELSE Keep

\* constant_folding: operands that fit one instruction each.
FoldOps == [ADD_I64 |-> "Add", SUB_I64 |-> "Sub", MUL_I64 |-> "Mult", MOD_I64 |-> "Mod"]
ConstantFolding(s, i) ==
  IF /\ Starts(s, i, <<"CONST_I64", "CONST_I64">>) /\ Op(s, i + 2) \in DOMAIN FoldOps
     /\ Op(s, i + 2) = "MOD_I64" => Arg(s, i + 1) # 0
  THEN To(3, <<I("CONST_I64", Calc(FoldOps[Op(s, i + 2)], Arg(s, i), Arg(s, i + 1)))>>) ELSE Keep

\* optimize_not_jumps: the lines between the two come first; without a jump they
\* are there twice.
NotJumps(s, i) ==
  LET j == After(s, i + 1, "LINE")
      between == SubSeq(s, i + 1, j - 1)
  IN IF Op(s, i) # "NOT" THEN Keep
     ELSE IF Op(s, j) = "JUMP_IF_FALSE"
     THEN To(j - i + 1, between \o <<I("JUMP_IF_TRUE", Arg(s, j))>>)
     ELSE IF Op(s, j) = "JUMP_IF_TRUE"
     THEN To(j - i + 1, between \o <<I("JUMP_IF_FALSE", Arg(s, j))>>)
     ELSE To(1, between \o <<s[i]>>)

-----------------------------------------------------------------------------
\* optimize_switch_cases: tests of one variable in a row.  Five or more without
\* a gap and with a default become a table, three or more keep the value on the
\* stack; the body of a case is entered with that copy still there.
RECURSIVE SwitchTests(_, _)
SwitchTests(s, i) ==
  IF Starts(s, i, <<"LOAD", "CMP_EQ_CONST", "JUMP_IF_TRUE">>) /\ Len(s[i].a) = 1
  THEN <<[value |-> Arg(s, i + 1), label |-> Arg(s, i + 2), slot |-> Arg(s, i)]>>
         \o SwitchTests(s, i + 3)
  ELSE <<>>
SwitchCases(s, i) ==
  LET all == SwitchTests(s, i)
      n == CHOOSE n \in 0 .. Len(all) :
             /\ \A k \in 1 .. n : all[k].slot = all[1].slot
             /\ n < Len(all) => all[n + 1].slot # all[1].slot
      cases == SubSeq(all, 1, n)
      j == i + 3 * n
      default == Op(s, j) = "JUMP"
      values == {cases[k].value : k \in 1 .. n}
      lo == CHOOSE v \in values : \A w \in values : v <= w
      hi == CHOOSE v \in values : \A w \in values : v >= w
      hits(v) == {k \in 1 .. n : cases[k].value = v}
      label(v) == IF hits(v) = {} THEN <<>>
                  ELSE <<cases[CHOOSE k \in hits(v) : \A l \in hits(v) : k <= l].label>>
      Test(k) == (IF k < n \/ default THEN <<I("DUP", 0)>> ELSE <<>>)
                   \o <<I("CMP_EQ_CONST", cases[k].value), I("JUMP_IF_TRUE", cases[k].label)>>
      table == IA("SWITCH_JUMP_TABLE",
                  <<lo, hi>> \o FlattenSeq([v \in 1 .. hi - lo + 1 |-> label(lo + v - 1)])
                    \o <<Arg(s, j)>>)
  IN IF n < 3 THEN Keep
     ELSE To(3 * n + IF default THEN 1 ELSE 0,
             <<I("LOAD", cases[1].slot)>> \o
               IF hi - lo = n - 1 /\ n >= 5 /\ default THEN <<table>>
               ELSE FlattenSeq([k \in 1 .. n |-> Test(k)])
                      \o IF default THEN <<I("POP", 0), s[j]>> ELSE <<>>)

\* fuse_similar_case_bodies: three or more bodies that add to one variable what
\* the first digit of their label, plus one, says.  They are replaced when the
\* table that leads to them is in the same chunk.
RECURSIVE CaseBodies(_, _)
CaseBodies(s, i) ==
  IF /\ Starts(s, i, <<"LABEL", "LOAD", "ADD_CONST_I64", "STORE", "JUMP">>) /\ s[i].s = "case"
     /\ Arg(s, i + 1) = Arg(s, i + 3)
  THEN <<[num |-> s[i].a[2], slot |-> Arg(s, i + 1), add |-> Arg(s, i + 2), end |-> Arg(s, i + 4)]>>
         \o CaseBodies(s, i + 5)
  ELSE <<>>
SimilarCaseBodies(s, i) ==
  LET bodies == CaseBodies(s, i)
      n == Len(bodies)
      tables == {k \in 3 .. i - 1 : s[k].op = "SWITCH_JUMP_TABLE" /\ s[k - 1].op = "LOAD"}
      k == CHOOSE k \in tables : \A l \in tables : l <= k
      opt == 1000 + i
  IN IF /\ n >= 3 /\ tables # {}
        /\ \A b \in 1 .. n : /\ bodies[b].slot = bodies[1].slot /\ bodies[b].end = bodies[1].end
                             /\ bodies[b].add = bodies[b].num + 1
     THEN [n |-> 5 * n, table |-> k, label |-> opt,
           out |-> <<Label("switch_opt", opt), I("LOAD", Arg(s, k - 1)), I("ADD_CONST_I64", 1),
                     I("LOAD", bodies[1].slot), I("ADD_I64", 0), I("STORE", bodies[1].slot),
                     I("JUMP", bodies[1].end)>>]
     ELSE Keep

\* eliminate_redundant_continue_labels: of a for loop that no continue jumps to.
ContinueLabels(s, i) ==
  IF /\ Starts(s, i, <<"LABEL", "INC_LOCAL", "JUMP">>) /\ s[i].s = "for_continue"
     /\ \A j \in DOMAIN s :
          s[j].op \in {"JUMP", "JUMP_IF_TRUE", "JUMP_IF_FALSE"} => Arg(s, j) # Arg(s, i)
     /\ \E j \in DOMAIN s : s[j].op = "LABEL" /\ s[j].s = "for_start" /\ Arg(s, j) = Arg(s, i + 2)
  THEN To(1, <<>>) ELSE Keep

\* optimize_if_else_select: both branches do nothing but set one variable.  Only
\* the last store of a branch counts, of a STORE_CONST only its first pair, and
\* what follows that store is not looked at.
Branch(s, i, stops) ==
  LET end == CHOOSE j \in i .. Len(s) + 1 :
               /\ Op(s, j) \in stops \cup {""}
               /\ \A l \in i .. j - 1 : s[l].op \notin stops
      stores == {l \in i .. end - 1 : s[l].op \in {"STORE", "STORE_CONST_I64"}}
      at == CHOOSE l \in stores : \A k \in stores : k <= l
      const == s[at].op = "STORE_CONST_I64"
  IN IF stores = {} \/ at - i # (IF const THEN 0 ELSE 1) THEN [ok |-> FALSE, end |-> end]
     ELSE [ok |-> TRUE, end |-> end, slot |-> Arg(s, at),
           value |-> IF const THEN <<I("CONST_I64", s[at].a[2])>> ELSE <<s[i]>>]
\* The search for the start of the condition compares a position in the code with
\* the length done of what is written: the same, until a rewrite of the chunk made
\* the code shorter.  From then on the condition is written once more.
Condition(s, i, done) ==
  LET stops == {p \in done + 1 .. i - 1 : s[p].op \in {"LABEL", "JUMP", "STORE", "STORE_CONST_I64"}}
      last == IF stops = {} THEN done ELSE CHOOSE p \in stops : \A q \in stops : q <= p
  IN SubSeq(s, last + 1, i - 1)
IfElseSelect(s, i, done) ==
  LET then == Branch(s, i + 1, {"LABEL", "JUMP"})
      else == Branch(s, then.end + 2, {"LABEL"})
  IN IF /\ Op(s, i) = "JUMP_IF_FALSE"
        /\ then.ok /\ Op(s, then.end) = "JUMP"
        /\ Op(s, then.end + 1) = "LABEL" /\ Arg(s, then.end + 1) = Arg(s, i)
        /\ else.ok /\ then.slot = else.slot
        /\ Op(s, else.end) = "LABEL" /\ Arg(s, else.end) = Arg(s, then.end)
     THEN To(else.end - i + 1, Condition(s, i, done) \o then.value \o else.value
                                 \o <<I("SELECT", 0), I("STORE", then.slot)>>)
     ELSE Keep

-----------------------------------------------------------------------------
\* The operations a pass may start from.
Heads ==
  [combine_patterns |-> {"LOAD", "ADD_CONST_I64", "CONST_I64", "STORE"},
   merge_const_store_init |-> {"CONST_I64"},
   merge_store_const_sequences |-> {"STORE_CONST_I64"},
   merge_fused_load_store_sequences |-> {"FUSED_LOAD_STORE"},
   merge_constants |-> {"CONST_I64"},
   optimize_variable_copies |-> {"LOAD"},
   remove_redundant_loads |-> {"STORE"},
   optimize_negation |-> {"CONST_I64"},
   optimize_jumps |-> {"JUMP"},
   algebraic_simplifications |-> {"CONST_I64", "NOT"},
   optimize_comparison_inversions |-> DOMAIN Inverse2,
   constant_folding |-> {"CONST_I64"},
   optimize_not_jumps |-> {"NOT"},
   optimize_switch_cases |-> {"LOAD"},
   fuse_similar_case_bodies |-> {"LABEL"},
   eliminate_redundant_continue_labels |-> {"LABEL"},
   optimize_if_else_select |-> {"JUMP_IF_FALSE"}]
Match(pass, s, i, done) ==
  CASE pass = "combine_patterns" -> CombinePatterns(s, i)
    [] pass = "merge_const_store_init" -> MergeConstStoreInit(s, i)
    [] pass = "merge_store_const_sequences" -> MergeStoreConst(s, i)
    [] pass = "merge_fused_load_store_sequences" -> MergeRun(s, i, "FUSED_LOAD_STORE")
    [] pass = "merge_constants" -> MergeRun(s, i, "CONST_I64")
    [] pass = "optimize_variable_copies" -> VariableCopies(s, i)
    [] pass = "remove_redundant_loads" -> RedundantLoads(s, i)
    [] pass = "optimize_negation" -> Negation(s, i)
    [] pass = "optimize_jumps" -> Jumps(s, i)
    [] pass = "algebraic_simplifications" -> Algebraic(s, i)
    [] pass = "optimize_comparison_inversions" -> ComparisonInversions(s, i)
    [] pass = "constant_folding" -> ConstantFolding(s, i)
    [] pass = "optimize_not_jumps" -> NotJumps(s, i)
    [] pass = "optimize_switch_cases" -> SwitchCases(s, i)
    [] pass = "fuse_similar_case_bodies" -> SimilarCaseBodies(s, i)
    [] pass = "eliminate_redundant_continue_labels" -> ContinueLabels(s, i)
    [] pass = "optimize_if_else_select" -> IfElseSelect(s, i, done)

\* One walk over s; what fuse_similar_case_bodies finds also redirects the
\* entries of the table that is already behind it.
Redirect(out, m) ==
  IF "table" \notin DOMAIN m THEN out
  ELSE LET ks == {k \in DOMAIN out : out[k].op = "SWITCH_JUMP_TABLE"}
           k == CHOOSE k \in ks : \A l \in ks : l <= k
       IN [out EXCEPT ![k].a = [j \in DOMAIN @ |-> IF j \in 3 .. Len(@) - 1 THEN m.label ELSE @[j]]]
RECURSIVE Scan(_, _, _, _)
Scan(pass, s, i, out) ==
  IF i > Len(s) THEN out
  ELSE LET m == Match(pass, s, i, Len(out))
       IN IF s[i].op \notin Heads[pass] \/ m.n = 0 THEN Scan(pass, s, i + 1, Append(out, s[i]))
          ELSE Scan(pass, s, i + m.n, Redirect(out, m) \o m.out)

\* _apply_pass_with_lines, _apply_pass_preserve_lines: the second applies the
\* pass to the stretches between lines.
Whole(s, pass) ==
  IF \A i \in DOMAIN s : s[i].op \notin Heads[pass] THEN s ELSE Scan(pass, s, 1, <<>>)
RECURSIVE Chunks(_, _)
Chunks(s, pass) ==
  IF s = <<>> THEN <<>>
  ELSE LET ends == {i \in DOMAIN s : s[i].op = "LINE"}
           end == IF ends = {} THEN Len(s) + 1 ELSE CHOOSE i \in ends : \A j \in ends : i <= j
       IN Whole(SubSeq(s, 1, end - 1), pass)
            \o (IF ends = {} THEN <<>> ELSE <<s[end]>>) \o Chunks(SubSeq(s, end + 1, Len(s)), pass)

-----------------------------------------------------------------------------
\* remove_dead_stores: a plain STORE of what nothing in the function loads goes,
\* together with the constant or the load before it.
LoadedVars(s) ==
  UNION {LET a == s[i].a
             odd == {a[j] : j \in {k \in DOMAIN a : k % 2 = 1}}
             even == {a[j] : j \in {k \in DOMAIN a : k % 2 = 0}}
         IN CASE s[i].op = "LOAD" -> {a[j] : j \in DOMAIN a}
              [] s[i].op \in {Load2Form[o] : o \in DOMAIN Load2Form} -> {a[1], a[2]}
              [] s[i].op \in {"INC_LOCAL", "COPY_LOCAL_REF"} -> {a[1]}
              [] s[i].op = "FUSED_LOAD_STORE" -> odd
              [] s[i].op = "FUSED_STORE_LOAD" -> even
              [] OTHER -> {} : i \in DOMAIN s}
RECURSIVE DeadStores(_, _, _)
DeadStores(s, loaded, out) ==
  IF s = <<>> THEN out
  ELSE LET prevs == {i \in DOMAIN out : out[i].op # "LINE"}
           prev == CHOOSE i \in prevs : \A j \in prevs : j <= i
       IN IF /\ s[1].op = "STORE" /\ s[1].a[1] \notin loaded /\ prevs # {}
             /\ \/ out[prev].op = "CONST_I64"
                \/ out[prev].op = "LOAD" /\ Len(out[prev].a) = 1
          THEN DeadStores(Tail(s), loaded, RemoveAt(out, prev))
          ELSE DeadStores(Tail(s), loaded, Append(out, s[1]))

\* Mutant: references to the labels that go stay.
MergeLabelsAlone(s) == SelectSeq(s, LAMBDA x : x.op # "LABEL" \/ x.s # "if_end")

\* merge_adjacent_labels: of labels in a row one stays, that of a loop if there
\* is one, and every reference goes to it.
LoopLabels == {"for_start", "for_end", "for_continue", "forin_start", "forin_end",
               "forin_continue", "while_start", "while_end"}
MergeLabels(s) ==
  LET heads == {i \in DOMAIN s : s[i].op = "LABEL" /\ Op(s, i - 1) # "LABEL"}
      row(i) == i .. After(s, i, "LABEL") - 1
      primary(i) == LET loops == {j \in row(i) : s[j].s \in LoopLabels}
                    IN IF loops = {} THEN i ELSE CHOOSE j \in loops : \A k \in loops : j <= k
      alias == [l \in {s[i].a[1] : i \in {j \in DOMAIN s : s[j].op = "LABEL"}} |->
                  Arg(s, primary(CHOOSE i \in heads : \E j \in row(i) : s[j].a[1] = l))]
      new(l) == IF l \in DOMAIN alias THEN alias[l] ELSE l
      redirect(x) ==
        CASE x.op \in {"JUMP", "JUMP_IF_FALSE", "JUMP_IF_TRUE", "TRY_BEGIN"} ->
               [x EXCEPT !.a[1] = new(@)]
          [] x.op = "SWITCH_JUMP_TABLE" ->
               [x EXCEPT !.a = [j \in DOMAIN @ |-> IF j <= 2 THEN @[j] ELSE new(@[j])]]
          [] OTHER -> x
      kept == FlattenSeq([i \in DOMAIN s |->
                 IF s[i].op # "LABEL" THEN <<s[i]>>
                 ELSE IF i \in heads THEN <<s[primary(i)]>> ELSE <<>>])
  IN [i \in DOMAIN kept |-> redirect(kept[i])]

\* remove_line_from_control_flow: a line waits for an instruction that does
\* something.
Control == {"LABEL", "JUMP", "JUMP_IF_FALSE", "JUMP_IF_TRUE", "RETURN", "RETURN_VOID",
            "TRY_BEGIN", "TRY_END", "RAISE", "SWITCH_JUMP_TABLE"}
RECURSIVE LinesOff(_, _, _)
LinesOff(s, pending, out) ==
  IF s = <<>> THEN out
  ELSE LET x == Head(s) IN
       IF x.op = "LINE" THEN LinesOff(Tail(s), TRUE, out)
       ELSE IF x.op \in Control \/ ~pending THEN LinesOff(Tail(s), pending, Append(out, x))
       ELSE LinesOff(Tail(s), FALSE, out \o <<Line, x>>)

\* optimize: the passes and what each is applied to: the chunks between two lines,
\* or the whole function with its lines.  The passes over structs, lists,
\* conversions and repeated arithmetic do not apply to this code;
\* cache_loaded_values never changes any: LOAD, the instruction it looks for, is
\* on its own list of instructions to stop at.
Schedule ==
  <<<<"chunks", "combine_patterns">>, <<"chunks", "merge_const_store_init">>,
    <<"whole", "merge_store_const_sequences">>, <<"chunks", "merge_fused_load_store_sequences">>,
    <<"chunks", "merge_constants">>, <<"chunks", "optimize_variable_copies">>,
    <<"chunks", "remove_redundant_loads">>, <<"chunks", "optimize_negation">>,
    <<"chunks", "optimize_jumps">>, <<"function", "remove_dead_stores">>,
    <<"chunks", "algebraic_simplifications">>, <<"chunks", "optimize_comparison_inversions">>,
    <<"chunks", "constant_folding">>, <<"whole", "optimize_not_jumps">>,
    <<"chunks", "optimize_switch_cases">>, <<"chunks", "fuse_similar_case_bodies">>,
    <<"whole", "eliminate_redundant_continue_labels">>, <<"chunks", "optimize_if_else_select">>,
    <<"function", "merge_adjacent_labels">>, <<"function", "remove_line_from_control_flow">>>>
Apply(s, scope, pass) ==
  CASE scope = "chunks" -> Chunks(s, pass)
    [] scope = "whole" -> Whole(s, pass)
    [] pass = "remove_dead_stores" -> DeadStores(s, LoadedVars(s), <<>>)
    [] pass = "merge_adjacent_labels" -> MergeLabels(s)
    [] pass = "remove_line_from_control_flow" -> LinesOff(s, FALSE, <<>>)
RECURSIVE OptimizeFrom(_, _)
OptimizeFrom(s, k) ==
  IF s = <<>> \/ k > Len(Schedule) THEN s
  ELSE OptimizeFrom(Apply(s, Schedule[k][1], Schedule[k][2]), k + 1)
Optimize(code) == OptimizeFrom(code, 1)
=============================================================================
