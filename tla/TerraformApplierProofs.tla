----------------------- MODULE TerraformApplierProofs -----------------------
(***************************************************************************)
(* "iamzero apply" on Terraform projects, for any number of roles,         *)
(* resources, modules, attachments, findings and sessions, with rejected   *)
(* plans and failures between files: what is declared twice, what happens  *)
(* to roles without a plan, what the policies and attachments of a planned *)
(* role reach and lose, and what a second run changes.                     *)
(***************************************************************************)
EXTENDS TerraformApplier, FiniteSetTheorems, SequenceTheorems, WellFoundedInduction, TLAPS

(* A set of numbers that holds 0, and with a number up to n the next one,   *)
(* holds all numbers up to n.                                               *)
LEMMA UpTo ==
  ASSUME NEW n \in Nat, NEW S, 0 \in S, \A k \in 0..n : k \in S /\ k < n => k + 1 \in S
  PROVE  \A k \in 0..n : k \in S
<1> DEFINE Left == {k \in 0..n : k \notin S}
           Below == {pair \in Nat \X Nat : pair[1] < pair[2]}
<1> SUFFICES ASSUME Left # {} PROVE FALSE
  OBVIOUS
<1>1. PICK k \in Left : \A j \in Left : <<j, k>> \notin Below
  <2>1. IsWellFoundedOn(Below, Nat)
    BY NatLessThanWellFounded DEF OpToRel
  <2>2. Left \subseteq Nat
    OBVIOUS
  <2> HIDE DEF Below, Left
  <2> QED BY <2>1, <2>2, WFMin
<1>2. k # 0 /\ k - 1 \in 0..n /\ k - 1 < n
  OBVIOUS
<1>3. k - 1 \in S
  <2>1. <<k - 1, k>> \in Nat \X Nat /\ <<k - 1, k>>[1] = k - 1 /\ <<k - 1, k>>[2] = k
    BY <1>2
  <2> QED BY <1>1, <1>2, <2>1
<1> QED BY <1>2, <1>3

-----------------------------------------------------------------------------
(* The loop over the statements.  FoldLeft is a function on the sets of     *)
(* positions; what it does step by step is its value on those up to each.   *)
Statement == [name : Nat, resource : Resources, object : Objects]

(* The function that FoldLeft chooses, on the positions in D. *)
Folds(g, D, tree, role, stmts) ==
  g = [s \in SUBSET D |->
         IF s = {} THEN tree
         ELSE PlumbStatement(g[s \ {CHOOSE x \in s : \A y \in s : x >= y}], role,
                             stmts[CHOOSE x \in s : \A y \in s : x >= y])]

(* A fold over the first positions extends to one more. *)
LEMMA FoldsUpTo ==
  ASSUME NEW tree, NEW role, NEW stmts, NEW n \in Nat,
         NEW g, Folds(g, 1..n, tree, role, stmts)
  PROVE  \E h : Folds(h, 1..(n + 1), tree, role, stmts)
<1> DEFINE Last1(s) == CHOOSE x \in s : \A y \in s : x >= y
           h == [s \in SUBSET (1..(n + 1)) |->
                   IF n + 1 \in s THEN PlumbStatement(g[s \ {n + 1}], role, stmts[n + 1]) ELSE g[s]]
<1>1. ASSUME NEW s \in SUBSET (1..(n + 1))
      PROVE  h[s] = IF s = {} THEN tree ELSE PlumbStatement(h[s \ {Last1(s)}], role, stmts[Last1(s)])
  <2>1. CASE n + 1 \in s
    <3>1. Last1(s) = n + 1
      <4>1. n + 1 \in s /\ \A y \in s : n + 1 >= y
        BY <2>1
      <4>2. \A x \in s : (\A y \in s : x >= y) => x = n + 1
        BY <2>1
      <4> QED BY <4>1, <4>2
    <3>2. s \ {n + 1} \in SUBSET (1..n) /\ s \ {n + 1} \in SUBSET (1..(n + 1))
      OBVIOUS
    <3>3. h[s \ {n + 1}] = g[s \ {n + 1}]
      BY <3>2
    <3>4. h[s] = PlumbStatement(g[s \ {n + 1}], role, stmts[n + 1])
      BY <2>1
    <3> HIDE DEF Last1, h
    <3> QED BY <2>1, <3>1, <3>3, <3>4
  <2>2. CASE n + 1 \notin s
    <3>1. s \in SUBSET (1..n) /\ s \ {Last1(s)} \in SUBSET (1..n)
          /\ s \ {Last1(s)} \in SUBSET (1..(n + 1)) /\ n + 1 \notin s \ {Last1(s)}
      <4>1. \A x \in 1..(n + 1) : x # n + 1 => x \in 1..n
        OBVIOUS
      <4>2. s \in SUBSET (1..n)
        BY <2>2, <4>1
      <4> HIDE DEF Last1, h
      <4> QED BY <2>2, <4>2
    <3>2. h[s] = g[s] /\ h[s \ {Last1(s)}] = g[s \ {Last1(s)}]
      <4> HIDE DEF Last1
      <4> QED BY <2>2, <3>1
    <3>3. g[s] = IF s = {} THEN tree ELSE PlumbStatement(g[s \ {Last1(s)}], role, stmts[Last1(s)])
      BY <3>1 DEF Folds
    <3> HIDE DEF Last1, h
    <3> QED BY <3>2, <3>3
  <2> QED BY <2>1, <2>2
<1>2. Folds(h, 1..(n + 1), tree, role, stmts)
  <2>1. h = [s \in SUBSET (1..(n + 1)) |-> h[s]]
    OBVIOUS
  <2> HIDE DEF h
  <2> QED BY <1>1, <2>1 DEF Folds
<1> QED BY <1>2

(* A tree without the inline policies of a role, as the loop starts. *)
WithoutPolicies(t, role) == [t EXCEPT !.inline[role] = {}]

(* What ApplyFindingToBlock does, statement by statement. *)
LEMMA ApplyTrace ==
  ASSUME NEW t, NEW role, NEW recs, Statements(recs) \in Seq(Statement),
         NEW u, u = ApplyFindingToBlock(t, role, recs)
  PROVE  \E trace : /\ trace[0] = WithoutPolicies(t, role)
                    /\ \A k \in 1..Len(Statements(recs)) :
                         trace[k] = PlumbStatement(trace[k - 1], role, Statements(recs)[k])
                    /\ trace[Len(Statements(recs))] = u
<1> DEFINE stmts == Statements(recs)
           tree == WithoutPolicies(t, role)
           n == Len(stmts)
           S == {k \in 0..n : \E g : Folds(g, 1..k, tree, role, stmts)}
           TheFold == CHOOSE g : Folds(g, DOMAIN stmts, tree, role, stmts)
<1>3. u = TheFold[DOMAIN stmts]
  BY DEF Folds, FoldLeft, MapThenFoldSet, Max, ApplyFindingToBlock, WithoutPolicies
<1> HIDE DEF stmts, tree
<1>0. n \in Nat /\ DOMAIN stmts = 1..n
  BY DEF stmts
<1>1. PICK g : Folds(g, 1..n, tree, role, stmts)
  <2>1. 0 \in S
    <3> DEFINE g == [s \in SUBSET (1..0) |-> tree]
    <3>1. Folds(g, 1..0, tree, role, stmts)
      <4>1. \A s \in SUBSET (1..0) : s = {}
        OBVIOUS
      <4> QED BY <4>1 DEF Folds
    <3> QED BY <1>0, <3>1
  <2>2. \A k \in 0..n : k \in S /\ k < n => k + 1 \in S
    BY <1>0, FoldsUpTo
  <2>3. n \in 0..n
    BY <1>0
  <2> HIDE DEF S, n
  <2>4. \A k \in 0..n : k \in S
    BY <1>0, <2>1, <2>2, UpTo
  <2>5. n \in S
    BY <2>3, <2>4
  <2> QED BY <2>5 DEF S
<1>2. Folds(TheFold, 1..n, tree, role, stmts)
  BY <1>0, <1>1
<1> HIDE DEF TheFold
<1> DEFINE trace == [k \in 0..n |-> TheFold[1..k]]
<1>4. trace[0] = tree
  <2>1. 1..0 = {} /\ 0 \in 0..n
    BY <1>0
  <2>2. trace[0] = TheFold[{}] /\ {} \in SUBSET (1..n)
    BY <2>1
  <2> QED BY <1>2, <2>2 DEF Folds
<1>5. ASSUME NEW k \in 1..n
      PROVE  trace[k] = PlumbStatement(trace[k - 1], role, stmts[k])
  <2>1. k \in 0..n /\ k - 1 \in 0..n /\ 1..k \in SUBSET (1..n) /\ 1..k # {}
    <3> HIDE DEF n, trace
    <3>1. k \in 0..n /\ k - 1 \in 0..n /\ k \in 1..k
      BY <1>0
    <3>2. \A x \in 1..k : x \in 1..n
      BY <1>0
    <3> QED BY <3>1, <3>2
  <2>2. (CHOOSE x \in 1..k : \A y \in 1..k : x >= y) = k
    <3>1. \A x \in 1..k : (\A y \in 1..k : x >= y) <=> x = k
      OBVIOUS
    <3> QED BY <2>1, <3>1
  <2>3. (1..k) \ {k} = 1..(k - 1)
    OBVIOUS
  <2>4. TheFold[1..k] = PlumbStatement(TheFold[1..(k - 1)], role, stmts[k])
    BY <1>2, <2>1, <2>2, <2>3 DEF Folds
  <2> QED BY <2>1, <2>4
<1>6. trace[n] = TheFold[DOMAIN stmts]
  BY <1>0
<1> QED BY <1>3, <1>4, <1>5, <1>6 DEF stmts, tree

-----------------------------------------------------------------------------
(* The statements of a finding. *)

(* The function that FlattenSeq chooses, up to position n. *)
Flattens(f, n, seqs) ==
  f = [k \in 1..n |-> IF k = 1 THEN seqs[k] ELSE f[k - 1] \o seqs[k]]

(* A concatenation of the first sequences extends to one more. *)
LEMMA FlattensUpTo ==
  ASSUME NEW seqs, NEW n \in Nat, NEW f, Flattens(f, n, seqs)
  PROVE  \E h : Flattens(h, n + 1, seqs)
<1> DEFINE h == [k \in 1..(n + 1) |->
                   IF k = 1 THEN seqs[k]
                   ELSE IF k = n + 1 THEN f[k - 1] \o seqs[k] ELSE f[k]]
<1>1. ASSUME NEW k \in 1..(n + 1)
      PROVE  h[k] = IF k = 1 THEN seqs[k] ELSE h[k - 1] \o seqs[k]
  <2>1. CASE k = 1
    BY <2>1
  <2>2. CASE k # 1
    <3>1. k - 1 \in 1..n /\ k - 1 \in 1..(n + 1) /\ k - 1 # n + 1
      BY <2>2
    <3>2. h[k - 1] = f[k - 1]
      <4>1. f[1] = seqs[1]
        BY <3>1 DEF Flattens
      <4> QED BY <3>1, <4>1
    <3>3. h[k] = f[k - 1] \o seqs[k]
      <4>1. CASE k = n + 1
        BY <2>2, <4>1
      <4>2. CASE k # n + 1
        <5>1. k \in 1..n
          BY <4>2
        <5>2. f[k] = f[k - 1] \o seqs[k]
          BY <2>2, <5>1 DEF Flattens
        <5> QED BY <2>2, <4>2, <5>2
      <4> QED BY <4>1, <4>2
    <3> HIDE DEF h
    <3> QED BY <2>2, <3>2, <3>3
  <2> QED BY <2>1, <2>2
<1>2. Flattens(h, n + 1, seqs)
  <2>1. h = [k \in 1..(n + 1) |-> h[k]]
    OBVIOUS
  <2> HIDE DEF h
  <2> QED BY <1>1, <2>1 DEF Flattens
<1> QED BY <1>2

(* What FlattenSeq returns: the last value of a function that appends them. *)
LEMMA FlattenTrace ==
  ASSUME NEW seqs, Len(seqs) \in Nat \ {0}
  PROVE  \E f : Flattens(f, Len(seqs), seqs) /\ FlattenSeq(seqs) = f[Len(seqs)]
<1> DEFINE n == Len(seqs)
           S == {k \in 0..n : \E f : Flattens(f, k, seqs)}
           TheFlat == CHOOSE f : Flattens(f, Len(seqs), seqs)
<1>1. \E f : Flattens(f, n, seqs)
  <2>1. 0 \in S
    <3>1. Flattens([k \in 1..0 |-> seqs], 0, seqs)
      <4>1. \A k \in 1..0 : FALSE
        OBVIOUS
      <4> QED BY <4>1 DEF Flattens
    <3> QED BY <3>1
  <2>2. \A k \in 0..n : k \in S /\ k < n => k + 1 \in S
    BY FlattensUpTo
  <2>3. n \in 0..n /\ n \in Nat
    OBVIOUS
  <2> HIDE DEF S, n
  <2>4. n \in S
    BY <2>1, <2>2, <2>3, UpTo
  <2> QED BY <2>4 DEF S
<1>2. Flattens(TheFlat, Len(seqs), seqs)
  BY <1>1
<1>3. FlattenSeq(seqs) = TheFlat[Len(seqs)]
  BY DEF FlattenSeq, Flattens
<1> QED BY <1>2, <1>3

(* A concatenation of sequences over T is one over T. *)
LEMMA FlattenTypes ==
  ASSUME NEW T, NEW seqs \in Seq(Seq(T))
  PROVE  FlattenSeq(seqs) \in Seq(T)
<1> DEFINE n == Len(seqs)
<1>1. CASE n = 0
  <2>1. FlattenSeq(seqs) = seqs /\ seqs = << >>
    BY <1>1 DEF FlattenSeq
  <2> QED BY <2>1
<1>2. CASE n # 0
  <2>0. n \in Nat \ {0} /\ \A k \in 1..n : seqs[k] \in Seq(T)
    BY <1>2
  <2>1. PICK f : Flattens(f, n, seqs) /\ FlattenSeq(seqs) = f[n]
    BY <2>0, FlattenTrace
  <2> DEFINE S == {k \in 0..n : k = 0 \/ f[k] \in Seq(T)}
  <2>2. 0 \in S
    BY <2>0
  <2>3. ASSUME NEW k \in 0..n, k \in S, k < n
        PROVE  k + 1 \in S
    <3>1. PICK j \in 1..n : j = k + 1
      BY <2>0, <2>3
    <3>2. /\ j = 1 => f[j] = seqs[j]
          /\ j # 1 => f[j] = f[j - 1] \o seqs[j]
      BY <2>1 DEF Flattens
    <3>3. j - 1 = k /\ j \in 0..n /\ seqs[j] \in Seq(T) /\ (j # 1 => f[k] \in Seq(T))
      BY <2>0, <2>3, <3>1
    <3> HIDE DEF n
    <3>4. f[j] \in Seq(T)
      <4>1. CASE j = 1
        BY <3>2, <3>3, <4>1
      <4>2. CASE j # 1
        <5>1. f[j] = f[k] \o seqs[j]
          BY <3>2, <3>3, <4>2
        <5> QED BY <3>3, <4>2, <5>1
      <4> QED BY <4>1, <4>2
    <3> QED BY <3>1, <3>3, <3>4
  <2>4. n \in 0..n
    BY <2>0
  <2> HIDE DEF S, n
  <2>5. n \in S
    BY <2>0, <2>2, <2>3, <2>4, UpTo
  <2> QED BY <2>0, <2>1, <2>5 DEF S
<1> QED BY <1>1, <1>2

(* What is in one of the sequences is in their concatenation. *)
LEMMA FlattenKeeps ==
  ASSUME NEW T, NEW seqs \in Seq(Seq(T)), NEW m \in 1..Len(seqs), NEW i \in 1..Len(seqs[m])
  PROVE  \E j \in 1..Len(FlattenSeq(seqs)) : FlattenSeq(seqs)[j] = seqs[m][i]
<1> DEFINE n == Len(seqs)
           Has(q) == \E j \in 1..Len(q) : q[j] = seqs[m][i]
<1>0. n \in Nat \ {0} /\ \A k \in 1..n : seqs[k] \in Seq(T)
  OBVIOUS
<1>1. PICK f : Flattens(f, n, seqs) /\ FlattenSeq(seqs) = f[n]
  BY <1>0, FlattenTrace
<1> DEFINE S == {k \in 0..n : (k = 0 \/ f[k] \in Seq(T)) /\ (k < m \/ Has(f[k]))}
<1>2. 0 \in S
  BY <1>0
<1>3. ASSUME NEW k \in 0..n, k \in S, k < n
      PROVE  k + 1 \in S
  <2>1. PICK l \in 1..n : l = k + 1
    BY <1>0, <1>3
  <2>2. /\ l = 1 => f[l] = seqs[l]
        /\ l # 1 => f[l] = f[l - 1] \o seqs[l]
    BY <1>1 DEF Flattens
  <2>3. /\ l - 1 = k /\ l \in 0..n /\ seqs[l] \in Seq(T)
        /\ l # 1 => f[k] \in Seq(T) /\ f[l] = f[k] \o seqs[l]
        /\ k < m \/ Has(f[k])
    <3>1. (k = 0 \/ f[k] \in Seq(T)) /\ (k < m \/ Has(f[k]))
      BY <1>3
    <3> HIDE DEF Has, S
    <3>2. l - 1 = k /\ l \in 0..n /\ seqs[l] \in Seq(T)
      BY <1>0, <2>1
    <3>3. l # 1 => k # 0
      BY <2>1, <3>2
    <3> QED BY <2>2, <3>1, <3>2, <3>3
  <2>4. l = m => Has(seqs[l])
    OBVIOUS
  <2>5. k < m => l < m \/ l = m
    BY <1>0, <2>1
  <2> HIDE DEF n
  <2>6. f[l] \in Seq(T) /\ (l < m \/ Has(f[l]))
    <3>1. CASE l = 1
      <4>1. f[l] = seqs[l]
        BY <2>2, <3>1
      <4>2. l < m \/ l = m
        BY <3>1
      <4> QED BY <2>3, <2>4, <4>1, <4>2
    <3>2. CASE l # 1
      <4>1. \A q, r \in Seq(T) : Has(q) => Has(q \o r)
        <5> SUFFICES ASSUME NEW q \in Seq(T), NEW r \in Seq(T), Has(q)
                     PROVE  Has(q \o r)
          OBVIOUS
        <5>1. PICK j \in 1..Len(q) : q[j] = seqs[m][i]
          OBVIOUS
        <5>2. j \in 1..Len(q \o r) /\ (q \o r)[j] = q[j]
          OBVIOUS
        <5> QED BY <5>1, <5>2
      <4>2. \A q, r \in Seq(T) : Has(r) => Has(q \o r)
        <5> SUFFICES ASSUME NEW q \in Seq(T), NEW r \in Seq(T), Has(r)
                     PROVE  Has(q \o r)
          OBVIOUS
        <5>1. PICK j \in 1..Len(r) : r[j] = seqs[m][i]
          OBVIOUS
        <5>2. Len(q) + j \in 1..Len(q \o r) /\ (q \o r)[Len(q) + j] = r[j]
          OBVIOUS
        <5> QED BY <5>1, <5>2
      <4>3. f[k] \in Seq(T) /\ f[l] = f[k] \o seqs[l] /\ seqs[l] \in Seq(T)
        BY <2>3, <3>2
      <4> HIDE DEF Has
      <4>4. f[l] \in Seq(T)
        BY <4>3
      <4> QED BY <2>3, <2>4, <2>5, <4>1, <4>2, <4>3, <4>4
    <3> QED BY <3>1, <3>2
  <2> QED BY <2>1, <2>3, <2>6
<1>4. n \in 0..n /\ ~ (n < m)
  BY <1>0
<1> HIDE DEF S, n, Has
<1>5. n \in S
  BY <1>0, <1>2, <1>3, <1>4, UpTo
<1>6. Has(f[n])
  BY <1>4, <1>5 DEF S
<1> QED BY <1>1, <1>6 DEF Has

(* Recommendations, statements and ARNs, the latter never empty. *)
Recommendations == Seq(Seq(Seq(Arns) \ {<<>>}))

(* The statements of one recommendation, and of each. *)
OfOne(rec) == [i \in DOMAIN rec |-> StatementOf(i, rec[i])]
OfEach(recs) == [k \in DOMAIN recs |-> OfOne(recs[k])]

(* A statement is made of one of the ARNs that were recommended for it. *)
Recommended(recs, s) ==
  \E k \in DOMAIN recs : \E i \in DOMAIN recs[k] :
    \E arn \in ToSet(recs[k][i]) : arn.resource = s.resource /\ arn.object = s.object

(* What is known of a statement of recommendations. *)
StatementsFor(recs) == {s \in Statement : Recommended(recs, s)}

(* The last ARN of a statement is one of it. *)
LEMMA StatementOfTyped ==
  ASSUME NEW arns \in Seq(Arns) \ {<<>>}, NEW i \in Nat \ {0}
  PROVE  /\ StatementOf(i, arns) \in Statement
         /\ \E arn \in ToSet(arns) : /\ arn \in Arns
                                     /\ arn.resource = StatementOf(i, arns).resource
                                     /\ arn.object = StatementOf(i, arns).object
<1>1. Len(arns) \in DOMAIN arns /\ Last(arns) = arns[Len(arns)]
  BY DEF Last
<1>2. Last(arns) \in ToSet(arns) /\ Last(arns) \in Arns
  BY <1>1 DEF ToSet
<1>3. /\ StatementOf(i, arns).resource = Last(arns).resource
      /\ StatementOf(i, arns).object = Last(arns).object
      /\ i - 1 \in Nat
  BY DEF StatementOf
<1>4. StatementOf(i, arns) \in Statement
  BY <1>2, <1>3 DEF StatementOf, Statement, Arns
<1> QED BY <1>2, <1>3, <1>4

(* The statements of each recommendation are made of its ARNs. *)
LEMMA OfEachTyped ==
  ASSUME NEW recs \in Recommendations
  PROVE  /\ OfEach(recs) \in Seq(Seq(StatementsFor(recs)))
         /\ DOMAIN OfEach(recs) = DOMAIN recs
         /\ \A k \in DOMAIN recs : /\ DOMAIN OfEach(recs)[k] = DOMAIN recs[k]
                                  /\ OfEach(recs)[k] \in Seq(StatementsFor(recs))
<1>1. DOMAIN recs = 1..Len(recs) /\ Len(recs) \in Nat
  BY DEF Recommendations
<1>2. ASSUME NEW k \in DOMAIN recs
      PROVE  OfOne(recs[k]) \in Seq(StatementsFor(recs)) /\ DOMAIN OfOne(recs[k]) = DOMAIN recs[k]
  <2>1. recs[k] \in Seq(Seq(Arns) \ {<<>>})
    BY DEF Recommendations
  <2>2. DOMAIN recs[k] = 1..Len(recs[k]) /\ Len(recs[k]) \in Nat
    BY <2>1
  <2>3. ASSUME NEW i \in DOMAIN recs[k]
        PROVE  StatementOf(i, recs[k][i]) \in StatementsFor(recs)
    <3>1. recs[k][i] \in Seq(Arns) \ {<<>>} /\ i \in Nat \ {0}
      BY <2>1, <2>2, <2>3
    <3> QED BY <3>1, StatementOfTyped DEF StatementsFor, Recommended
  <2> QED BY <2>2, <2>3 DEF OfOne
<1> QED BY <1>1, <1>2 DEF OfEach

(* Statements flattens them. *)
LEMMA StatementsFlatten ==
  ASSUME NEW recs
  PROVE  Statements(recs) = FlattenSeq(OfEach(recs))
BY DEF Statements, OfEach, OfOne

(* The statements of any recommendations are statements of their ARNs. *)
LEMMA StatementsTyped ==
  ASSUME NEW recs \in Recommendations
  PROVE  /\ Statements(recs) \in Seq(Statement)
         /\ Statements(recs) \in Seq(StatementsFor(recs))
<1>1. Statements(recs) \in Seq(StatementsFor(recs))
  BY OfEachTyped, StatementsFlatten, FlattenTypes
<1>2. StatementsFor(recs) \subseteq Statement
  BY DEF StatementsFor
<1> QED BY <1>1, <1>2

(* No statement is left out. *)
LEMMA StatementsAll ==
  ASSUME NEW recs \in Recommendations, NEW k \in DOMAIN recs, NEW i \in DOMAIN recs[k]
  PROVE  \E j \in 1..Len(Statements(recs)) : Statements(recs)[j] = StatementOf(i, recs[k][i])
<1>1. /\ OfEach(recs) \in Seq(Seq(StatementsFor(recs)))
      /\ k \in 1..Len(OfEach(recs)) /\ i \in 1..Len(OfEach(recs)[k])
  BY OfEachTyped
<1>2. OfEach(recs)[k][i] = StatementOf(i, recs[k][i])
  BY DEF OfEach, OfOne
<1>3. PICK j \in 1..Len(FlattenSeq(OfEach(recs))) : FlattenSeq(OfEach(recs))[j] = OfEach(recs)[k][i]
  BY <1>1, FlattenKeeps
<1> QED BY <1>2, <1>3, StatementsFlatten

-----------------------------------------------------------------------------
(* One statement. *)
Declared == [Modules -> [Addresses -> Nat]]

(* The types of the parts of a tree. *)
Arguments == [Modules -> [Addresses -> Expressions \cup {None}]]

(* The types of the parts of a project. *)
LEMMA LayoutTypes ==
  ASSUME project \in Projects
  PROVE  /\ \A r \in Roles : project.home[r] \in Places \cup {None}
         /\ \A x \in Resources : project.home[x] \in Places \cup {None, Unlabelled}
         /\ project.address \in [Resources -> Labels]
         /\ \A a \in Attachments : project.home[a] \in Places \cup {None}
         /\ project.attached \in [Attachments -> SUBSET Roles]
         /\ project.literal \in BOOLEAN
<1>1. project \in Project
  BY ProjectsAssumption
<1>2. \A k \in Roles \cup Attachments : project.home[k] # Unlabelled
  BY ProjectsAssumption
<1> QED BY <1>1, <1>2 DEF Project

(* Outputs and variables are those of modules, and references are expressions. *)
LEMMA PlumbingTypes ==
  ASSUME project \in Projects, NEW role \in Roles, NEW x \in Resources,
         project.home[role] # None
  PROVE  /\ Exported(role, x) => BlockPlace(x) \in Modules
         /\ Imported(role, x) => project.home[role] \in Modules
         /\ AddressInFile(x) \in Addresses
         /\ Value(role, x) \in Expressions
         /\ Reference(role, x) \in Expressions
<1>1. BlockPlace(x) \in Places \cup {None} /\ project.home[role] \in Places
  BY LayoutTypes DEF BlockPlace, Places
<1>2. Exported(role, x) => BlockPlace(x) \in Modules
  BY <1>1 DEF Exported, Places
<1>3. Imported(role, x) => project.home[role] \in Modules
  BY <1>1 DEF Imported, Places
<1>4. AddressInFile(x) \in Addresses
  BY LayoutTypes DEF AddressInFile, Addresses
<1>5. Value(role, x) \in Expressions
  BY <1>2, <1>4 DEF Value, Expressions
<1>6. Reference(role, x) \in Expressions
  <2>1. [kind |-> "arn", of |-> x] \in Expressions
    BY DEF Expressions
  <2>2. [kind |-> "variable", of |-> AddressInFile(x)] \in Expressions
    BY <1>4 DEF Expressions
  <2> QED BY <1>5, <2>1, <2>2 DEF Reference
<1> QED BY <1>2, <1>3, <1>4, <1>5, <1>6

(* What a statement becomes is a policy. *)
LEMMA PolicyTypes ==
  ASSUME project \in Projects, NEW role \in Roles, project.home[role] # None, NEW s \in Statement
  PROVE  /\ PolicyOf(role, s) \in Policies
         /\ PolicyOf(role, s).name = s.name
         /\ PolicyOf(role, s).to = Reference(role, s.resource)
         /\ PolicyOf(role, s).object = JoinedObject(role, s)
<1>1. s.resource \in Resources /\ s.name \in Nat /\ s.object \in Objects
  BY DEF Statement
<1>2. JoinedObject(role, s) \in Objects
  BY <1>1, ConstantsAssumption DEF JoinedObject
<1>3. Reference(role, s.resource) \in Expressions
  BY <1>1, PlumbingTypes
<1> QED BY <1>1, <1>2, <1>3 DEF PolicyOf, Policies

(* One declaration is appended, and only where there is none. *)
LEMMA AppendDeclares ==
  ASSUME NEW d \in Declared, NEW m \in Modules, NEW a \in Addresses
  PROVE  /\ AppendOutputBlockIfNotExist(d, m, a) \in Declared
         /\ AppendVariableBlockIfNotExist(d, m, a) \in Declared
         /\ \A n \in Modules, b \in Addresses :
              /\ AppendOutputBlockIfNotExist(d, m, a)[n][b]
                   = IF n = m /\ b = a /\ d[n][b] = 0 THEN 1 ELSE d[n][b]
              /\ AppendVariableBlockIfNotExist(d, m, a)[n][b]
                   = IF n = m /\ b = a /\ d[n][b] = 0 THEN 1 ELSE d[n][b]
BY DEF AppendOutputBlockIfNotExist, AppendVariableBlockIfNotExist, Declared

(* What one statement does to each part of a tree. *)
LEMMA PlumbParts ==
  ASSUME project \in Projects, NEW role \in Roles, NEW s \in Statement, NEW x, x = s.resource,
         project.home[role] # None, NEW t \in Tree,
         NEW u, u = PlumbStatement(t, role, s)
  PROVE  /\ u \in Tree
         /\ u.attached = t.attached
         /\ u.inline[role] = t.inline[role] \cup {PolicyOf(role, s)}
         /\ \A r \in Roles \ {role} : u.inline[r] = t.inline[r]
         /\ \A m \in Modules, a \in Addresses :
              /\ u.outputs[m][a] =
                   IF Exported(role, x) /\ m = BlockPlace(x) /\ a = AddressInFile(x)
                      /\ t.outputs[m][a] = 0 THEN 1 ELSE t.outputs[m][a]
              /\ u.variables[m][a] =
                   IF Imported(role, x) /\ m = project.home[role] /\ a = AddressInFile(x)
                      /\ t.variables[m][a] = 0 THEN 1 ELSE t.variables[m][a]
              /\ u.args[m][a] =
                   IF Imported(role, x) /\ m = project.home[role] /\ a = AddressInFile(x)
                   THEN Value(role, x) ELSE t.args[m][a]
<1> DEFINE address == AddressInFile(x)
           m0 == project.home[role]
           outputs == IF Exported(role, x) THEN AppendOutputBlockIfNotExist(t.outputs, BlockPlace(x), address)
                      ELSE t.outputs
           variables == IF Imported(role, x) THEN AppendVariableBlockIfNotExist(t.variables, m0, address)
                        ELSE t.variables
           args == IF Imported(role, x) THEN [t.args EXCEPT ![m0][address] = Value(role, x)]
                   ELSE t.args
           policy == PolicyOf(role, s)
           inline == [t.inline EXCEPT ![role] = @ \cup {policy}]
<1>0. x \in Resources
  BY DEF Statement
<1>1. /\ t.inline \in [Roles -> SUBSET Policies] /\ t.attached \in [Attachments -> SUBSET Roles]
      /\ t.outputs \in Declared /\ t.variables \in Declared /\ t.args \in Arguments
  BY DEF Tree, Declared, Arguments
<1>2. u = [inline |-> inline, attached |-> t.attached, args |-> args,
           outputs |-> outputs, variables |-> variables]
  <2>1. t = [inline |-> t.inline, attached |-> t.attached, args |-> t.args,
             outputs |-> t.outputs, variables |-> t.variables]
    BY DEF Tree
  <2> QED BY <2>1 DEF PlumbStatement
<1>3. outputs \in Declared /\
      \A m \in Modules, a \in Addresses :
        outputs[m][a] = IF Exported(role, x) /\ m = BlockPlace(x) /\ a = address
                           /\ t.outputs[m][a] = 0 THEN 1 ELSE t.outputs[m][a]
  <2>1. (Exported(role, x) => BlockPlace(x) \in Modules) /\ address \in Addresses
    BY <1>0, PlumbingTypes
  <2> HIDE DEF address, m0
  <2>2. CASE Exported(role, x)
    <3>1. outputs = AppendOutputBlockIfNotExist(t.outputs, BlockPlace(x), address)
      BY <2>2
    <3>2. BlockPlace(x) \in Modules /\ t.outputs \in Declared
      BY <1>1, <2>1, <2>2
    <3> HIDE DEF outputs
    <3> QED BY <2>1, <2>2, <3>1, <3>2, AppendDeclares
  <2>3. CASE ~ Exported(role, x)
    BY <1>1, <2>3
  <2> QED BY <2>2, <2>3
<1>4. variables \in Declared /\
      \A m \in Modules, a \in Addresses :
        variables[m][a] = IF Imported(role, x) /\ m = m0 /\ a = address
                             /\ t.variables[m][a] = 0 THEN 1 ELSE t.variables[m][a]
  <2>1. (Imported(role, x) => m0 \in Modules) /\ address \in Addresses
    BY <1>0, PlumbingTypes
  <2> HIDE DEF address, m0
  <2>2. CASE Imported(role, x)
    <3>1. variables = AppendVariableBlockIfNotExist(t.variables, m0, address)
      BY <2>2
    <3>2. m0 \in Modules /\ t.variables \in Declared
      BY <1>1, <2>1, <2>2
    <3> HIDE DEF variables
    <3> QED BY <2>1, <2>2, <3>1, <3>2, AppendDeclares
  <2>3. CASE ~ Imported(role, x)
    BY <1>1, <2>3
  <2> QED BY <2>2, <2>3
<1>5. args \in Arguments /\
      \A m \in Modules, a \in Addresses :
        args[m][a] = IF Imported(role, x) /\ m = m0 /\ a = address
                     THEN Value(role, x) ELSE t.args[m][a]
  <2>1. /\ Imported(role, x) => m0 \in Modules
        /\ address \in Addresses /\ Value(role, x) \in Expressions \cup {None}
    BY <1>0, PlumbingTypes
  <2> HIDE DEF address, m0
  <2>2. CASE Imported(role, x)
    <3>1. args = [t.args EXCEPT ![m0][address] = Value(role, x)]
      BY <2>2
    <3> QED BY <1>1, <2>1, <2>2, <3>1 DEF Arguments
  <2>3. CASE ~ Imported(role, x)
    BY <1>1, <2>3
  <2> QED BY <2>2, <2>3
<1>6. inline \in [Roles -> SUBSET Policies]
      /\ inline[role] = t.inline[role] \cup {policy}
      /\ \A r \in Roles \ {role} : inline[r] = t.inline[r]
  <2>1. policy \in Policies
    BY PolicyTypes
  <2> HIDE DEF policy
  <2> QED BY <1>1, <2>1
<1> HIDE DEF outputs, variables, args, inline
<1>7. u \in Tree
  BY <1>1, <1>2, <1>3, <1>4, <1>5, <1>6 DEF Tree, Declared, Arguments
<1>8. /\ u.inline = inline /\ u.attached = t.attached /\ u.args = args
      /\ u.outputs = outputs /\ u.variables = variables
  BY <1>2
<1> HIDE DEF address, m0, policy
<1> QED BY <1>3, <1>4, <1>5, <1>6, <1>7, <1>8 DEF address, m0, policy

-----------------------------------------------------------------------------
(* References that Terraform resolves. *)

(* Modules are called from main.tf, the only structure of a project that    *)
(* the applier supports (the comment of terraform.go:576).                  *)
Flat == \A m \in Modules : Parent[m] = Root

(* And no two resources of the project have one address. *)
Supported == Flat /\ AddressesApart

(* The files have what the role's reference to x goes through. *)
Plumbed(tree, role, x) ==
  /\ Exported(role, x) => tree.outputs[BlockPlace(x)][AddressInFile(x)] = 1
  /\ Imported(role, x) =>
       /\ tree.variables[project.home[role]][AddressInFile(x)] = 1
       /\ tree.args[project.home[role]][AddressInFile(x)] = Value(role, x)

(* No output and no variable is declared twice. *)
Once(tree) == \A m \in Modules, a \in Addresses : tree.outputs[m][a] <= 1 /\ tree.variables[m][a] <= 1

(* What a reference to x stands for: the empty address is nobody's. *)
Reached(x) == IF project.home[x] = Unlabelled THEN {} ELSE {x}

(* An address in a module is that of one resource. *)
LEMMA LocatedAlone ==
  ASSUME project \in Projects, NEW x \in Resources, BlockPlace(x) # None
  PROVE  Located(BlockPlace(x), AddressInFile(x)) = Reached(x)
<1>1. project.home[x] \in Places \cup {Unlabelled} /\ Unlabelled \notin Places
  BY LayoutTypes, ConstantsAssumption DEF BlockPlace
<1>2. CASE project.home[x] = Unlabelled
  <2>1. AddressInFile(x) = None /\ \A y \in Resources : project.address[y] # None
    BY <1>1, <1>2, LayoutTypes, ConstantsAssumption DEF AddressInFile
  <2> QED BY <1>2, <2>1 DEF Located, Reached
<1>3. CASE project.home[x] \in Places
  <2>1. BlockPlace(x) = project.home[x] /\ AddressInFile(x) = project.address[x]
    BY <1>1, <1>3 DEF BlockPlace, AddressInFile
  <2> QED BY <1>1, <1>3, <2>1, ProjectsAssumption DEF Located, Reached
<1> QED BY <1>1, <1>2, <1>3

(* Two arguments of a module with one address have one value. *)
LEMMA ValuesAgree ==
  ASSUME project \in Projects, Supported, NEW role \in Roles, NEW r \in Roles,
         NEW x \in Resources, NEW y \in Resources,
         project.home[r] = project.home[role], Imported(role, x), Imported(r, y),
         AddressInFile(y) = AddressInFile(x)
  PROVE  Value(role, x) = Value(r, y)
<1>1. \A z \in Resources : BlockPlace(z) # None =>
        /\ project.home[z] \in Places \cup {Unlabelled}
        /\ project.home[z] \in Places => AddressInFile(z) = project.address[z] /\ AddressInFile(z) # None
        /\ project.home[z] = Unlabelled => AddressInFile(z) = None /\ BlockPlace(z) = Root
  BY LayoutTypes, ConstantsAssumption DEF BlockPlace, AddressInFile
<1>2. BlockPlace(x) # None /\ BlockPlace(y) # None
  BY DEF Imported
<1>3. CASE project.home[x] \in Places
  <2>1. project.home[y] \in Places /\ project.address[y] = project.address[x]
    BY <1>1, <1>2, <1>3
  <2>2. x = y
    BY <1>3, <2>1 DEF Supported, AddressesApart
  <2> QED BY <2>2 DEF Value, Exported
<1>4. CASE project.home[x] = Unlabelled
  <2>1. BlockPlace(x) = Root /\ BlockPlace(y) = Root
    BY <1>1, <1>2, <1>4
  <2> QED BY <2>1 DEF Value, Exported
<1> QED BY <1>1, <1>2, <1>3, <1>4

(* An argument's value stands for the resource meant, through the output. *)
LEMMA ValueResolves ==
  ASSUME project \in Projects, Supported, NEW role \in Roles, NEW x \in Resources,
         project.home[role] # None, BlockPlace(x) # None, NEW t,
         NEW place, Exported(role, x) => place = Root /\ t.outputs[BlockPlace(x)][AddressInFile(x)] = 1,
         ~ Exported(role, x) => place = BlockPlace(x)
  PROVE  ResolveValue(t, place, Value(role, x)) = Reached(x)
<1>1. Value(role, x) # None
  BY PlumbingTypes, NoneAssumption
<1>2. CASE Exported(role, x)
  <2>1. Value(role, x).kind = "output" /\ Value(role, x).of = AddressInFile(x)
        /\ Value(role, x).module = BlockPlace(x)
    BY <1>2 DEF Value
  <2>2. Parent[BlockPlace(x)] = Root
    BY <1>2, PlumbingTypes DEF Supported, Flat
  <2> QED BY <1>1, <1>2, <2>1, <2>2, LocatedAlone DEF ResolveValue
<1>3. CASE ~ Exported(role, x)
  <2>1. Value(role, x).kind = "address" /\ Value(role, x).of = AddressInFile(x)
    BY <1>3 DEF Value
  <2> QED BY <1>1, <1>3, <2>1, LocatedAlone DEF ResolveValue
<1> QED BY <1>2, <1>3

(* A reference stands for the resource meant. *)
LEMMA ReferenceResolves ==
  ASSUME project \in Projects, Supported, NEW role \in Roles, NEW x \in Resources,
         project.home[role] # None, NEW t, Plumbed(t, role, x)
  PROVE  Resolve(t, project.home[role], Reference(role, x)) = Reached(x)
<1>0. Reference(role, x) # None
  BY PlumbingTypes, NoneAssumption
<1>1. CASE BlockPlace(x) = None
  <2>1. Reference(role, x).kind = "arn" /\ Reference(role, x).of = x
    BY <1>1 DEF Reference, Imported
  <2>2. Reached(x) = {x}
    BY <1>1, ConstantsAssumption DEF BlockPlace, Reached, Places
  <2> QED BY <1>0, <2>1, <2>2 DEF Resolve, ResolveValue
<1>2. CASE BlockPlace(x) # None /\ Imported(role, x)
  <2>1. Reference(role, x).kind = "variable" /\ Reference(role, x).of = AddressInFile(x)
    BY <1>2 DEF Reference
  <2>2. Parent[project.home[role]] = Root
    BY <1>2, PlumbingTypes DEF Supported, Flat
  <2>3. ResolveValue(t, Root, Value(role, x)) = Reached(x)
    <3>1. Exported(role, x) => t.outputs[BlockPlace(x)][AddressInFile(x)] = 1
      BY DEF Plumbed
    <3>2. ~ Exported(role, x) => Root = BlockPlace(x)
      BY <1>2 DEF Exported, Imported
    <3> QED BY <1>2, <3>1, <3>2, ValueResolves
  <2> QED BY <1>0, <1>2, <2>1, <2>2, <2>3 DEF Resolve, Plumbed
<1>3. CASE BlockPlace(x) # None /\ ~ Imported(role, x)
  <2>1. Reference(role, x) = Value(role, x)
    BY <1>3 DEF Reference
  <2>2. Value(role, x).kind # "variable"
    BY DEF Value
  <2>3. ResolveValue(t, project.home[role], Value(role, x)) = Reached(x)
    <3>1. Exported(role, x) => project.home[role] = Root /\ t.outputs[BlockPlace(x)][AddressInFile(x)] = 1
      BY <1>3 DEF Plumbed, Exported, Imported
    <3>2. ~ Exported(role, x) => project.home[role] = BlockPlace(x)
      BY <1>3 DEF Exported, Imported
    <3> QED BY <1>3, <3>1, <3>2, ValueResolves
  <2> QED BY <2>1, <2>2, <2>3 DEF Resolve
<1> QED BY <1>1, <1>2, <1>3

(* A statement plumbs its resource, and keeps what others go through. *)
LEMMA PlumbPlumbs ==
  ASSUME project \in Projects, Supported, NEW role \in Roles, NEW s \in Statement,
         NEW x, x = s.resource,
         project.home[role] # None, NEW t \in Tree, Once(t),
         NEW u, u = PlumbStatement(t, role, s)
  PROVE  /\ Once(u)
         /\ Plumbed(u, role, x)
         /\ \A r \in Roles, y \in Resources :
              project.home[r] # None /\ Plumbed(t, r, y) => Plumbed(u, r, y)
<1>0. x \in Resources
  BY DEF Statement
<1>1. \A m \in Modules, a \in Addresses : t.outputs[m][a] \in {0, 1} /\ t.variables[m][a] \in {0, 1}
  <2> SUFFICES ASSUME NEW m \in Modules, NEW a \in Addresses
               PROVE  t.outputs[m][a] \in {0, 1} /\ t.variables[m][a] \in {0, 1}
    OBVIOUS
  <2>1. t.outputs[m][a] \in Nat /\ t.variables[m][a] \in Nat
    BY DEF Tree
  <2>2. t.outputs[m][a] <= 1 /\ t.variables[m][a] <= 1
    BY DEF Once
  <2>3. \A n \in Nat : n <= 1 => n \in {0, 1}
    OBVIOUS
  <2> QED BY <2>1, <2>2, <2>3
<1>2. /\ \A m \in Modules, a \in Addresses :
           /\ u.outputs[m][a] =
                IF Exported(role, x) /\ m = BlockPlace(x) /\ a = AddressInFile(x)
                   /\ t.outputs[m][a] = 0 THEN 1 ELSE t.outputs[m][a]
           /\ u.variables[m][a] =
                IF Imported(role, x) /\ m = project.home[role] /\ a = AddressInFile(x)
                   /\ t.variables[m][a] = 0 THEN 1 ELSE t.variables[m][a]
           /\ u.args[m][a] =
                IF Imported(role, x) /\ m = project.home[role] /\ a = AddressInFile(x)
                THEN Value(role, x) ELSE t.args[m][a]
  BY PlumbParts
<1>3. Once(u)
  BY <1>1, <1>2 DEF Once
<1>4. Plumbed(u, role, x)
  BY <1>0, <1>1, <1>2, PlumbingTypes DEF Plumbed
<1>5. ASSUME NEW r \in Roles, NEW y \in Resources, project.home[r] # None, Plumbed(t, r, y)
      PROVE  Plumbed(u, r, y)
  <2>1. /\ Exported(r, y) => BlockPlace(y) \in Modules
        /\ Imported(r, y) => project.home[r] \in Modules
        /\ AddressInFile(y) \in Addresses
    BY <1>5, PlumbingTypes
  <2>2. Exported(r, y) => u.outputs[BlockPlace(y)][AddressInFile(y)] = 1
    BY <1>2, <1>5, <2>1 DEF Plumbed
  <2>3. Imported(r, y) => u.variables[project.home[r]][AddressInFile(y)] = 1
    BY <1>2, <1>5, <2>1 DEF Plumbed
  <2>4. ASSUME Imported(r, y)
        PROVE  u.args[project.home[r]][AddressInFile(y)] = Value(r, y)
    <3>1. CASE Imported(role, x) /\ project.home[r] = project.home[role] /\ AddressInFile(y) = AddressInFile(x)
      <4>1. Value(role, x) = Value(r, y)
        BY <1>0, <2>4, <3>1, ValuesAgree
      <4> QED BY <1>2, <2>1, <2>4, <3>1, <4>1
    <3>2. CASE ~(Imported(role, x) /\ project.home[r] = project.home[role] /\ AddressInFile(y) = AddressInFile(x))
      BY <1>2, <1>5, <2>1, <2>4, <3>2 DEF Plumbed
    <3> QED BY <3>1, <3>2
  <2> QED BY <2>2, <2>3, <2>4 DEF Plumbed
<1> QED BY <1>3, <1>4, <1>5

-----------------------------------------------------------------------------
(* A finding applied to a tree. *)

(* Every policy and argument is the user's or one that a plan makes. *)
Known(t) ==
  /\ \A r \in Roles : \A p \in t.inline[r] :
       \/ p = OwnPolicy
       \/ project.home[r] # None /\ \E s \in Statement : p = PolicyOf(r, s)
  /\ \A m \in Modules, a \in Addresses :
       \/ t.args[m][a] = None
       \/ \E r \in Roles, x \in Resources :
            /\ m = project.home[r] /\ m # None /\ a = AddressInFile(x)
            /\ Imported(r, x) /\ t.args[m][a] = Value(r, x)

(* What a plan of one role leaves alone. *)
KeepsOthers(role, t, u) ==
  /\ u \in Tree
  /\ Known(t) => Known(u)
  /\ u.attached = t.attached
  /\ \A r \in Roles \ {role} : u.inline[r] = t.inline[r]
  /\ Once(t) => Once(u)

(* The first statements of stmts, up to k, are in the role's policies. *)
Made(role, t, u, stmts, k) ==
  /\ u.inline[role] = {PolicyOf(role, stmts[i]) : i \in 1..k}
  /\ \A i \in 1..k : Plumbed(u, role, stmts[i].resource)
  /\ \A r \in Roles, y \in Resources : project.home[r] # None /\ Plumbed(t, r, y) => Plumbed(u, r, y)

(* One statement leaves the other roles alone. *)
LEMMA PlumbKeepsOthers ==
  ASSUME project \in Projects, NEW role \in Roles, project.home[role] # None,
         NEW s \in Statement, NEW t \in Tree, NEW u, u = PlumbStatement(t, role, s)
  PROVE  KeepsOthers(role, t, u)
<1>1. s.resource \in Resources /\ s.name \in Nat
  BY DEF Statement
<1>3. /\ u \in Tree
      /\ u.attached = t.attached
      /\ \A r \in Roles \ {role} : u.inline[r] = t.inline[r]
      /\ \A m \in Modules, a \in Addresses :
           /\ u.outputs[m][a] = 1 \/ u.outputs[m][a] = t.outputs[m][a]
           /\ u.variables[m][a] = 1 \/ u.variables[m][a] = t.variables[m][a]
           /\ \/ u.args[m][a] = t.args[m][a]
              \/ /\ Imported(role, s.resource) /\ m = project.home[role]
                 /\ a = AddressInFile(s.resource) /\ u.args[m][a] = Value(role, s.resource)
  BY <1>1, PlumbParts
<1>4. u.inline[role] = t.inline[role] \cup {PolicyOf(role, s)}
  BY PlumbParts
<1>5. ASSUME Known(t), NEW r \in Roles, NEW p \in u.inline[r]
      PROVE  \/ p = OwnPolicy
             \/ project.home[r] # None /\ \E z \in Statement : p = PolicyOf(r, z)
  <2>1. CASE p \in t.inline[r]
    BY <1>5, <2>1 DEF Known
  <2>2. CASE p \notin t.inline[r]
    <3>1. r = role /\ p = PolicyOf(r, s)
      BY <1>3, <1>4, <1>5, <2>2
    <3> QED BY <3>1
  <2> QED BY <2>1, <2>2
<1>6. ASSUME Known(t), NEW m \in Modules, NEW a \in Addresses
      PROVE  \/ u.args[m][a] = None
             \/ \E r \in Roles, x \in Resources :
                  /\ m = project.home[r] /\ m # None /\ a = AddressInFile(x)
                  /\ Imported(r, x) /\ u.args[m][a] = Value(r, x)
  BY <1>1, <1>3, <1>6 DEF Known
<1>7. Known(t) => Known(u)
  BY <1>5, <1>6 DEF Known
<1> QED BY <1>3, <1>7 DEF KeepsOthers, Once

(* One statement adds its policy to those of the statements before it. *)
LEMMA PlumbMakes ==
  ASSUME project \in Projects, Supported, NEW role \in Roles, project.home[role] # None,
         NEW stmts \in Seq(Statement), NEW k \in 1..Len(stmts),
         NEW before, NEW t \in Tree, Once(t), Made(role, before, t, stmts, k - 1),
         NEW u, u = PlumbStatement(t, role, stmts[k])
  PROVE  Made(role, before, u, stmts, k)
<1>1. stmts[k] \in Statement
  OBVIOUS
<1>4. u.inline[role] = t.inline[role] \cup {PolicyOf(role, stmts[k])}
  BY <1>1, PlumbParts
<1>5. /\ Plumbed(u, role, stmts[k].resource)
      /\ \A r \in Roles, y \in Resources : project.home[r] # None /\ Plumbed(t, r, y) => Plumbed(u, r, y)
  BY <1>1, PlumbPlumbs
<1>6. 1..k = 1..(k - 1) \cup {k} /\ \A i \in 1..k : stmts[i] \in Statement
  OBVIOUS
<1>7. {PolicyOf(role, stmts[i]) : i \in 1..k}
        = {PolicyOf(role, stmts[i]) : i \in 1..(k - 1)} \cup {PolicyOf(role, stmts[k])}
  BY <1>6
<1>8. \A i \in 1..k : stmts[i].resource \in Resources
  BY <1>6 DEF Statement
<1> QED BY <1>4, <1>5, <1>6, <1>7, <1>8 DEF Made

(* Removing the policies of a role leaves all else alone. *)
LEMMA Emptied ==
  ASSUME NEW role \in Roles, NEW t \in Tree, NEW u, u = WithoutPolicies(t, role)
  PROVE  /\ KeepsOthers(role, t, u)
         /\ u.inline[role] = {}
         /\ u.outputs = t.outputs /\ u.variables = t.variables /\ u.args = t.args
<1>1. t = [inline |-> t.inline, attached |-> t.attached, args |-> t.args,
           outputs |-> t.outputs, variables |-> t.variables]
  BY DEF Tree
<1> DEFINE inline == [t.inline EXCEPT ![role] = {}]
<1>2. u = [inline |-> inline, attached |-> t.attached, args |-> t.args,
           outputs |-> t.outputs, variables |-> t.variables]
  BY <1>1 DEF WithoutPolicies
<1>3. /\ inline \in [Roles -> SUBSET Policies] /\ inline[role] = {}
      /\ \A r \in Roles \ {role} : inline[r] = t.inline[r]
  BY DEF Tree
<1> HIDE DEF inline
<1>4. u \in Tree
  <2>1. /\ t.attached \in [Attachments -> SUBSET Roles]
        /\ t.args \in [Modules -> [Addresses -> Expressions \cup {None}]]
        /\ t.outputs \in [Modules -> [Addresses -> Nat]]
        /\ t.variables \in [Modules -> [Addresses -> Nat]]
    BY DEF Tree
  <2> QED BY <1>2, <1>3, <2>1 DEF Tree
<1> QED BY <1>2, <1>3, <1>4 DEF KeepsOthers, Once, Known

(* ApplyFindingToBlock leaves the rest alone, whatever the project. *)
LEMMA ApplyKeepsOthers ==
  ASSUME project \in Projects, NEW role \in Roles, project.home[role] # None,
         NEW recs \in Recommendations, NEW t \in Tree,
         NEW u, u = ApplyFindingToBlock(t, role, recs)
  PROVE  KeepsOthers(role, t, u)
<1> DEFINE stmts == Statements(recs)
           start == WithoutPolicies(t, role)
<1>1. stmts \in Seq(Statement) /\ Len(stmts) \in Nat
  BY StatementsTyped
<1>2. KeepsOthers(role, t, start)
  BY Emptied
<1> HIDE DEF stmts, start
<1>4. PICK trace : /\ trace[0] = start
                   /\ \A k \in 1..Len(stmts) : trace[k] = PlumbStatement(trace[k - 1], role, stmts[k])
                   /\ trace[Len(stmts)] = u
  BY <1>1, ApplyTrace DEF stmts, start
<1> DEFINE S == {k \in 0..Len(stmts) : KeepsOthers(role, t, trace[k])}
<1>5. 0 \in S
  BY <1>1, <1>2, <1>4
<1>6. ASSUME NEW k \in 0..Len(stmts), k \in S, k < Len(stmts)
      PROVE  k + 1 \in S
  <2>1. k + 1 \in 1..Len(stmts) /\ k + 1 \in 0..Len(stmts) /\ (k + 1) - 1 = k
    BY <1>1, <1>6
  <2>2. trace[k + 1] = PlumbStatement(trace[k], role, stmts[k + 1])
    BY <1>4, <2>1
  <2>3. stmts[k + 1] \in Statement
    BY <1>1, <2>1
  <2>4. KeepsOthers(role, t, trace[k])
    BY <1>6
  <2>5. KeepsOthers(role, trace[k], trace[k + 1])
    BY <2>2, <2>3, <2>4, PlumbKeepsOthers DEF KeepsOthers
  <2>6. KeepsOthers(role, t, trace[k + 1])
    BY <2>4, <2>5 DEF KeepsOthers
  <2> QED BY <2>1, <2>6
<1>7. Len(stmts) \in 0..Len(stmts)
  BY <1>1
<1> HIDE DEF S
<1>8. Len(stmts) \in S
  BY <1>1, <1>5, <1>6, <1>7, UpTo
<1> QED BY <1>4, <1>8 DEF S

(* On a supported project the role gets the policies of its finding, and no *)
(* reference of another role is broken.                                     *)
LEMMA ApplyMakes ==
  ASSUME project \in Projects, Supported, NEW role \in Roles, project.home[role] # None,
         NEW recs \in Recommendations, NEW t \in Tree, Once(t),
         NEW u, u = ApplyFindingToBlock(t, role, recs)
  PROVE  Made(role, t, u, Statements(recs), Len(Statements(recs)))
<1> DEFINE stmts == Statements(recs)
           start == WithoutPolicies(t, role)
<1>1. stmts \in Seq(Statement) /\ Len(stmts) \in Nat
  BY StatementsTyped
<1>0. PICK empty : empty = start
  OBVIOUS
<1>2. KeepsOthers(role, t, empty) /\ Made(role, t, empty, stmts, 0)
  <2>1. 1..0 = {}
    OBVIOUS
  <2> HIDE DEF stmts
  <2>2. /\ KeepsOthers(role, t, empty) /\ empty.inline[role] = {}
        /\ empty.outputs = t.outputs /\ empty.variables = t.variables /\ empty.args = t.args
    BY <1>0, Emptied
  <2> QED BY <2>1, <2>2 DEF Made, Plumbed
<1> HIDE DEF stmts, start
<1>4. PICK trace : /\ trace[0] = start
                   /\ \A k \in 1..Len(stmts) : trace[k] = PlumbStatement(trace[k - 1], role, stmts[k])
                   /\ trace[Len(stmts)] = u
  BY <1>1, ApplyTrace DEF stmts, start
<1> DEFINE S == {k \in 0..Len(stmts) : KeepsOthers(role, t, trace[k]) /\ Made(role, t, trace[k], stmts, k)}
<1>5. 0 \in S
  BY <1>0, <1>1, <1>2, <1>4
<1>6. ASSUME NEW k \in 0..Len(stmts), k \in S, k < Len(stmts)
      PROVE  k + 1 \in S
  <2>1. k + 1 \in 1..Len(stmts) /\ k + 1 \in 0..Len(stmts) /\ (k + 1) - 1 = k
    BY <1>1, <1>6
  <2>2. trace[k + 1] = PlumbStatement(trace[k], role, stmts[k + 1])
    BY <1>4, <2>1
  <2>3. stmts[k + 1] \in Statement
    BY <1>1, <2>1
  <2>4. KeepsOthers(role, t, trace[k]) /\ Made(role, t, trace[k], stmts, k)
    BY <1>6
  <2>5. KeepsOthers(role, trace[k], trace[k + 1])
    BY <2>2, <2>3, <2>4, PlumbKeepsOthers DEF KeepsOthers
  <2>6. KeepsOthers(role, t, trace[k + 1])
    BY <2>4, <2>5 DEF KeepsOthers
  <2>7. trace[k] \in Tree /\ Once(trace[k])
    BY <2>4 DEF KeepsOthers
  <2>8. Made(role, t, trace[k + 1], stmts, k + 1)
    BY <1>1, <2>1, <2>2, <2>4, <2>7, PlumbMakes
  <2> QED BY <2>1, <2>6, <2>8
<1>7. Len(stmts) \in 0..Len(stmts)
  BY <1>1
<1> HIDE DEF S
<1>8. Len(stmts) \in S
  BY <1>1, <1>5, <1>6, <1>7, UpTo
<1> QED BY <1>4, <1>8 DEF S, stmts

-----------------------------------------------------------------------------
(* Files and attachments. *)

(* Copy takes each part from the tree of the file that has it. *)
LEMMA CopyParts ==
  ASSUME project \in Projects, NEW f \in Files, NEW from \in Tree, NEW to \in Tree,
         NEW u, u = Copy(f, from, to)
  PROVE  /\ u \in Tree
         /\ \A r \in Roles :
              u.inline[r] = IF f = <<"main", project.home[r]>> THEN from.inline[r] ELSE to.inline[r]
         /\ \A a \in Attachments :
              u.attached[a] = IF f = <<"main", project.home[a]>> THEN from.attached[a] ELSE to.attached[a]
         /\ \A m \in Modules :
              /\ u.args[m] = IF f = <<"main", Parent[m]>> THEN from.args[m] ELSE to.args[m]
              /\ u.outputs[m] = IF f = <<"outputs", m>> THEN from.outputs[m] ELSE to.outputs[m]
              /\ u.variables[m] = IF f = <<"variables", m>> THEN from.variables[m] ELSE to.variables[m]
<1> DEFINE inline == [r \in Roles |-> IF f = <<"main", project.home[r]>> THEN from.inline[r] ELSE to.inline[r]]
           attached == [a \in Attachments |->
                          IF f = <<"main", project.home[a]>> THEN from.attached[a] ELSE to.attached[a]]
           args == [m \in Modules |-> IF f = <<"main", Parent[m]>> THEN from.args[m] ELSE to.args[m]]
           outputs == [m \in Modules |-> IF f = <<"outputs", m>> THEN from.outputs[m] ELSE to.outputs[m]]
           variables == [m \in Modules |-> IF f = <<"variables", m>> THEN from.variables[m] ELSE to.variables[m]]
<1>1. u = [inline |-> inline, attached |-> attached, args |-> args,
           outputs |-> outputs, variables |-> variables]
  BY DEF Copy
<1>2. inline \in [Roles -> SUBSET Policies]
  BY DEF Tree
<1>3. attached \in [Attachments -> SUBSET Roles]
  BY DEF Tree
<1>4. args \in [Modules -> [Addresses -> Expressions \cup {None}]]
  BY DEF Tree
<1>5. outputs \in [Modules -> [Addresses -> Nat]] /\ variables \in [Modules -> [Addresses -> Nat]]
  BY DEF Tree
<1>6. u \in Tree
  <2> HIDE DEF inline, attached, args, outputs, variables
  <2> QED BY <1>1, <1>2, <1>3, <1>4, <1>5 DEF Tree
<1> QED BY <1>1, <1>6

(* Detaching a role changes attachments only, and removes nothing but what  *)
(* is taken for the role.                                                   *)
LEMMA DetachParts ==
  ASSUME project \in Projects, NEW role \in Roles, NEW t \in Tree, NEW u \in Detach(t, role)
  PROVE  /\ u \in Tree
         /\ u.inline = t.inline /\ u.args = t.args
         /\ u.outputs = t.outputs /\ u.variables = t.variables
         /\ \A a \in Attachments :
              /\ u.attached[a] \subseteq t.attached[a]
              /\ \A s \in t.attached[a] \ u.attached[a] : TakenFor(a, s, role)
         /\ FindPolicyAttachments(role) = {} => u = t
         /\ FindPolicyAttachments(role) # {} =>
              \E a \in FindPolicyAttachments(role) :
                /\ project.home[a] # None
                /\ u.attached[a] = {s \in t.attached[a] : ~ TakenFor(a, s, role)}
<1>1. CASE FindPolicyAttachments(role) = {}
  BY <1>1 DEF Detach
<1>2. CASE FindPolicyAttachments(role) # {}
  <2>1. PICK a \in FindPolicyAttachments(role) :
          project.home[a] # None /\ u = RemovePolicyAttachmentRole(t, a, role)
    BY <1>2 DEF Detach
  <2>2. a \in Attachments
    BY ProjectsAssumption DEF FindPolicyAttachments, Project
  <2> DEFINE attached == [t.attached EXCEPT ![a] = {s \in @ : ~ TakenFor(a, s, role)}]
  <2>3. u = [inline |-> t.inline, attached |-> attached, args |-> t.args,
             outputs |-> t.outputs, variables |-> t.variables]
    <3>1. t = [inline |-> t.inline, attached |-> t.attached, args |-> t.args,
               outputs |-> t.outputs, variables |-> t.variables]
      BY DEF Tree
    <3> QED BY <2>1, <3>1 DEF RemovePolicyAttachmentRole
  <2>4. /\ attached \in [Attachments -> SUBSET Roles]
        /\ attached[a] = {s \in t.attached[a] : ~ TakenFor(a, s, role)}
        /\ \A b \in Attachments \ {a} : attached[b] = t.attached[b]
    <3>1. t.attached \in [Attachments -> SUBSET Roles]
      BY DEF Tree
    <3> QED BY <2>2, <3>1
  <2> HIDE DEF attached
  <2>5. u \in Tree
    <3>1. /\ t.inline \in [Roles -> SUBSET Policies]
          /\ t.args \in [Modules -> [Addresses -> Expressions \cup {None}]]
          /\ t.outputs \in [Modules -> [Addresses -> Nat]]
          /\ t.variables \in [Modules -> [Addresses -> Nat]]
      BY DEF Tree
    <3> QED BY <2>3, <2>4, <3>1 DEF Tree
  <2> QED BY <1>2, <2>1, <2>2, <2>3, <2>4, <2>5
<1> QED BY <1>1, <1>2

-----------------------------------------------------------------------------
(* What holds of every project. *)

(* The parts of the cached and the written trees that f has are the same. *)
Same(f) ==
  /\ \A r \in Roles : f = <<"main", project.home[r]>> => disk.inline[r] = cache.inline[r]
  /\ \A a \in Attachments : f = <<"main", project.home[a]>> => disk.attached[a] = cache.attached[a]
  /\ \A m \in Modules : /\ f = <<"main", Parent[m]>> => disk.args[m] = cache.args[m]
                        /\ f = <<"outputs", m>> => disk.outputs[m] = cache.outputs[m]
                        /\ f = <<"variables", m>> => disk.variables[m] = cache.variables[m]

(* Each finding is planned once a session, and the one shown at the prompt  *)
(* is not accepted yet.                                                     *)
Session ==
  /\ pc = "idle" => planned = {}
  /\ pc # "write" => unwritten = {}
  /\ todo \cap planned = {}
  /\ \A r \in planned : project.home[r] # None
  /\ pc = "prompt" => current \in planned \ accepted
  /\ pc = "write" => current \in accepted

(* A file of an accepted plan that is not still to be written is written. *)
Written == pc # "prompt" /\ current \in accepted => \A f \in Files \ unwritten : Same(f)

(* The inductive invariant: what a session, its cached files and the        *)
(* written ones are at each point, and nothing declared twice in either.    *)
IInv == TypeOK /\ Session /\ Written /\ Once(disk) /\ Once(cache)

(* A project as the user wrote it satisfies the invariant. *)
LEMMA InitIsInv == Init => IInv
<1> SUFFICES ASSUME Init PROVE IInv
  OBVIOUS
<1>1. project \in Project
  BY ProjectsAssumption DEF Init
<1>2. disk \in Tree /\ Once(disk)
  <2>1. [r \in Roles |-> {OwnPolicy}] \in [Roles -> SUBSET Policies]
    BY DEF Policies
  <2>2. project.attached \in [Attachments -> SUBSET Roles]
    BY <1>1 DEF Project
  <2> DEFINE Outputs == [m \in Modules |-> [a \in Addresses |->
                           IF \E x \in project.exported :
                                project.home[x] = m /\ project.address[x] = a
                           THEN 1 ELSE 0]]
             Variables == [m \in Modules |-> [a \in Addresses |-> 0]]
  <2>3. /\ Outputs \in [Modules -> [Addresses -> Nat]] /\ Variables \in [Modules -> [Addresses -> Nat]]
        /\ \A m \in Modules, a \in Addresses : Outputs[m][a] <= 1 /\ Variables[m][a] <= 1
    OBVIOUS
  <2>4. disk.outputs = Outputs /\ disk.variables = Variables
    BY DEF Init
  <2> HIDE DEF Outputs, Variables
  <2>5. Once(disk)
    BY <2>3, <2>4 DEF Once
  <2>6. disk = [inline |-> disk.inline, attached |-> disk.attached, args |-> disk.args,
                outputs |-> disk.outputs, variables |-> disk.variables]
        /\ disk.inline = [r \in Roles |-> {OwnPolicy}] /\ disk.attached = project.attached
        /\ disk.args = [m \in Modules |-> [a \in Addresses |-> None]]
    BY DEF Init
  <2>7. disk.args \in [Modules -> [Addresses -> Expressions \cup {None}]]
    BY <2>6
  <2> QED BY <2>1, <2>2, <2>3, <2>4, <2>5, <2>6, <2>7 DEF Tree
<1>3. TypeOK
  BY <1>1, <1>2 DEF Init, TypeOK, Project
<1> QED BY <1>2, <1>3 DEF Init, IInv, Session, Written

(* A session reads the files it caches. *)
LEMMA StartSessionStep ==
  ASSUME IInv, NEW active \in SUBSET Roles, StartSession(active)
  PROVE  IInv'
<1>1. TypeOK'
  BY DEF IInv, TypeOK, StartSession
<1>2. Session' /\ Written'
  BY DEF IInv, TypeOK, Session, Written, StartSession
<1>3. Once(disk)' /\ Once(cache)'
  BY DEF IInv, Once, StartSession
<1> QED BY <1>1, <1>2, <1>3 DEF IInv

(* A plan changes the cached files. *)
LEMMA PlanFindingStep ==
  ASSUME IInv, NEW role \in Roles, NEW recs \in Advised, PlanFinding(role, recs)
  PROVE  IInv'
<1>1. PICK tree \in Detach(cache, role) : cache' = ApplyFindingToBlock(tree, role, recs)
  BY DEF PlanFinding
<1>2. project \in Projects /\ cache \in Tree /\ Once(cache) /\ recs \in Recommendations
      /\ project.home[role] # None
  BY AdvisedAssumption DEF IInv, TypeOK, PlanFinding, Recommendations
<1>3. tree \in Tree /\ Once(tree)
  BY <1>2, DetachParts DEF Once
<1>4. cache' \in Tree /\ Once(cache')
  BY <1>1, <1>2, <1>3, ApplyKeepsOthers DEF KeepsOthers
<1>5. TypeOK'
  BY <1>2, <1>4 DEF IInv, TypeOK, PlanFinding
<1>6. Session' /\ Written'
  BY DEF IInv, TypeOK, Session, Written, PlanFinding
<1>7. Once(disk)' /\ Once(cache)'
  BY <1>4 DEF IInv, Once, PlanFinding
<1> QED BY <1>5, <1>6, <1>7 DEF IInv

(* Rejected plans are dropped with the cached files that hold them. *)
LEMMA RejectStep ==
  ASSUME IInv, Reject
  PROVE  IInv'
<1>1. TypeOK'
  BY DEF IInv, TypeOK, Reject
<1>2. Session' /\ Written'
  BY DEF IInv, TypeOK, Session, Written, Reject
<1>3. Once(disk)' /\ Once(cache)'
  BY DEF IInv, Once, Reject
<1> QED BY <1>1, <1>2, <1>3 DEF IInv

(* An accepted plan is to be written, file by file. *)
LEMMA AcceptStep ==
  ASSUME IInv, Accept
  PROVE  IInv'
<1>1. TypeOK'
  BY DEF IInv, TypeOK, Session, Accept, PendingChanges
<1>2. Session'
  BY DEF IInv, TypeOK, Session, Accept
<1>3. \A f \in Files : f \notin unwritten' => Same(f)
  <2> SUFFICES ASSUME NEW f \in Files, f \notin unwritten'
               PROVE  Same(f)
    OBVIOUS
  <2>1. disk = Copy(f, cache, disk)
    BY DEF Accept, PendingChanges
  <2>2. project \in Projects /\ cache \in Tree /\ disk \in Tree
    BY DEF IInv, TypeOK
  <2> QED BY <2>1, <2>2, CopyParts DEF Same
<1>4. \A f : Same(f)' = Same(f)
  BY DEF Accept, Same
<1>5. Written'
  BY <1>3, <1>4 DEF Written
<1>6. Once(disk)' /\ Once(cache)'
  BY DEF IInv, Once, Accept
<1> QED BY <1>1, <1>2, <1>5, <1>6 DEF IInv

(* A file is written as cached, or left by a failure. *)
LEMMA WriteFileStep ==
  ASSUME IInv, NEW f \in Files, WriteFile(f)
  PROVE  IInv'
<1>1. project \in Projects /\ cache \in Tree /\ disk \in Tree /\ disk' = Copy(f, cache, disk)
      /\ Once(cache) /\ Once(disk)
  BY DEF IInv, TypeOK, WriteFile
<1>2. /\ disk' \in Tree
      /\ \A r \in Roles : disk'.inline[r] = IF f = <<"main", project.home[r]>> THEN cache.inline[r] ELSE disk.inline[r]
      /\ \A a \in Attachments :
           disk'.attached[a] = IF f = <<"main", project.home[a]>> THEN cache.attached[a] ELSE disk.attached[a]
      /\ \A m \in Modules :
           /\ disk'.args[m] = IF f = <<"main", Parent[m]>> THEN cache.args[m] ELSE disk.args[m]
           /\ disk'.outputs[m] = IF f = <<"outputs", m>> THEN cache.outputs[m] ELSE disk.outputs[m]
           /\ disk'.variables[m] = IF f = <<"variables", m>> THEN cache.variables[m] ELSE disk.variables[m]
  BY <1>1, CopyParts
<1>3. TypeOK'
  BY <1>2 DEF IInv, TypeOK, WriteFile
<1>4. Session'
  BY DEF IInv, TypeOK, Session, WriteFile
<1>5. \A g \in Files : g = f \/ Same(g) => Same(g)'
  BY <1>2 DEF Same, WriteFile
<1>6. current \in accepted /\ current' = current /\ accepted' = accepted /\ pc # "prompt"
  BY DEF IInv, Session, WriteFile
<1>7. Written'
  BY <1>5, <1>6 DEF IInv, Written, WriteFile
<1>8. Once(disk)' /\ Once(cache)'
  BY <1>1, <1>2 DEF Once, WriteFile
<1> QED BY <1>3, <1>4, <1>7, <1>8 DEF IInv

(* The ways the command ends, which differ in when they may come. *)
LEMMA EndSessionStep ==
  ASSUME IInv, EndSession, cache' = disk, disk' = disk
  PROVE  IInv'
<1>1. TypeOK'
  BY DEF IInv, TypeOK, EndSession
<1>2. Session' /\ Written'
  BY DEF IInv, TypeOK, Session, Written, EndSession
<1>3. Once(disk)' /\ Once(cache)'
  BY DEF IInv, Once
<1> QED BY <1>1, <1>2, <1>3 DEF IInv

(* Terraform copies the files to its state. *)
LEMMA TerraformApplyStep ==
  ASSUME IInv, TerraformApply
  PROVE  IInv'
<1>1. TypeOK'
  BY DEF IInv, TypeOK, Tree, TerraformApply
<1>2. Session' /\ Written'
  <2>1. \A f : Same(f)' = Same(f)
    BY DEF TerraformApply, Same
  <2> QED BY <2>1 DEF IInv, Session, Written, TerraformApply
<1>3. Once(disk)' /\ Once(cache)'
  BY DEF IInv, Once, TerraformApply
<1> QED BY <1>1, <1>2, <1>3 DEF IInv

(* Every step keeps the invariant. *)
LEMMA NextKeepsInv == IInv /\ [Next]_vars => IInv'
<1> SUFFICES ASSUME IInv, [Next]_vars PROVE IInv'
  OBVIOUS
<1>1. CASE UNCHANGED vars
  <2>1. \A f : Same(f)' = Same(f)
    BY <1>1 DEF vars, Same
  <2>2. TypeOK'
    BY <1>1 DEF IInv, TypeOK, vars
  <2> QED BY <1>1, <2>1, <2>2 DEF IInv, Session, Written, Once, vars
<1>2. CASE \E role \in Roles : PlanNothing(role) \/ DetachPanics(role)
  BY <1>2, EndSessionStep DEF PlanNothing, DetachPanics
<1>3. CASE Fail \/ Finish
  BY <1>3, EndSessionStep DEF Fail, Finish
<1> QED BY <1>1, <1>2, <1>3, StartSessionStep, PlanFindingStep, RejectStep, AcceptStep,
           WriteFileStep, TerraformApplyStep DEF Next

(* The invariant holds in every reachable state. *)
LEMMA Invariance == Spec => []IInv
BY InitIsInv, NextKeepsInv, PTL DEF Spec

(* Any sequence of sessions, failures and runs of Terraform leaves well-    *)
(* typed files (the whole of apply.go and terraform.go).                    *)
THEOREM TypeCorrect == Spec => []TypeOK
BY Invariance, PTL DEF IInv

(* No output and no variable is ever declared twice in a written file (the  *)
(* AppendIfNotExist functions, terraform.go:395-434): Terraform would       *)
(* refuse the project.  It holds with no hypothesis on the project or the   *)
(* findings.                                                                *)
THEOREM NothingTwice == Spec => []DeclaredOnce
<1>1. IInv => DeclaredOnce
  BY DEF IInv, Once, DeclaredOnce
<1> QED BY <1>1, Invariance, PTL

-----------------------------------------------------------------------------
(* Roles that are not planned. *)

(* No role's address is contained in another's. *)
NamesApart == \A r, s \in Roles : <<r, s>> \in Naming <=> r = s

(* The cached files say of an unplanned role what the written ones say. *)
Unplanned ==
  \A r \in Roles \ planned : /\ cache.inline[r] = disk.inline[r]
                             /\ \A a \in Attachments : r \in disk.attached[a] => r \in cache.attached[a]

(* Planning one role leaves the unplanned ones alone. *)
LEMMA PlanFindingKeepsUnplanned ==
  ASSUME NamesApart, IInv, Unplanned, NEW role \in Roles, NEW recs \in Advised, PlanFinding(role, recs)
  PROVE  Unplanned'
<1>1. PICK tree \in Detach(cache, role) : cache' = ApplyFindingToBlock(tree, role, recs)
  BY DEF PlanFinding
<1>2. project \in Projects /\ cache \in Tree /\ recs \in Recommendations
      /\ project.home[role] # None
  BY AdvisedAssumption DEF IInv, TypeOK, PlanFinding, Recommendations
<1>3. /\ tree \in Tree /\ tree.inline = cache.inline
      /\ \A a \in Attachments : \A s \in cache.attached[a] \ tree.attached[a] : TakenFor(a, s, role)
  BY <1>2, DetachParts
<1>4. cache'.attached = tree.attached /\ \A r \in Roles \ {role} : cache'.inline[r] = tree.inline[r]
  BY <1>1, <1>2, <1>3, ApplyKeepsOthers DEF KeepsOthers
<1>5. \A a \in Attachments, s \in Roles : TakenFor(a, s, role) => s = role
  BY DEF TakenFor, NamesApart
<1>6. disk' = disk /\ planned' = planned \cup {role}
  BY DEF PlanFinding
<1> QED BY <1>3, <1>4, <1>5, <1>6 DEF Unplanned

(* Writing a file brings nothing of an unplanned role. *)
LEMMA WriteFileKeepsUnplanned ==
  ASSUME IInv, Unplanned, NEW f \in Files, WriteFile(f)
  PROVE  Unplanned' /\ KeepsRoles(Roles \ planned)
<1>1. project \in Projects /\ cache \in Tree /\ disk \in Tree /\ disk' = Copy(f, cache, disk)
  BY DEF IInv, TypeOK, WriteFile
<1>2. /\ \A r \in Roles : disk'.inline[r] = cache.inline[r] \/ disk'.inline[r] = disk.inline[r]
      /\ \A a \in Attachments :
           disk'.attached[a] = cache.attached[a] \/ disk'.attached[a] = disk.attached[a]
  BY <1>1, CopyParts
<1>3. cache' = cache /\ planned' = planned
  BY DEF WriteFile
<1> QED BY <1>2, <1>3 DEF Unplanned, KeepsRoles

(* Every step leaves the roles alone that are not planned. *)
LEMMA NextKeepsUnplanned ==
  ASSUME NamesApart, IInv, Unplanned, [Next]_vars
  PROVE  Unplanned' /\ (disk' = disk \/ KeepsRoles(Roles \ planned))
<1>1. CASE \E f \in Files : WriteFile(f)
  BY <1>1, WriteFileKeepsUnplanned
<1>2. CASE \E role \in Roles, recs \in Advised : PlanFinding(role, recs)
  BY <1>2, PlanFindingKeepsUnplanned DEF PlanFinding
<1>3. CASE disk' = disk /\ cache' = disk
  BY <1>3 DEF Unplanned
<1>4. CASE UNCHANGED <<disk, cache, planned>>
  BY <1>4 DEF Unplanned
<1> QED BY <1>1, <1>2, <1>3, <1>4
        DEF Next, vars, StartSession, PlanNothing, DetachPanics, Reject, Accept, Fail, Finish, TerraformApply

(* Whatever is planned, rejected, written or left unwritten by a failure, a *)
(* role whose finding is not planned keeps its policies and attachments     *)
(* (RemovePolicyAttachmentRole, terraform.go:697), if no address contains       *)
(* another.                                                                 *)
THEOREM UnplannedKept ==
  ASSUME NamesApart
  PROVE  Spec => UnplannedRolesKept
<1>1. Init => Unplanned
  BY DEF Init, Unplanned
<1>2. disk' = disk => KeepsRoles(Roles \ planned)
  BY DEF KeepsRoles
<1>3. IInv /\ Unplanned /\ [Next]_vars => Unplanned' /\ [KeepsRoles(Roles \ planned)]_vars
  BY <1>2, NextKeepsUnplanned
<1> QED BY <1>1, <1>3, Invariance, PTL DEF Spec, UnplannedRolesKept

-----------------------------------------------------------------------------
(* Attachments. *)

(* The role is off one of the attachments found for it, which has a block,  *)
(* if it is recognised in all of them.                                      *)
OffOne(t, found, r) ==
  found # {} /\ (\A a \in found : TakenFor(a, r, r))
    => \E a \in found : project.home[a] # None /\ r \notin t.attached[a]

(* The roles planned in a session are, in the cached files. *)
PlannedOff == \A r \in planned : OffOne(cache, FindPolicyAttachments(r), r)

(* The state of the attachments that a step does not change. *)
LEMMA OffOneNext ==
  ASSUME project' = project, tfstate' = tfstate, NEW t, t = cache', NEW r,
         OffOne(t, FindPolicyAttachments(r), r)
  PROVE  OffOne(cache, FindPolicyAttachments(r), r)'
BY DEF OffOne, FindPolicyAttachments, TakenFor

(* A plan takes its role off one, and puts no other back. *)
LEMMA PlanFindingDetaches ==
  ASSUME IInv, PlannedOff, NEW role \in Roles, NEW recs \in Advised, PlanFinding(role, recs)
  PROVE  PlannedOff'
<1>0. PICK t : t = cache'
  OBVIOUS
<1>1. PICK tree \in Detach(cache, role) : t = ApplyFindingToBlock(tree, role, recs)
  BY <1>0 DEF PlanFinding
<1>2. project \in Projects /\ cache \in Tree /\ recs \in Recommendations
      /\ project.home[role] # None
  BY AdvisedAssumption DEF IInv, TypeOK, PlanFinding, Recommendations
<1>3. /\ tree \in Tree
      /\ \A a \in Attachments : tree.attached[a] \subseteq cache.attached[a]
      /\ FindPolicyAttachments(role) # {} =>
           \E a \in FindPolicyAttachments(role) :
             /\ project.home[a] # None
             /\ tree.attached[a] = {s \in cache.attached[a] : ~ TakenFor(a, s, role)}
  BY <1>2, DetachParts
<1>4. t.attached = tree.attached
  BY <1>1, <1>2, <1>3, ApplyKeepsOthers DEF KeepsOthers
<1>5. \A r : FindPolicyAttachments(r) \subseteq Attachments
  BY <1>2, ProjectsAssumption DEF FindPolicyAttachments, Project
<1>6. OffOne(t, FindPolicyAttachments(role), role)
  BY <1>3, <1>4 DEF OffOne
<1>7. \A r \in planned : OffOne(t, FindPolicyAttachments(r), r)
  BY <1>3, <1>4, <1>5 DEF OffOne, PlannedOff
<1>8. tfstate' = tfstate /\ project' = project /\ planned' = planned \cup {role}
  BY DEF PlanFinding
<1> QED BY <1>0, <1>6, <1>7, <1>8, OffOneNext DEF PlannedOff

(* Every step keeps them off. *)
LEMMA NextKeepsOff ==
  ASSUME IInv, PlannedOff, [Next]_vars
  PROVE  PlannedOff'
<1>1. CASE \E role \in Roles, recs \in Advised : PlanFinding(role, recs)
  BY <1>1, PlanFindingDetaches
<1>2. CASE planned' = {}
  BY <1>2 DEF PlannedOff
<1>3. CASE UNCHANGED <<cache, planned, tfstate, project>>
  <2>1. PICK t : t = cache'
    OBVIOUS
  <2> QED BY <1>3, <2>1, OffOneNext DEF PlannedOff
<1>4. CASE TerraformApply \/ \E active \in SUBSET Roles : StartSession(active)
  <2>1. planned' = {}
    BY <1>4 DEF TerraformApply, StartSession, IInv, Session
  <2> QED BY <1>2, <2>1
<1> QED BY <1>1, <1>2, <1>3, <1>4
        DEF Next, vars, PlanNothing, DetachPanics, EndSession, Reject, Accept, WriteFile, Fail, Finish

(* With every accepted plan the roles planned so far lose, on disk, one of  *)
(* the attachments that the state file shows for them, the only one if      *)
(* there is one (FindAndRemovePolicyAttachmentsForRole, terraform.go:488):  *)
(* plans of other roles, rejected plans and earlier sessions never put them *)
(* back, whatever the project and the age of the state file.                *)
THEOREM PlannedLoseOne == Spec => []PlannedRolesLoseAnAttachment
<1>1. Init => PlannedOff
  BY DEF Init, PlannedOff
<1>2. IInv /\ PlannedOff => PlannedRolesLoseAnAttachment
  <2> SUFFICES ASSUME IInv, PlannedOff, pc = "plan", current \in accepted, NEW r \in planned,
                      NEW found, found = FindPolicyAttachments(r), found # {},
                      \A a \in found : TakenFor(a, r, r)
               PROVE  \E a \in found : r \notin disk.attached[a]
    BY DEF PlannedRolesLoseAnAttachment
  <2>1. PICK a \in found : project.home[a] # None /\ r \notin cache.attached[a]
    BY DEF PlannedOff, OffOne
  <2>2. a \in Attachments /\ project \in Projects
    BY ProjectsAssumption DEF FindPolicyAttachments, Project, IInv, TypeOK
  <2>3. <<"main", project.home[a]>> \in Files
    BY <2>1, <2>2, LayoutTypes DEF Files
  <2>4. disk.attached[a] = cache.attached[a]
    BY <2>2, <2>3 DEF IInv, Session, Written, Same
  <2> QED BY <2>1, <2>4
<1>3. IInv /\ PlannedOff /\ [Next]_vars => PlannedOff'
  BY NextKeepsOff
<1> QED BY <1>1, <1>2, <1>3, Invariance, PTL DEF Spec

-----------------------------------------------------------------------------
(* The policies of planned roles. *)

(* The role has the policies of its statements, and what they refer to. *)
PoliciesIn(t, r, recs) ==
  LET stmts == Statements(recs)
  IN  /\ t.inline[r] = {PolicyOf(r, stmts[i]) : i \in 1..Len(stmts)}
      /\ \A i \in 1..Len(stmts) : Plumbed(t, r, stmts[i].resource)

(* Every role planned so far has them, in the cached files. *)
PoliciesMade == \A r \in planned : PoliciesIn(cache, r, recommended[r])

(* What Terraform makes of the policy of a statement. *)
GrantOf(t, r, s) ==
  [name |-> s.name, to |-> Resolve(t, project.home[r], Reference(r, s.resource)),
   object |-> JoinedObject(r, s)]

(* The grants of a role are those of its statements. *)
LEMMA GrantsAre ==
  ASSUME project \in Projects, NEW r \in Roles, project.home[r] # None,
         NEW recs \in Recommendations, NEW t, PoliciesIn(t, r, recs)
  PROVE  Granted(t, r) = {GrantOf(t, r, Statements(recs)[i]) : i \in 1..Len(Statements(recs))}
<1> DEFINE stmts == Statements(recs)
           I == 1..Len(stmts)
           G(p) == [name |-> p.name, to |-> Resolve(t, project.home[r], p.to), object |-> p.object]
<1>1. \A i \in I : stmts[i] \in Statement
  <2>1. stmts \in Seq(Statement)
    BY StatementsTyped
  <2> HIDE DEF stmts
  <2> QED BY <2>1
<1>2. t.inline[r] = {PolicyOf(r, stmts[i]) : i \in I}
  BY DEF PoliciesIn
<1>3. Granted(t, r) = {G(p) : p \in t.inline[r]}
  BY DEF Granted
<1>4. \A s \in Statement : G(PolicyOf(r, s)) = GrantOf(t, r, s)
  BY PolicyTypes DEF GrantOf
<1> HIDE DEF stmts, I, G
<1>5. Granted(t, r) = {G(PolicyOf(r, stmts[i])) : i \in I}
  BY <1>2, <1>3
<1>6. \A i \in I : G(PolicyOf(r, stmts[i])) = GrantOf(t, r, stmts[i])
  BY <1>1, <1>4
<1>7. Granted(t, r) = {GrantOf(t, r, stmts[i]) : i \in I}
  BY <1>5, <1>6
<1> QED BY <1>7 DEF stmts, I

(* What is recommended for a statement is wanted. *)
LEMMA RecommendedWanted ==
  ASSUME NEW r, NEW recs, recs = recommended[r], NEW s, Recommended(recs, s)
  PROVE  \E arn \in Wanted(r) : arn.resource = s.resource /\ arn.object = s.object
<1>1. PICK k \in DOMAIN recs : \E i \in DOMAIN recs[k] :
        \E arn \in ToSet(recs[k][i]) : arn.resource = s.resource /\ arn.object = s.object
  BY DEF Recommended
<1>2. PICK i \in DOMAIN recs[k] :
        \E arn \in ToSet(recs[k][i]) : arn.resource = s.resource /\ arn.object = s.object
  BY <1>1
<1>3. PICK arn \in ToSet(recs[k][i]) : arn.resource = s.resource /\ arn.object = s.object
  BY <1>2
<1>4. arn \in Wanted(r)
  BY <1>3 DEF Wanted
<1> QED BY <1>3, <1>4

(* Then the role reaches what the finding recommends, and nothing else. *)
LEMMA PoliciesReach ==
  ASSUME project \in Projects, Supported, NEW r \in Roles, project.home[r] # None,
         NEW recs \in Recommendations, recs = recommended[r],
         NEW t, PoliciesIn(t, r, recs)
  PROVE  GrantsNothingElse(t, r) /\ GrantsEveryStatement(t, r)
<1> DEFINE stmts == Statements(recs)
           I == 1..Len(stmts)
<1>1. \A i \in I : stmts[i] \in Statement /\ stmts[i].resource \in Resources /\ Recommended(recs, stmts[i])
  <2>1. stmts \in Seq(StatementsFor(recs))
    BY StatementsTyped
  <2> HIDE DEF stmts
  <2>2. \A i \in I : stmts[i] \in StatementsFor(recs)
    BY <2>1
  <2> QED BY <2>2 DEF StatementsFor, Statement
<1>2. Granted(t, r) = {GrantOf(t, r, stmts[i]) : i \in I}
  BY GrantsAre
<1>3. \A i \in I : Plumbed(t, r, stmts[i].resource)
  BY DEF PoliciesIn
<1>4. \A k \in DOMAIN recs : \A i \in DOMAIN recs[k] : \E j \in I : stmts[j] = StatementOf(i, recs[k][i])
  BY StatementsAll
<1> HIDE DEF stmts, I
<1>5. \A i \in I : /\ GrantOf(t, r, stmts[i]).to = Reached(stmts[i].resource)
                  /\ GrantOf(t, r, stmts[i]).object = JoinedObject(r, stmts[i])
  BY <1>1, <1>3, ReferenceResolves DEF GrantOf
<1>6. GrantsNothingElse(t, r)
  <2> SUFFICES ASSUME NEW g \in Granted(t, r), NEW x \in Resources, x \in g.to
               PROVE  \E arn \in Wanted(r) : arn.resource = x /\ g.object \in {arn.object, Bare}
    BY DEF GrantsNothingElse
  <2>1. PICK i \in I : g = GrantOf(t, r, stmts[i])
    BY <1>2
  <2>2. x = stmts[i].resource
    BY <1>5, <2>1 DEF Reached
  <2>3. g.object \in {stmts[i].object, Bare}
    BY <1>5, <2>1 DEF JoinedObject
  <2>4. Recommended(recs, stmts[i])
    BY <1>1
  <2>5. PICK arn \in Wanted(r) : arn.resource = stmts[i].resource /\ arn.object = stmts[i].object
    BY <2>4, RecommendedWanted
  <2> QED BY <2>2, <2>3, <2>5
<1>7. GrantsEveryStatement(t, r)
  <2> SUFFICES ASSUME NEW k \in DOMAIN recs, NEW i \in DOMAIN recs[k]
               PROVE  \E arn \in ToSet(recs[k][i]) :
                        project.home[arn.resource] = Unlabelled \/ Grants(t, r, arn)
    BY DEF GrantsEveryStatement
  <2>1. PICK j \in I : stmts[j] = StatementOf(i, recs[k][i])
    BY <1>4
  <2>2. recs[k][i] \in Seq(Arns) \ {<<>>} /\ i \in Nat \ {0}
    <3>1. recs[k] \in Seq(Seq(Arns) \ {<<>>})
      BY DEF Recommendations
    <3> QED BY <3>1
  <2>3. PICK arn \in ToSet(recs[k][i]) :
          arn.resource = stmts[j].resource /\ arn.object = stmts[j].object
    BY <2>1, <2>2, StatementOfTyped
  <2>4. ASSUME project.home[arn.resource] # Unlabelled
        PROVE  Grants(t, r, arn)
    <3>1. PICK g \in Granted(t, r) : g = GrantOf(t, r, stmts[j])
      BY <1>2
    <3>2. g.to = {arn.resource} /\ g.object = JoinedObject(r, stmts[j])
      BY <1>5, <2>3, <2>4, <3>1 DEF Reached
    <3>3. BlockPlace(stmts[j].resource) = project.home[arn.resource]
      BY <2>3, <2>4 DEF BlockPlace
    <3> QED BY <2>3, <3>2, <3>3 DEF Grants, JoinedObject
  <2> QED BY <2>4
<1> QED BY <1>6, <1>7

(* The written files give a planned role what the cached ones do. *)
LEMMA PoliciesWritten ==
  ASSUME IInv, \A f \in Files : Same(f), NEW r \in planned, NEW recs \in Recommendations,
         PoliciesIn(cache, r, recs)
  PROVE  PoliciesIn(disk, r, recs)
<1> DEFINE stmts == Statements(recs)
           I == 1..Len(stmts)
<1>1. r \in Roles /\ project.home[r] \in Places /\ project.home[r] # None /\ project \in Projects
  BY LayoutTypes DEF IInv, TypeOK, Session
<1>2. disk.inline[r] = cache.inline[r]
  <2>1. <<"main", project.home[r]>> \in Files
    BY <1>1 DEF Files
  <2> QED BY <1>1, <2>1 DEF Same
<1>3. \A m \in Modules : /\ disk.args[m] = cache.args[m] /\ disk.outputs[m] = cache.outputs[m]
                         /\ disk.variables[m] = cache.variables[m]
  <2> SUFFICES ASSUME NEW m \in Modules
               PROVE  /\ disk.args[m] = cache.args[m] /\ disk.outputs[m] = cache.outputs[m]
                      /\ disk.variables[m] = cache.variables[m]
    OBVIOUS
  <2>1. <<"main", Parent[m]>> \in Files
    BY ProjectsAssumption DEF Files
  <2>2. <<"outputs", m>> \in Files /\ <<"variables", m>> \in Files
    BY DEF Files
  <2> QED BY <2>1, <2>2 DEF Same
<1>4. \A i \in I : stmts[i].resource \in Resources
  <2>1. stmts \in Seq(Statement)
    BY StatementsTyped
  <2>2. \A i \in I : stmts[i] \in Statement
    BY <2>1
  <2> QED BY <2>2 DEF Statement
<1> HIDE DEF stmts, I
<1>5. ASSUME NEW x \in Resources, Plumbed(cache, r, x)
      PROVE  Plumbed(disk, r, x)
  BY <1>1, <1>3, <1>5, PlumbingTypes DEF Plumbed
<1> QED BY <1>2, <1>4, <1>5 DEF PoliciesIn, stmts, I

(* A step that leaves the layout alone: the primed invariant is about the   *)
(* next tree and recommendations.                                           *)
LEMMA PoliciesNext ==
  ASSUME project' = project, NEW t, t = cache', NEW r, NEW recs, recs = recommended'[r]
  PROVE  PoliciesIn(cache, r, recommended[r])' <=> PoliciesIn(t, r, recs)
BY DEF PoliciesIn, PolicyOf, JoinedObject, Plumbed, Reference, Imported, Exported, BlockPlace, Value,
       AddressInFile

(* A plan makes the policies of its role, and breaks no other's. *)
LEMMA PlanFindingMakes ==
  ASSUME Supported, IInv, PoliciesMade, NEW role \in Roles, NEW recs \in Advised, PlanFinding(role, recs)
  PROVE  PoliciesMade'
<1>0. PICK t : t = cache'
  OBVIOUS
<1>1. PICK tree \in Detach(cache, role) : t = ApplyFindingToBlock(tree, role, recs)
  BY <1>0 DEF PlanFinding
<1>2. /\ project \in Projects /\ cache \in Tree /\ Once(cache) /\ recs \in Recommendations
      /\ project.home[role] # None /\ project' = project
      /\ planned' = planned \cup {role} /\ role \notin planned /\ planned \subseteq Roles
      /\ recommended' = [recommended EXCEPT ![role] = recs]
      /\ \A r \in planned : project.home[r] # None
      /\ \A r \in Roles : recommended[r] \in Recommendations
  <2>1. << >> \in Recommendations /\ Advised \subseteq Recommendations
    BY AdvisedAssumption DEF Recommendations
  <2> QED BY <2>1 DEF IInv, TypeOK, Session, PlanFinding
<1>3. /\ tree \in Tree /\ tree.inline = cache.inline /\ tree.args = cache.args
      /\ tree.outputs = cache.outputs /\ tree.variables = cache.variables
  BY <1>2, DetachParts
<1>4. Once(tree) /\ \A r, y : Plumbed(cache, r, y) => Plumbed(tree, r, y)
  BY <1>2, <1>3 DEF Once, Plumbed
<1>5. Made(role, tree, t, Statements(recs), Len(Statements(recs)))
  BY <1>1, <1>2, <1>3, <1>4, ApplyMakes
<1>6. \A r \in Roles \ {role} : t.inline[r] = tree.inline[r]
  BY <1>1, <1>2, <1>3, ApplyKeepsOthers DEF KeepsOthers
<1>7. PoliciesIn(t, role, recs)
  BY <1>5 DEF Made, PoliciesIn
<1>8. ASSUME NEW r \in planned
      PROVE  PoliciesIn(t, r, recommended[r])
  <2>1. PICK old \in Recommendations : old = recommended[r]
    BY <1>2
  <2>2. PoliciesIn(cache, r, old) /\ r \in Roles \ {role} /\ project.home[r] # None
    BY <1>2, <2>1 DEF PoliciesMade
  <2>3. \A i \in 1..Len(Statements(old)) : Statements(old)[i].resource \in Resources
    <3>1. Statements(old) \in Seq(Statement)
      BY StatementsTyped
    <3>2. \A i \in 1..Len(Statements(old)) : Statements(old)[i] \in Statement
      BY <3>1
    <3> QED BY <3>2 DEF Statement
  <2>4. \A y \in Resources : Plumbed(cache, r, y) => Plumbed(t, r, y)
    BY <1>4, <1>5, <2>2 DEF Made
  <2>5. t.inline[r] = cache.inline[r]
    BY <1>3, <1>6, <2>2
  <2>6. PoliciesIn(t, r, old)
    BY <2>2, <2>3, <2>4, <2>5 DEF PoliciesIn
  <2> QED BY <2>1, <2>6
<1>9. ASSUME NEW r \in planned'
      PROVE  PoliciesIn(cache, r, recommended[r])'
  <2>1. PICK new : new = recommended'[r]
    OBVIOUS
  <2>2. PoliciesIn(t, r, new)
    <3>1. CASE r = role
      <4>1. new = recs
        BY <1>2, <2>1, <3>1 DEF IInv, TypeOK
      <4> QED BY <1>7, <3>1, <4>1
    <3>2. CASE r # role
      <4>1. r \in planned /\ new = recommended[r]
        BY <1>2, <1>9, <2>1, <3>2 DEF IInv, TypeOK
      <4> QED BY <1>8, <4>1
    <3> QED BY <3>1, <3>2
  <2> QED BY <1>0, <1>2, <2>1, <2>2, PoliciesNext
<1> QED BY <1>9 DEF PoliciesMade

(* Every step keeps the policies of the roles planned so far. *)
LEMMA NextKeepsPolicies ==
  ASSUME Supported, IInv, PoliciesMade, [Next]_vars
  PROVE  PoliciesMade'
<1>1. CASE \E role \in Roles, recs \in Advised : PlanFinding(role, recs)
  BY <1>1, PlanFindingMakes
<1>2. CASE planned' = {}
  BY <1>2 DEF PoliciesMade
<1>3. CASE UNCHANGED <<project, cache, planned, recommended>>
  <2> SUFFICES ASSUME NEW r \in planned'
               PROVE  PoliciesIn(cache, r, recommended[r])'
    BY DEF PoliciesMade
  <2>1. PICK t, recs : t = cache' /\ recs = recommended'[r]
    OBVIOUS
  <2>2. PoliciesIn(t, r, recs)
    BY <1>3, <2>1 DEF PoliciesMade
  <2> QED BY <1>3, <2>1, <2>2, PoliciesNext
<1>4. CASE \E active \in SUBSET Roles : StartSession(active)
  BY <1>2, <1>4 DEF StartSession, IInv, Session
<1> QED BY <1>1, <1>2, <1>3, <1>4
        DEF Next, vars, PlanNothing, DetachPanics, EndSession, Reject, Accept, WriteFile, Fail, Finish, TerraformApply

(* The layout of a project never changes. *)
LEMMA ProjectIsKept ==
  ASSUME [Next]_vars
  PROVE  project' = project
BY DEF Next, vars, StartSession, PlanFinding, PlanNothing, DetachPanics, EndSession, Reject, Accept,
       WriteFile, Fail, Finish, TerraformApply

(* With every accepted plan the policies of each role planned so far reach, *)
(* on disk, what its finding recommends, for every statement, and nothing   *)
(* else: plans of other roles, rejected plans, failed writes and earlier    *)
(* sessions never break or divert a reference through outputs, variables    *)
(* and module arguments (ApplyFindingToBlock, terraform.go:545).            *)
THEOREM PlannedReach ==
  ASSUME Flat
  PROVE  Spec => []PlannedRolesReachTheirResources
<1> DEFINE Inv == AddressesApart => PoliciesMade
<1>1. Init => Inv
  BY DEF Init, PoliciesMade
<1>2. IInv /\ Inv => PlannedRolesReachTheirResources
  <2> SUFFICES ASSUME IInv, PoliciesMade, AddressesApart, pc = "plan", current \in accepted,
                      NEW r \in planned
               PROVE  GrantsNothingElse(disk, r) /\ GrantsEveryStatement(disk, r)
    BY DEF PlannedRolesReachTheirResources
  <2>1. \A f \in Files : Same(f)
    BY DEF IInv, Session, Written
  <2>2. r \in Roles /\ project \in Projects /\ project.home[r] # None
        /\ recommended[r] \in Advised \cup {<< >>}
    BY DEF IInv, TypeOK, Session
  <2>3. PICK recs \in Recommendations : recs = recommended[r]
    <3>1. Advised \subseteq Recommendations
      BY AdvisedAssumption DEF Recommendations
    <3>2. << >> \in Recommendations
      BY DEF Recommendations
    <3> QED BY <2>2, <3>1, <3>2
  <2>4. PoliciesIn(disk, r, recs)
    BY <2>1, <2>3, PoliciesWritten DEF PoliciesMade
  <2> QED BY <2>2, <2>3, <2>4, PoliciesReach DEF Supported
<1>3. IInv /\ Inv /\ [Next]_vars => Inv'
  <2> SUFFICES ASSUME IInv, Inv, [Next]_vars, AddressesApart'
               PROVE  PoliciesMade'
    OBVIOUS
  <2>1. AddressesApart
    BY ProjectIsKept DEF AddressesApart
  <2> QED BY <2>1, NextKeepsPolicies DEF Supported
<1> HIDE DEF Inv
<1> QED BY <1>1, <1>2, <1>3, Invariance, PTL DEF Spec

-----------------------------------------------------------------------------
(* A finding that is applied already. *)

(* Two trees declare the same and pass the same arguments. *)
SameDeclarations(t, u) ==
  \A m \in Modules, a \in Addresses :
    t.outputs[m][a] = u.outputs[m][a] /\ t.variables[m][a] = u.variables[m][a] /\ t.args[m][a] = u.args[m][a]

(* Trees with the same parts are equal. *)
LEMMA SameTree ==
  ASSUME NEW t \in Tree, NEW u \in Tree, SameDeclarations(t, u),
         \A a \in Attachments : t.attached[a] = u.attached[a],
         \A r \in Roles : t.inline[r] = u.inline[r]
  PROVE  t = u
<1>1. t.attached = u.attached
  BY DEF Tree
<1>2. t.inline = u.inline
  BY DEF Tree
<1>3. t.outputs = u.outputs
  BY DEF Tree, SameDeclarations
<1>4. t.variables = u.variables
  BY DEF Tree, SameDeclarations
<1>5. t.args = u.args
  BY DEF Tree, SameDeclarations
<1>6. /\ t = [inline |-> t.inline, attached |-> t.attached, args |-> t.args,
              outputs |-> t.outputs, variables |-> t.variables]
      /\ u = [inline |-> u.inline, attached |-> u.attached, args |-> u.args,
              outputs |-> u.outputs, variables |-> u.variables]
  BY DEF Tree
<1> QED BY <1>1, <1>2, <1>3, <1>4, <1>5, <1>6

(* What an argument stands for goes through the one resource of its address. *)
LEMMA ArgumentKnown ==
  ASSUME project \in Projects, Supported, NEW t, Known(t), NEW role \in Roles, NEW x \in Resources,
         project.home[role] # None, Imported(role, x),
         ResolveValue(t, Root, t.args[project.home[role]][AddressInFile(x)]) # {}
  PROVE  t.args[project.home[role]][AddressInFile(x)] = Value(role, x)
<1>1. project.home[role] \in Modules /\ AddressInFile(x) \in Addresses
  BY PlumbingTypes
<1>2. t.args[project.home[role]][AddressInFile(x)] # None
  BY DEF ResolveValue
<1>3. PICK r \in Roles, y \in Resources :
        /\ project.home[role] = project.home[r] /\ AddressInFile(x) = AddressInFile(y)
        /\ Imported(r, y) /\ t.args[project.home[role]][AddressInFile(x)] = Value(r, y)
  BY <1>1, <1>2 DEF Known
<1>4. Value(role, x) = Value(r, y)
  BY <1>3, ValuesAgree
<1> QED BY <1>3, <1>4

(* A value stands for something only through its output. *)
LEMMA ValueResolvesOnly ==
  ASSUME project \in Projects, Supported, NEW role \in Roles, NEW x \in Resources,
         project.home[role] # None, BlockPlace(x) # None, NEW t,
         NEW place, ResolveValue(t, place, Value(role, x)) # {}
  PROVE  Exported(role, x) => t.outputs[BlockPlace(x)][AddressInFile(x)] = 1
<1> SUFFICES ASSUME Exported(role, x)
             PROVE  t.outputs[BlockPlace(x)][AddressInFile(x)] = 1
  OBVIOUS
<1>1. Value(role, x) # None
  BY PlumbingTypes, NoneAssumption
<1>2. Value(role, x).kind = "output" /\ Value(role, x).of = AddressInFile(x)
      /\ Value(role, x).module = BlockPlace(x)
  BY DEF Value
<1> QED BY <1>1, <1>2 DEF ResolveValue

(* A reference that is resolved is plumbed. *)
LEMMA ResolvedIsPlumbed ==
  ASSUME project \in Projects, Supported, NEW t, Known(t), NEW role \in Roles, NEW x \in Resources,
         project.home[role] # None,
         Resolve(t, project.home[role], Reference(role, x)) # {}
  PROVE  Plumbed(t, role, x)
<1>0. Reference(role, x) # None
  BY PlumbingTypes, NoneAssumption
<1>1. CASE BlockPlace(x) = None
  BY <1>1 DEF Plumbed, Exported, Imported
<1>2. CASE BlockPlace(x) # None /\ Imported(role, x)
  <2>1. Reference(role, x).kind = "variable" /\ Reference(role, x).of = AddressInFile(x)
    BY <1>2 DEF Reference
  <2>2. Parent[project.home[role]] = Root
    BY <1>2, PlumbingTypes DEF Supported, Flat
  <2>3. /\ t.variables[project.home[role]][AddressInFile(x)] = 1
        /\ ResolveValue(t, Root, t.args[project.home[role]][AddressInFile(x)]) # {}
    BY <1>0, <2>1, <2>2 DEF Resolve
  <2>4. t.args[project.home[role]][AddressInFile(x)] = Value(role, x)
    BY <1>2, <2>3, ArgumentKnown
  <2>5. Exported(role, x) => t.outputs[BlockPlace(x)][AddressInFile(x)] = 1
    BY <1>2, <2>3, <2>4, ValueResolvesOnly
  <2> QED BY <2>3, <2>4, <2>5 DEF Plumbed
<1>3. CASE BlockPlace(x) # None /\ ~ Imported(role, x)
  <2>1. Reference(role, x) = Value(role, x)
    BY <1>3 DEF Reference
  <2>2. Value(role, x).kind # "variable"
    BY DEF Value
  <2>3. ResolveValue(t, project.home[role], Value(role, x)) # {}
    BY <2>1, <2>2 DEF Resolve
  <2>4. Exported(role, x) => t.outputs[BlockPlace(x)][AddressInFile(x)] = 1
    BY <1>3, <2>3, ValueResolvesOnly
  <2> QED BY <1>3, <2>4 DEF Plumbed
<1> QED BY <1>1, <1>2, <1>3

(* What is plumbed already is not plumbed again. *)
LEMMA PlumbsNothing ==
  ASSUME project \in Projects, NEW role \in Roles, project.home[role] # None,
         NEW s \in Statement, NEW t \in Tree, Plumbed(t, role, s.resource),
         NEW u, u = PlumbStatement(t, role, s)
  PROVE  SameDeclarations(t, u)
<1>1. s.resource \in Resources /\ s.name \in Nat
  BY DEF Statement
<1>3. \A m \in Modules, a \in Addresses :
        /\ u.outputs[m][a] =
             IF Exported(role, s.resource) /\ m = BlockPlace(s.resource) /\ a = AddressInFile(s.resource)
                /\ t.outputs[m][a] = 0 THEN 1 ELSE t.outputs[m][a]
        /\ u.variables[m][a] =
             IF Imported(role, s.resource) /\ m = project.home[role] /\ a = AddressInFile(s.resource)
                /\ t.variables[m][a] = 0 THEN 1 ELSE t.variables[m][a]
        /\ u.args[m][a] =
             IF Imported(role, s.resource) /\ m = project.home[role] /\ a = AddressInFile(s.resource)
             THEN Value(role, s.resource) ELSE t.args[m][a]
  BY <1>1, PlumbParts
<1> QED BY <1>3 DEF SameDeclarations, Plumbed

(* The loop over statements that are plumbed already. *)
LEMMA ApplyPlumbsNothing ==
  ASSUME project \in Projects, Supported, NEW role \in Roles, project.home[role] # None,
         NEW recs \in Recommendations, NEW t \in Tree, Once(t),
         \A i \in 1..Len(Statements(recs)) : Plumbed(t, role, Statements(recs)[i].resource),
         NEW u, u = ApplyFindingToBlock(t, role, recs)
  PROVE  SameDeclarations(t, u)
<1> DEFINE stmts == Statements(recs)
           start == WithoutPolicies(t, role)
<1>1. stmts \in Seq(Statement) /\ Len(stmts) \in Nat
  BY StatementsTyped
<1>2. start \in Tree /\ SameDeclarations(t, start)
  <2>1. PICK empty : empty = start
    OBVIOUS
  <2>2. empty \in Tree /\ empty.outputs = t.outputs /\ empty.variables = t.variables /\ empty.args = t.args
    BY <2>1, Emptied DEF KeepsOthers
  <2> QED BY <2>1, <2>2 DEF SameDeclarations
<1> HIDE DEF stmts, start
<1>4. PICK trace : /\ trace[0] = start
                   /\ \A k \in 1..Len(stmts) : trace[k] = PlumbStatement(trace[k - 1], role, stmts[k])
                   /\ trace[Len(stmts)] = u
  BY <1>1, ApplyTrace DEF stmts, start
<1> DEFINE S == {k \in 0..Len(stmts) : trace[k] \in Tree /\ SameDeclarations(t, trace[k])}
<1>5. 0 \in S
  BY <1>1, <1>2, <1>4
<1>6. ASSUME NEW k \in 0..Len(stmts), k \in S, k < Len(stmts)
      PROVE  k + 1 \in S
  <2>1. k + 1 \in 1..Len(stmts) /\ k + 1 \in 0..Len(stmts) /\ (k + 1) - 1 = k
    BY <1>1, <1>6
  <2>2. trace[k + 1] = PlumbStatement(trace[k], role, stmts[k + 1])
    BY <1>4, <2>1
  <2>3. stmts[k + 1] \in Statement
    BY <1>1, <2>1
  <2>4. trace[k] \in Tree /\ SameDeclarations(t, trace[k])
    BY <1>6
  <2>5. stmts[k + 1].resource \in Resources
    BY <2>3 DEF Statement
  <2>6. Plumbed(trace[k], role, stmts[k + 1].resource)
    <3>1. Plumbed(t, role, stmts[k + 1].resource)
      BY <2>1 DEF stmts
    <3> QED BY <2>4, <2>5, <3>1, PlumbingTypes DEF Plumbed, SameDeclarations
  <2>7. SameDeclarations(trace[k], trace[k + 1])
    BY <2>2, <2>3, <2>4, <2>6, PlumbsNothing
  <2>8. trace[k + 1] \in Tree
    BY <2>2, <2>3, <2>4, PlumbKeepsOthers DEF KeepsOthers
  <2> QED BY <2>1, <2>4, <2>7, <2>8 DEF SameDeclarations
<1>7. Len(stmts) \in 0..Len(stmts)
  BY <1>1
<1> HIDE DEF S
<1>8. Len(stmts) \in S
  BY <1>1, <1>5, <1>6, <1>7, UpTo
<1> QED BY <1>4, <1>8 DEF S

(* A policy that grants what a statement asks for is that statement's. *)
LEMMA GrantedIsPlumbed ==
  ASSUME project \in Projects, Supported, NEW role \in Roles, project.home[role] # None,
         NEW t, Known(t), NEW p \in t.inline[role], NEW s \in Statement,
         p.name = s.name, p.object = JoinedObject(role, s),
         Resolve(t, project.home[role], p.to) = {s.resource}
  PROVE  p = PolicyOf(role, s) /\ Plumbed(t, role, s.resource)
<1>1. p # OwnPolicy
  <2> SUFFICES ASSUME p = OwnPolicy PROVE FALSE
    OBVIOUS
  <2>1. p.to = None
    BY DEF OwnPolicy
  <2>2. \A place : ResolveValue(t, place, None) = {}
    BY DEF ResolveValue
  <2>3. \A place : Resolve(t, place, None) = {}
    BY <2>2 DEF Resolve
  <2> QED BY <2>1, <2>3
<1>2. PICK z \in Statement : p = PolicyOf(role, z)
  BY <1>1 DEF Known
<1>3. p.name = z.name /\ p.to = Reference(role, z.resource) /\ z.resource \in Resources
  BY <1>2, PolicyTypes DEF Statement
<1>4. Plumbed(t, role, z.resource)
  BY <1>3, ResolvedIsPlumbed
<1>5. Resolve(t, project.home[role], Reference(role, z.resource)) = Reached(z.resource)
  BY <1>3, <1>4, ReferenceResolves
<1>6. z.resource = s.resource
  BY <1>3, <1>5 DEF Reached
<1>7. p = [name |-> s.name, to |-> Reference(role, s.resource), object |-> JoinedObject(role, s)]
  BY <1>2, <1>3, <1>6 DEF PolicyOf
<1> QED BY <1>4, <1>6, <1>7 DEF PolicyOf

(* A finding that is applied has its policies and what they go through. *)
LEMMA AppliedPolicies ==
  ASSUME project \in Projects, Supported, NEW role \in Roles, project.home[role] # None,
         NEW recs \in Recommendations, NEW t, Known(t), Applied(t, role, recs)
  PROVE  PoliciesIn(t, role, recs)
<1> DEFINE stmts == Statements(recs)
           I == 1..Len(stmts)
           G(p) == [name |-> p.name, to |-> Resolve(t, project.home[role], p.to), object |-> p.object]
           W(s) == [name |-> s.name, to |-> {s.resource}, object |-> JoinedObject(role, s)]
           Alike(p, s) == /\ p.name = s.name /\ p.object = JoinedObject(role, s)
                          /\ Resolve(t, project.home[role], p.to) = {s.resource}
<1>1. stmts \in Seq(Statement)
  BY StatementsTyped
<1>2. ToSet(stmts) = {stmts[i] : i \in I} /\ \A i \in I : stmts[i] \in Statement
  BY <1>1 DEF ToSet
<1>3. {G(p) : p \in t.inline[role]} = {W(s) : s \in ToSet(stmts)}
  BY DEF Applied, Granted
<1>4. \A p, s : G(p) = W(s) => Alike(p, s)
  <2> SUFFICES ASSUME NEW p, NEW s, G(p) = W(s)
               PROVE  Alike(p, s)
    OBVIOUS
  <2>1. G(p).name = W(s).name /\ G(p).to = W(s).to /\ G(p).object = W(s).object
    OBVIOUS
  <2> QED BY <2>1
<1> HIDE DEF stmts, I, G, W
<1>5. ASSUME NEW i \in I
      PROVE  PolicyOf(role, stmts[i]) \in t.inline[role] /\ Plumbed(t, role, stmts[i].resource)
  <2>1. PICK p \in t.inline[role] : G(p) = W(stmts[i])
    BY <1>2, <1>3
  <2>2. Alike(p, stmts[i])
    BY <1>4, <2>1
  <2> QED BY <1>2, <2>1, <2>2, GrantedIsPlumbed
<1>6. ASSUME NEW p \in t.inline[role]
      PROVE  \E i \in I : p = PolicyOf(role, stmts[i])
  <2>1. PICK i \in I : G(p) = W(stmts[i])
    BY <1>2, <1>3
  <2>2. Alike(p, stmts[i])
    BY <1>4, <2>1
  <2> QED BY <1>2, <2>1, <2>2, GrantedIsPlumbed
<1>7. t.inline[role] = {PolicyOf(role, stmts[i]) : i \in I}
  BY <1>5, <1>6
<1> QED BY <1>5, <1>7 DEF PoliciesIn, stmts, I

(* Planning it again leaves the cached files as they are. *)
LEMMA PlanChangesNothing ==
  ASSUME Supported, NamesApart, IInv, Known(cache),
         NEW role \in Roles, NEW recs \in Advised, PlanFinding(role, recs), Applied(cache, role, recs)
  PROVE  cache' = cache
<1>1. PICK tree \in Detach(cache, role) : cache' = ApplyFindingToBlock(tree, role, recs)
  BY DEF PlanFinding
<1>2. project \in Projects /\ cache \in Tree /\ Once(cache) /\ recs \in Recommendations
      /\ project.home[role] # None
  BY AdvisedAssumption DEF IInv, TypeOK, PlanFinding, Recommendations
<1>3. tree = cache
  <2>1. /\ tree \in Tree /\ tree.inline = cache.inline /\ tree.args = cache.args
        /\ tree.outputs = cache.outputs /\ tree.variables = cache.variables
        /\ \A a \in Attachments :
             /\ tree.attached[a] \subseteq cache.attached[a]
             /\ \A s \in cache.attached[a] \ tree.attached[a] : TakenFor(a, s, role)
    BY <1>2, DetachParts
  <2>2. \A a \in Attachments, s \in Roles : TakenFor(a, s, role) => s = role
    BY DEF TakenFor, NamesApart
  <2>3. \A a \in Attachments : role \notin cache.attached[a] /\ cache.attached[a] \subseteq Roles
    BY <1>2 DEF Applied, Detached, Tree
  <2>4. \A a \in Attachments : tree.attached[a] = cache.attached[a]
    <3> SUFFICES ASSUME NEW a \in Attachments
                 PROVE  cache.attached[a] \subseteq tree.attached[a]
      BY <2>1
    <3> QED BY <2>1, <2>2, <2>3
  <2>5. SameDeclarations(tree, cache) /\ \A r \in Roles : tree.inline[r] = cache.inline[r]
    BY <2>1 DEF SameDeclarations
  <2> QED BY <1>2, <2>1, <2>4, <2>5, SameTree
<1>4. PICK u : u = ApplyFindingToBlock(cache, role, recs) /\ u = cache'
  BY <1>1, <1>3
<1>5. PoliciesIn(cache, role, recs)
  BY <1>2, AppliedPolicies
<1>6. SameDeclarations(cache, u)
  BY <1>2, <1>4, <1>5, ApplyPlumbsNothing DEF PoliciesIn
<1>7. u.inline[role] = cache.inline[role]
  <2>1. Made(role, cache, u, Statements(recs), Len(Statements(recs)))
    BY <1>2, <1>4, ApplyMakes
  <2> QED BY <1>5, <2>1 DEF Made, PoliciesIn
<1>8. u \in Tree /\ u.attached = cache.attached /\ \A r \in Roles \ {role} : u.inline[r] = cache.inline[r]
  <2>1. KeepsOthers(role, cache, u)
    BY <1>2, <1>4, ApplyKeepsOthers
  <2> QED BY <2>1 DEF KeepsOthers
<1>9. u = cache
  BY <1>2, <1>6, <1>7, <1>8, SameTree
<1> QED BY <1>4, <1>9

(* What is known of a tree depends only on the tree and the project. *)
LEMMA KnownNext ==
  ASSUME project' = project, NEW t, t = cache', NEW u, u = disk'
  PROVE  (Known(cache)' <=> Known(t)) /\ (Known(disk)' <=> Known(u))
BY DEF Known, PolicyOf, JoinedObject, Reference, Imported, Exported, BlockPlace, Value, AddressInFile

(* Every policy and argument stays the user's or a plan's. *)
LEMMA NextKeepsKnown ==
  ASSUME IInv, Known(cache), Known(disk), [Next]_vars
  PROVE  Known(cache)' /\ Known(disk)'
<1>0. PICK t, u : t = cache' /\ u = disk'
  OBVIOUS
<1>1. project' = project
  BY ProjectIsKept
<1> SUFFICES Known(t) /\ Known(u)
  BY <1>0, <1>1, KnownNext
<1>2. CASE \E f \in Files : WriteFile(f)
  <2>1. PICK f \in Files : WriteFile(f)
    BY <1>2
  <2>2. project \in Projects /\ cache \in Tree /\ disk \in Tree /\ u = Copy(f, cache, disk) /\ t = cache
    BY <1>0, <2>1 DEF IInv, TypeOK, WriteFile
  <2>3. /\ \A r \in Roles : u.inline[r] = cache.inline[r] \/ u.inline[r] = disk.inline[r]
        /\ \A m \in Modules : u.args[m] = cache.args[m] \/ u.args[m] = disk.args[m]
    BY <2>2, CopyParts
  <2>4. Known(u)
    BY <2>3 DEF Known
  <2> QED BY <2>2, <2>4
<1>3. CASE \E role \in Roles, recs \in Advised : PlanFinding(role, recs)
  <2>1. PICK role \in Roles, recs \in Advised : PlanFinding(role, recs)
    BY <1>3
  <2>2. PICK tree \in Detach(cache, role) : t = ApplyFindingToBlock(tree, role, recs)
    BY <1>0, <2>1 DEF PlanFinding
  <2>3. project \in Projects /\ cache \in Tree /\ recs \in Recommendations
        /\ project.home[role] # None /\ u = disk
    BY <1>0, <2>1, AdvisedAssumption DEF IInv, TypeOK, PlanFinding, Recommendations
  <2>4. tree \in Tree /\ tree.inline = cache.inline /\ tree.args = cache.args
    BY <2>3, DetachParts
  <2>5. Known(tree)
    BY <2>4 DEF Known
  <2>6. Known(t)
    BY <2>2, <2>3, <2>4, <2>5, ApplyKeepsOthers DEF KeepsOthers
  <2> QED BY <2>3, <2>6
<1>4. CASE disk' = disk /\ cache' = disk
  BY <1>0, <1>4
<1>5. CASE UNCHANGED <<disk, cache>>
  BY <1>0, <1>5
<1> QED BY <1>2, <1>3, <1>4, <1>5
        DEF Next, vars, StartSession, PlanNothing, DetachPanics, Reject, Accept, Fail, Finish, TerraformApply

(* No two blocks of any of the projects have one address. *)
AllApart ==
  \A l \in Projects, x, y \in Resources :
    l.home[x] \in Places /\ l.home[y] \in Places /\ l.address[x] = l.address[y] => x = y

(* Planning a finding that is applied already changes nothing (the          *)
(* AppendIfNotExist functions, terraform.go:395-434): running the command   *)
(* again adds no output, variable or argument.                              *)
THEOREM AppliedIsKept ==
  ASSUME Flat, NamesApart, AllApart
  PROVE  Spec => PlansOnlyChanges
<1>1. Init => Known(cache) /\ Known(disk)
  <2> SUFFICES ASSUME Init PROVE Known(disk)
    BY DEF Init
  <2>1. \A r \in Roles : disk.inline[r] = {OwnPolicy}
    BY DEF Init
  <2>2. \A m \in Modules, a \in Addresses : disk.args[m][a] = None
    BY DEF Init
  <2> QED BY <2>1, <2>2 DEF Known
<1>2. ASSUME IInv, Known(cache), [Next]_vars, pc = "plan", pc' = "prompt",
             Applied(cache, current', recommended'[current'])
      PROVE  cache' = cache
  <2>1. PICK role \in Roles, recs \in Advised : PlanFinding(role, recs)
    BY <1>2 DEF Next, vars, StartSession, PlanNothing, DetachPanics, EndSession, Reject, Accept, WriteFile, Fail,
                Finish, TerraformApply
  <2>2. current' = role /\ recommended'[role] = recs
    BY <1>2, <2>1 DEF PlanFinding, IInv, TypeOK
  <2>3. Applied(cache, role, recs)
    BY <1>2, <2>2
  <2>4. Supported
    BY <1>2 DEF Supported, AddressesApart, AllApart, IInv, TypeOK
  <2> QED BY <1>2, <2>1, <2>3, <2>4, PlanChangesNothing
<1>3. IInv /\ Known(cache) /\ Known(disk) /\ [Next]_vars => Known(cache)' /\ Known(disk)'
  BY NextKeepsKnown
<1>4. IInv /\ Known(cache) /\ [Next]_vars
        => [pc = "plan" /\ pc' = "prompt" /\ Applied(cache, current', recommended'[current'])
              => cache' = cache]_vars
  BY <1>2
<1> QED BY <1>1, <1>3, <1>4, Invariance, PTL DEF Spec, PlansOnlyChanges
=============================================================================
