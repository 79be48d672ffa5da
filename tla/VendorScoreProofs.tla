--------------------------- MODULE VendorScoreProofs ---------------------------
(* Theorems about the numbers of VendorTools: what sums of rows and means of *)
(* answers can amount to, for rows, amounts and answers of any number.       *)
EXTENDS VendorToolsProofs, FiniteSetTheorems

-----------------------------------------------------------------------------
(* Sums.  FoldSet is a recursive function on the subsets of a set; that it   *)
(* exists and what it is bounded by is shown without an induction rule, from *)
(* a least counterexample.                                                   *)

Chosen(s) == CHOOSE x \in s : TRUE

IsSum(g, S, v) ==
    g = [s \in SUBSET S |-> IF s = {} THEN 0 ELSE g[s \ {Chosen(s)}] + v[Chosen(s)]]

LEMMA LeastNumber ==
  ASSUME NEW N \in SUBSET Nat, 0 \in N, \A n \in N : n + 1 \in N
  PROVE  N = Nat
<1>. DEFINE T == Nat \ N
            R == OpToRel(<, Nat)
<1>1. SUFFICES ASSUME T # {} PROVE FALSE
  OBVIOUS
<1>2. PICK m \in T : \A n \in T : ~(<<n, m>> \in R)
  <2>1. IsWellFoundedOn(R, Nat)
    BY NatLessThanWellFounded
  <2>2. T \subseteq Nat
    OBVIOUS
  <2>. HIDE DEF T, R
  <2>. QED  BY <1>1, <2>1, <2>2, WFMin
<1>3. m # 0 /\ m \in Nat
  OBVIOUS
<1>4. m - 1 \in Nat /\ <<m - 1, m>> \in R
  BY <1>3 DEF OpToRel
<1>5. m - 1 \in N
  BY <1>2, <1>4
<1>. QED  BY <1>3, <1>5

LEMMA SumExists ==
  ASSUME NEW S, IsFiniteSet(S), NEW v
  PROVE  \E g : IsSum(g, S, v)
<1>. DEFINE Small(n) == {s \in SUBSET S : Cardinality(s) <= n}
            Partial(g, n) ==
                g = [s \in Small(n) |-> IF s = {} THEN 0 ELSE g[s \ {Chosen(s)}] + v[Chosen(s)]]
            N == {n \in Nat : \E g : Partial(g, n)}
<1>1. \A s \in SUBSET S : IsFiniteSet(s) /\ Cardinality(s) \in Nat
  BY FS_Subset, FS_CardinalityType
<1>2. ASSUME NEW s \in SUBSET S, s # {}
      PROVE  /\ Chosen(s) \in s /\ s \ {Chosen(s)} \in SUBSET S
             /\ Cardinality(s \ {Chosen(s)}) = Cardinality(s) - 1
  <2>1. Chosen(s) \in s
    BY <1>2 DEF Chosen
  <2>. QED  BY <1>1, <2>1, FS_RemoveElement
<1>3. 0 \in N
  <2>1. Small(0) = {{}}
    BY <1>1, FS_EmptySet
  <2>2. Partial([s \in Small(0) |-> 0], 0)
    BY <2>1
  <2>. QED  BY <2>2
<1>4. ASSUME NEW n \in N
      PROVE  n + 1 \in N
  <2>1. PICK g : Partial(g, n)
    OBVIOUS
  <2>. DEFINE h == [s \in Small(n + 1) |-> IF s = {} THEN 0 ELSE g[s \ {Chosen(s)}] + v[Chosen(s)]]
  <2>2. \A s \in Small(n) : h[s] = g[s]
    <3>1. \A s \in Small(n) : s \in Small(n + 1)
      BY <1>1
    <3>. QED  BY <2>1, <3>1
  <2>3. \A s \in Small(n + 1) : s # {} => s \ {Chosen(s)} \in Small(n)
    BY <1>1, <1>2
  <2>4. Partial(h, n + 1)
    BY <2>2, <2>3
  <2>. HIDE DEF h, Partial
  <2>. QED  BY <2>4
<1>5. Cardinality(S) \in N
  <2>1. N \subseteq Nat
    OBVIOUS
  <2>2. N = Nat
    <3>. HIDE DEF N
    <3>. QED  BY <1>3, <1>4, <2>1, LeastNumber
  <2>. QED  BY <2>2, FS_CardinalityType
<1>6. Small(Cardinality(S)) = SUBSET S
  BY FS_Subset
<1>. QED  BY <1>5, <1>6 DEF IsSum

(* A bound that grows with each element by at least its value bounds the sum.*)
LEMMA SumIsBounded ==
  ASSUME NEW S, IsFiniteSet(S), NEW v \in [S -> Int], NEW g, IsSum(g, S, v),
         NEW h \in [SUBSET S -> Int], 0 <= h[{}],
         \A s \in SUBSET S : \A x \in s : h[s \ {x}] + v[x] <= h[s]
  PROVE  \A s \in SUBSET S : g[s] \in Int /\ g[s] <= h[s]
<1>. DEFINE T == {s \in SUBSET S : ~(g[s] \in Int /\ g[s] <= h[s])}
            R == StrictSubsetOrdering(S)
<1>1. SUFFICES ASSUME T # {} PROVE FALSE
  OBVIOUS
<1>2. PICK m \in T : \A n \in T : ~(<<n, m>> \in R)
  <2>1. IsWellFoundedOn(R, SUBSET S)
    BY FS_StrictSubsetOrderingWellFounded, FS_FiniteSubsetsOfFinite
  <2>2. T \subseteq SUBSET S
    OBVIOUS
  <2>. HIDE DEF T, R
  <2>. QED  BY <1>1, <2>1, <2>2, WFMin
<1>3. g[m] = IF m = {} THEN 0 ELSE g[m \ {Chosen(m)}] + v[Chosen(m)]
  BY DEF IsSum
<1>4. CASE m = {}
  BY <1>3, <1>4
<1>5. CASE m # {}
  <2>1. Chosen(m) \in m /\ m \ {Chosen(m)} \in SUBSET S
    BY <1>5 DEF Chosen
  <2>2. <<m \ {Chosen(m)}, m>> \in R
    BY <2>1 DEF StrictSubsetOrdering
  <2>3. g[m \ {Chosen(m)}] \in Int /\ g[m \ {Chosen(m)}] <= h[m \ {Chosen(m)}]
    BY <1>2, <2>1, <2>2
  <2>4. v[Chosen(m)] \in Int /\ h[m \ {Chosen(m)}] \in Int /\ h[m] \in Int
    BY <2>1
  <2>5. h[m \ {Chosen(m)}] + v[Chosen(m)] <= h[m]
    BY <2>1
  <2>. QED  BY <1>3, <1>5, <2>3, <2>4, <2>5
<1>. QED  BY <1>4, <1>5

-----------------------------------------------------------------------------
(* Scores                                                                    *)

LEMMA RoundedIsBounded ==
  ASSUME NEW n \in Nat \ {0}, NEW b \in Nat, NEW sum \in Int, sum <= b * n
  PROVE  Rounded(sum, n) \in Int /\ Rounded(sum, n) <= b
<1>. DEFINE down == sum \div n
            rest == sum % n
<1>1. down \in Int /\ rest \in 0 .. n - 1 /\ sum = n * down + rest
  OBVIOUS
<1>2. Rounded(sum, n) \in {down, down + 1} /\ (rest = 0 => Rounded(sum, n) = down)
  BY <1>1 DEF Rounded
<1>. HIDE DEF down, rest
<1>3. down <= b
  <2>1. SUFFICES ASSUME down >= b + 1 PROVE FALSE
    BY <1>1
  <2>2. n * down >= n * (b + 1)
    BY <1>1, <2>1
  <2>3. n * (b + 1) = b * n + n
    OBVIOUS
  <2>. QED  BY <1>1, <2>2, <2>3
<1>4. down = b => rest = 0
  BY <1>1
<1>. QED  BY <1>1, <1>2, <1>3, <1>4

LEMMA PairSum ==
  ASSUME NEW pairs, IsFiniteSet(pairs), NEW b \in Nat,
         \A p \in pairs : AnswerScore(p.answer) <= b
  PROVE  LET sum == FoldSet(LAMBDA p, s : s + AnswerScore(p.answer), 0, pairs)
         IN  sum \in Int /\ sum <= b * Cardinality(pairs)
<1>. DEFINE sum == FoldSet(LAMBDA p, s : s + AnswerScore(p.answer), 0, pairs)
            v == [p \in pairs |-> AnswerScore(p.answer)]
            h == [s \in SUBSET pairs |-> b * Cardinality(s)]
            Folded(g) == g = [s \in SUBSET pairs |->
                                IF s = {} THEN 0
                                ELSE g[s \ {Chosen(s)}] + AnswerScore(Chosen(s).answer)]
<1>1. v \in [pairs -> Int]
  BY DEF AnswerScore
<1>2. \A g : Folded(g) <=> IsSum(g, pairs, v)
  <2>1. \A s \in SUBSET pairs : s # {} => v[Chosen(s)] = AnswerScore(Chosen(s).answer)
    BY DEF Chosen
  <2>2. [s \in SUBSET pairs |->
            IF s = {} THEN 0 ELSE v[Chosen(s)]] =
        [s \in SUBSET pairs |->
            IF s = {} THEN 0 ELSE AnswerScore(Chosen(s).answer)]
    BY <2>1
  <2>. HIDE DEF v
  <2>. QED  BY <2>1 DEF IsSum
<1>3. sum = (CHOOSE g : Folded(g))[pairs]
  BY DEF FoldSet, MapThenFoldSet, Chosen
<1>4. PICK g : g = (CHOOSE f : Folded(f)) /\ Folded(g)
  <2>1. \E g : Folded(g)
    BY <1>2, SumExists
  <2>. HIDE DEF Folded
  <2>. QED  BY <2>1
<1>5. h \in [SUBSET pairs -> Int] /\ 0 <= h[{}]
      /\ \A s \in SUBSET pairs : \A x \in s : h[s \ {x}] + v[x] <= h[s]
  <2>1. \A s \in SUBSET pairs : IsFiniteSet(s) /\ Cardinality(s) \in Nat
    BY FS_Subset, FS_CardinalityType
  <2>2. ASSUME NEW s \in SUBSET pairs, NEW x \in s
        PROVE  h[s \ {x}] + v[x] <= h[s]
    <3>1. Cardinality(s \ {x}) = Cardinality(s) - 1
      BY <2>1, FS_RemoveElement
    <3>2. b * Cardinality(s \ {x}) = b * Cardinality(s) - b
      BY <2>1, <3>1
    <3>3. v[x] \in Int /\ v[x] <= b
      BY <1>1
    <3>. QED  BY <2>1, <3>2, <3>3
  <2>3. h[{}] = 0
    BY FS_EmptySet
  <2>4. \A s \in SUBSET pairs : b * Cardinality(s) \in Int
    BY <2>1
  <2>5. h \in [SUBSET pairs -> Int]
    BY <2>4
  <2>. HIDE DEF h, v
  <2>. QED  BY <2>2, <2>3, <2>5
<1>. HIDE DEF v, h, Folded, sum
<1>6. g[pairs] \in Int /\ g[pairs] <= h[pairs]
  <2>1. IsSum(g, pairs, v)
    BY <1>2, <1>4
  <2>2. \A s \in SUBSET pairs : g[s] \in Int /\ g[s] <= h[s]
    BY <1>1, <1>5, <2>1, SumIsBounded
  <2>. QED  BY <2>2
<1>7. h[pairs] = b * Cardinality(pairs)
  BY DEF h
<1>. QED  BY <1>3, <1>4, <1>6, <1>7 DEF sum

LEMMA MeanIsBounded ==
  ASSUME NEW pairs, IsFiniteSet(pairs), NEW b \in Nat, 20 <= b,
         \A p \in pairs : AnswerScore(p.answer) <= b
  PROVE  Mean(pairs) \in Int /\ Mean(pairs) <= b
<1>1. CASE pairs = {}
  <2>1. Mean(pairs) = 20
    BY <1>1, Zenon DEF Mean
  <2>. QED  BY <2>1
<1>2. CASE pairs # {}
  <2>. DEFINE sum == FoldSet(LAMBDA p, s : s + AnswerScore(p.answer), 0, pairs)
  <2>1. sum \in Int /\ sum <= b * Cardinality(pairs)
    BY PairSum
  <2>2. Cardinality(pairs) \in Nat \ {0}
    BY <1>2, FS_CardinalityType, FS_EmptySet
  <2>3. Mean(pairs) = Rounded(sum, Cardinality(pairs))
    BY <1>2 DEF Mean
  <2>. HIDE DEF sum
  <2>. QED  BY <2>1, <2>2, <2>3, RoundedIsBounded
<1>. QED  BY <1>1, <1>2

LEMMA CriSum ==
  ASSUME NEW scores \in [Dimensions -> Int], NEW d0 \in {"delivery_reliability", "risk_compliance"},
         scores[d0] <= 20, scores["commercial_value"] <= 100,
         \A d \in Dimensions \ {"commercial_value"} : scores[d] <= 92
  PROVE  LET sum == FoldSet(LAMBDA d, s : s + scores[d], 0, Dimensions)
         IN  sum \in Int /\ sum <= 396
<1>. DEFINE sum == FoldSet(LAMBDA d, s : s + scores[d], 0, Dimensions)
            most(d) == IF d = d0 THEN 20 ELSE IF d = "commercial_value" THEN 100 ELSE 92
            h == [s \in SUBSET Dimensions |->
                    92 * Cardinality(s) + (IF "commercial_value" \in s THEN 8 ELSE 0)
                                        - (IF d0 \in s THEN 72 ELSE 0)]
            Folded(g) == g = [s \in SUBSET Dimensions |->
                                IF s = {} THEN 0 ELSE g[s \ {Chosen(s)}] + scores[Chosen(s)]]
<1>1. IsFiniteSet(Dimensions) /\ Cardinality(Dimensions) = 5
  <2>. DEFINE s1 == {"delivery_reliability"}
              s2 == s1 \cup {"responsiveness"}
              s3 == s2 \cup {"commercial_value"}
              s4 == s3 \cup {"risk_compliance"}
              s5 == s4 \cup {"relationship_trend"}
  <2>1. /\ "responsiveness" \notin s1 /\ "commercial_value" \notin s2
        /\ "risk_compliance" \notin s3 /\ "relationship_trend" \notin s4
        /\ Dimensions = s5
    BY DEF Dimensions
  <2>2. IsFiniteSet(s1) /\ Cardinality(s1) = 1
    BY FS_Singleton
  <2>. HIDE DEF s1
  <2>3. IsFiniteSet(s2) /\ Cardinality(s2) = 2
    BY <2>1, <2>2, FS_AddElement
  <2>. HIDE DEF s2
  <2>4. IsFiniteSet(s3) /\ Cardinality(s3) = 3
    BY <2>1, <2>3, FS_AddElement
  <2>. HIDE DEF s3
  <2>5. IsFiniteSet(s4) /\ Cardinality(s4) = 4
    BY <2>1, <2>4, FS_AddElement
  <2>. HIDE DEF s4
  <2>6. IsFiniteSet(s5) /\ Cardinality(s5) = 5
    BY <2>1, <2>5, FS_AddElement
  <2>. QED  BY <2>1, <2>6
<1>2. sum = (CHOOSE g : Folded(g))[Dimensions]
  BY DEF FoldSet, MapThenFoldSet, Chosen
<1>3. PICK g : g = (CHOOSE f : Folded(f)) /\ IsSum(g, Dimensions, scores)
  <2>1. \A g : Folded(g) <=> IsSum(g, Dimensions, scores)
    BY DEF IsSum
  <2>2. \E g : IsSum(g, Dimensions, scores)
    BY <1>1, SumExists
  <2>. HIDE DEF Folded
  <2>. QED  BY <2>1, <2>2
<1>4. \A s \in SUBSET Dimensions : IsFiniteSet(s) /\ Cardinality(s) \in Nat
  BY <1>1, FS_Subset, FS_CardinalityType
<1>5. h \in [SUBSET Dimensions -> Int]
  BY <1>4
<1>6. h[{}] = 0
  BY FS_EmptySet
<1>7. ASSUME NEW s \in SUBSET Dimensions, NEW x \in s
      PROVE  h[s \ {x}] + scores[x] <= h[s]
  <2>1. Cardinality(s \ {x}) = Cardinality(s) - 1
    BY <1>4, FS_RemoveElement
  <2>2. scores[x] \in Int /\ scores[x] <= most(x)
    OBVIOUS
  <2>3. h[s \ {x}] + most(x) = h[s]
    BY <1>4, <2>1
  <2>. HIDE DEF h, most
  <2>4. h[s \ {x}] \in Int /\ h[s] \in Int
    BY <1>5
  <2>5. most(x) \in Int
    BY DEF most
  <2>. QED  BY <2>2, <2>3, <2>4, <2>5
<1>8. h[Dimensions] = 396
  BY <1>1 DEF Dimensions
<1>. HIDE DEF sum, h, Folded, most
<1>9. \A s \in SUBSET Dimensions : g[s] \in Int /\ g[s] <= h[s]
  <2>1. IsSum(g, Dimensions, scores) /\ 0 <= h[{}]
    BY <1>3, <1>6
  <2>2. \A s \in SUBSET Dimensions : \A x \in s : h[s \ {x}] + scores[x] <= h[s]
    BY <1>7
  <2>. QED  BY <1>1, <1>5, <2>1, <2>2, SumIsBounded
<1>10. g[Dimensions] \in Int /\ g[Dimensions] <= 396
  BY <1>8, <1>9
<1>11. sum = g[Dimensions]
  BY <1>2, <1>3
<1>. QED  BY <1>10, <1>11 DEF sum

(* One critical question without any answer keeps the mean of the five       *)
(* scores below the mark of a healthy vendor, whatever the others score.     *)
LEMMA FailedQuestionLowersCri ==
  ASSUME NEW pairs, IsFiniteSet(pairs), \A p \in pairs : p.answer \in Answers,
         NEW q \in CriticalQuestions, \A p \in pairs : p.question = q => p.answer.failed
  PROVE  Cri(Scores(pairs)) \in Int /\ Cri(Scores(pairs)) < 80
<1>1. \A p \in pairs : /\ AnswerScore(p.answer) <= 92
                       /\ p.answer.failed => AnswerScore(p.answer) <= 20
  <2>1. \A a \in Answers : a.failed => a = NoAnswer
    BY DEF Answers, NoAnswer, Answer
  <2>2. AnswerScore(NoAnswer) <= 20
    BY DEF AnswerScore, NoAnswer, Answer
  <2>3. \A a : AnswerScore(a) <= 92
    BY DEF AnswerScore
  <2>. QED  BY <2>1, <2>2, <2>3
<1>2. ASSUME NEW d \in Dimensions
      PROVE  /\ IsFiniteSet(Counted(pairs, d))
             /\ \A p \in Counted(pairs, d) : p \in pairs
  <2>1. Counted(pairs, d) \in SUBSET pairs
    BY DEF Counted
  <2>. QED  BY <2>1, FS_Subset
<1>3. ASSUME NEW d \in Dimensions
      PROVE  Mean(Counted(pairs, d)) \in Int /\ Mean(Counted(pairs, d)) <= 92
  BY <1>1, <1>2, MeanIsBounded
<1>. DEFINE d0 == IF q = "Q1" THEN "delivery_reliability" ELSE "risk_compliance"
<1>4. d0 \in Dimensions /\ d0 \in {"delivery_reliability", "risk_compliance"}
  BY DEF Dimensions
<1>5. Mean(Counted(pairs, d0)) <= 20
  <2>1. \A p \in Counted(pairs, d0) : p.question = q
    BY DEF Counted, DimensionQuestions, CriticalQuestions
  <2>. HIDE DEF d0
  <2>2. \A p \in Counted(pairs, d0) : AnswerScore(p.answer) <= 20
    BY <1>1, <1>2, <1>4, <2>1
  <2>. QED  BY <1>2, <1>4, <2>2, MeanIsBounded
<1>6. ASSUME NEW x \in Int
      PROVE  Min({100, x}) \in Int /\ Min({100, x}) <= 100
  BY DEF Min
<1>7. PICK scores \in [Dimensions -> Int] :
        /\ scores = Scores(pairs) /\ scores[d0] <= 20 /\ scores["commercial_value"] <= 100
        /\ \A d \in Dimensions \ {"commercial_value"} : scores[d] <= 92
  <2>. HIDE DEF d0
  <2>1. \A d \in Dimensions \ {"commercial_value"} : Scores(pairs)[d] = Mean(Counted(pairs, d))
    BY DEF Scores
  <2>2. "commercial_value" \in Dimensions
    BY DEF Dimensions
  <2>3. Scores(pairs)["commercial_value"] = Min({100, Mean(Counted(pairs, "commercial_value")) + 8})
    BY <2>2 DEF Scores
  <2>4. Scores(pairs)["commercial_value"] \in Int /\ Scores(pairs)["commercial_value"] <= 100
    BY <1>3, <1>6, <2>2, <2>3
  <2>5. Scores(pairs) \in [Dimensions -> Int]
    <3>1. \A d \in Dimensions : Scores(pairs)[d] \in Int
      BY <1>3, <2>1, <2>4
    <3>2. Scores(pairs) = [d \in Dimensions |-> Scores(pairs)[d]]
      BY DEF Scores
    <3>. QED  BY <3>1, <3>2
  <2>. QED  BY <1>3, <1>4, <1>5, <2>1, <2>4, <2>5
<1>8. PICK sum \in Int : sum <= 396 /\ Cri(scores) = Rounded(sum, 5)
  <2>. HIDE DEF d0
  <2>. QED  BY <1>4, <1>7, CriSum DEF Cri
<1>9. Rounded(sum, 5) \in Int /\ Rounded(sum, 5) <= 79
  BY <1>8 DEF Rounded
<1>. QED  BY <1>7, <1>8, <1>9

-----------------------------------------------------------------------------
(* Rows                                                                      *)

Rows == [match: {"HIGH", "MEDIUM", "UNMATCHED"}, known: {TRUE, FALSE}, amount: Int, start: Int, end: Int,
         official: BOOLEAN]

LEMMA FiniteImage ==
  ASSUME NEW S, IsFiniteSet(S), NEW f
  PROVE  IsFiniteSet({f[x] : x \in S})
<1>. DEFINE g == [x \in S |-> f[x]]
            T == {f[x] : x \in S}
<1>1. g \in Surjection(S, T)
  BY DEF Surjection
<1>. HIDE DEF g, T
<1>2. IsFiniteSet(T)
  BY <1>1, FS_Surjection
<1>. QED  BY <1>2 DEF T

LEMMA DeduplicatedRows ==
  ASSUME NEW rows \in Seq(Rows), NEW same_invoice \in BOOLEAN
  PROVE  Deduplicated(rows, same_invoice) \in Seq(Rows)
<1>. DEFINE S == ToSet(rows)
            n == Cardinality(S)
<1>1. S \subseteq Rows
  BY DEF ToSet
<1>2. IsFiniteSet(S)
  <2>1. DOMAIN rows = 1 .. Len(rows) /\ Len(rows) \in Nat
    OBVIOUS
  <2>2. IsFiniteSet(DOMAIN rows)
    BY <2>1, FS_Interval
  <2>. QED  BY <2>2, FiniteImage DEF ToSet
<1>3. n \in Nat /\ \E f \in [1 .. n -> S] : IsInjective(f)
  <2>1. n \in Nat /\ ExistsBijection(1 .. n, S)
    BY <1>2, FS_CardinalityType
  <2>. HIDE DEF S, n
  <2>. QED  BY <2>1 DEF ExistsBijection, Bijection, Injection
<1>4. SetToSeq(S) \in [1 .. n -> S]
  BY <1>3 DEF SetToSeq
<1>. HIDE DEF S, n
<1>5. SetToSeq(S) \in Seq(Rows)
  <2>1. SetToSeq(S) \in [1 .. n -> Rows]
    BY <1>1, <1>4
  <2>. QED  BY <1>3, <2>1
<1>. QED  BY <1>5 DEF Deduplicated, S

LEMMA CostTypes ==
  ASSUME NEW cost \in Costs
  PROVE  cost.known \in {TRUE, FALSE} /\ cost.amount \in Int
<1>1. CASE cost = [known |-> FALSE, amount |-> 0]
  <2>1. cost.known \in {TRUE, FALSE}
    BY <1>1
  <2>2. cost.amount = 0
    BY <1>1
  <2>3. cost.amount \in Int
    BY <2>2
  <2>. QED  BY <2>1, <2>3
<1>2. CASE cost \in [known : {TRUE}, amount : Amounts]
  <2>1. cost.known \in {TRUE} /\ cost.amount \in Amounts
    BY <1>2
  <2>2. cost.known \in {TRUE, FALSE}
    BY <2>1
  <2>3. cost.amount \in Int
    BY <2>1, SpendAssumption
  <2>. QED  BY <2>2, <2>3
<1>. QED  BY <1>1, <1>2 DEF Costs

LEMMA RowTypes ==
  ASSUME NEW match \in {"HIGH", "MEDIUM", "UNMATCHED"}, NEW known \in {TRUE, FALSE},
         NEW amount \in Int, NEW start \in Int, NEW end \in Int, NEW official \in BOOLEAN
  PROVE  Row(match, known, amount, start, end, official) \in Rows
BY DEF Row, Rows

LEMMA FilesHaveRows ==
  ASSUME NEW match \in {"HIGH", "MEDIUM", "UNMATCHED"}, NEW official \in BOOLEAN
  PROVE  FileRows(match, official) \subseteq Seq(Rows)
<1>1. ASSUME NEW cost \in Costs, NEW date \in Int
      PROVE  Row(match, cost.known, cost.amount, date, date, official) \in Rows
  <2>1. cost.known \in {TRUE, FALSE} /\ cost.amount \in Int
    BY CostTypes
  <2>. QED  BY <2>1 DEF Row, Rows
<1>2. Dates \subseteq Int
  BY DEF Dates, NoDate
<1>3. Files(match, official) \subseteq Seq(Rows)
  <2>1. ASSUME NEW n \in {1, 3}, NEW cost \in Costs, NEW date \in Dates
        PROVE  [i \in 1 .. n |-> Row(match, cost.known, cost.amount, date, date, official)] \in Seq(Rows)
    BY <1>1, <1>2
  <2>2. ASSUME NEW cost \in Costs
        PROVE  [i \in 1 .. 3 |-> Row(match, cost.known, cost.amount, i - 1, i - 1, official)] \in Seq(Rows)
    BY <1>1
  <2>3. ASSUME NEW rows \in Files(match, official)
        PROVE  rows \in Seq(Rows)
    <3>1. \/ \E n \in {1, 3}, cost \in Costs, date \in Dates :
                rows = [i \in 1 .. n |-> Row(match, cost.known, cost.amount, date, date, official)]
          \/ \E cost \in Costs :
                rows = [i \in 1 .. 3 |-> Row(match, cost.known, cost.amount, i - 1, i - 1, official)]
      BY DEF Files
    <3>2. ASSUME NEW n \in {1, 3}, NEW cost \in Costs, NEW date \in Dates,
                 rows = [i \in 1 .. n |-> Row(match, cost.known, cost.amount, date, date, official)]
          PROVE  rows \in Seq(Rows)
      BY ONLY <3>2, <2>1
    <3>3. ASSUME NEW cost \in Costs,
                 rows = [i \in 1 .. 3 |-> Row(match, cost.known, cost.amount, i - 1, i - 1, official)]
          PROVE  rows \in Seq(Rows)
      BY ONLY <3>3, <2>2
    <3>. QED  BY <3>1, <3>2, <3>3
  <2>. QED  BY <2>3
<1>. QED  BY <1>3, DeduplicatedRows DEF FileRows

LEMMA CollectedRows ==
  ASSUME NEW connector \in ConnectorRows, NEW upload \in UploadRows, NEW checkin \in CheckinRows
  PROVE  connector \o upload \o checkin \in Seq(Rows)
<1>1. <<>> \in Seq(Rows)
  OBVIOUS
<1>2. connector \in Seq(Rows)
  BY <1>1, FilesHaveRows DEF ConnectorRows
<1>3. upload \in Seq(Rows)
  <2>1. \A named \in BOOLEAN : Match(named) \in {"HIGH", "MEDIUM", "UNMATCHED"}
    BY DEF Match
  <2>2. \A named \in BOOLEAN : FileRows(Match(named), FALSE) \subseteq Seq(Rows)
    BY <2>1, FilesHaveRows
  <2>. QED  BY <1>1, <2>2 DEF UploadRows
<1>4. checkin \in Seq(Rows)
  <2>1. ASSUME NEW cost \in Costs, NEW start \in {1, 2}
        PROVE  CheckinRow(cost, start) \in Rows
    <3>1. cost.known \in {TRUE, FALSE} /\ cost.amount \in Int
      BY CostTypes
    <3>2. start \in Int /\ 2 \in Int /\ FALSE \in BOOLEAN /\ "HIGH" \in {"HIGH", "MEDIUM", "UNMATCHED"}
      OBVIOUS
    <3>. QED  BY <3>1, <3>2, RowTypes, Zenon DEF CheckinRow
  <2>2. \/ checkin = <<>>
        \/ \E cost \in Costs, start \in {1, 2} : checkin = <<CheckinRow(cost, start)>>
        \/ \E cost \in Costs : checkin = <<CheckinRow(cost, 2), CheckinRow(cost, 1)>>
    BY DEF CheckinRows
  <2>3. \A r1, r2 \in Rows : <<r1>> \in Seq(Rows) /\ <<r1, r2>> \in Seq(Rows)
    OBVIOUS
  <2>. QED  BY <1>1, <2>1, <2>2, <2>3
<1>. QED  BY <1>2, <1>3, <1>4

(* Rows that cost nothing sum up to nothing.                                 *)
LEMMA ZeroSum ==
  ASSUME NEW records, NEW rows, IsFiniteSet(rows), \A i \in rows : records[i].amount = 0
  PROVE  Sum(records, rows) = 0
<1>. DEFINE v == [i \in rows |-> records[i].amount]
            Folded(g) == g = [s \in SUBSET rows |->
                                IF s = {} THEN 0
                                ELSE g[s \ {Chosen(s)}] + records[Chosen(s)].amount]
<1>1. \A s \in SUBSET rows : s # {} => Chosen(s) \in rows /\ records[Chosen(s)].amount = 0
  BY DEF Chosen
<1>2. Sum(records, rows) = (CHOOSE g : Folded(g))[rows]
  BY DEF Sum, FoldSet, MapThenFoldSet, Chosen
<1>3. PICK g : g = (CHOOSE f : Folded(f)) /\ Folded(g)
  <2>1. Folded([s \in SUBSET rows |-> 0])
    BY <1>1
  <2>. DEFINE zero == [s \in SUBSET rows |-> 0]
  <2>. HIDE DEF Folded
  <2>. QED  BY <2>1
<1>. DEFINE T == {s \in SUBSET rows : g[s] # 0}
            R == StrictSubsetOrdering(rows)
<1>4. SUFFICES ASSUME T # {} PROVE FALSE
  <2>1. rows \in SUBSET rows
    OBVIOUS
  <2>. QED  BY <1>2, <1>3, <2>1
<1>5. PICK m \in T : \A n \in T : ~(<<n, m>> \in R)
  <2>1. IsWellFoundedOn(R, SUBSET rows)
    BY FS_StrictSubsetOrderingWellFounded, FS_FiniteSubsetsOfFinite
  <2>2. T \subseteq SUBSET rows
    OBVIOUS
  <2>. HIDE DEF T, R
  <2>. QED  BY <1>4, <2>1, <2>2, WFMin
<1>6. m # {} /\ m \in SUBSET rows
  BY <1>3
<1>7. Chosen(m) \in m
  BY <1>6 DEF Chosen
<1>8. <<m \ {Chosen(m)}, m>> \in R
  BY <1>6, <1>7 DEF StrictSubsetOrdering
<1>9. g[m \ {Chosen(m)}] = 0
  BY <1>5, <1>6, <1>8
<1>10. g[m] = g[m \ {Chosen(m)}] + records[Chosen(m)].amount
  BY <1>3, <1>6
<1>. QED  BY <1>1, <1>6, <1>9, <1>10

(* What the summary says of the rows a person would count.                   *)
Agrees(summary, seen) ==
    /\ summary.completeness = "FULL" => seen.linked >= 3 /\ seen.quarters >= 2
    /\ summary.recent => seen.recent
    /\ ~seen.charged => summary.total = 0 /\ summary.ttm = 0
    /\ seen.linked = 0 =>
          /\ ~summary.any /\ ~summary.recent
          /\ summary.rows => summary.completeness = "SPARSE" /\ summary.confidence = "LOW"
          /\ summary.completeness \in {"NONE", "SPARSE"}

LEMMA SummaryOfRows ==
  ASSUME NEW records \in Seq(Rows)
  PROVE  Agrees(Summary(records), Seen(records))
<1>. DEFINE own == {i \in DOMAIN records : records[i].match # "UNMATCHED" /\ records[i].known}
            year == {i \in own : WithinTheYear(records[i])}
            quarters == {Quarter(records[i]) : i \in own} \ {NoDate}
<1>1. Matched(records) = own
  <2>1. \A i \in DOMAIN records : records[i].match \in {"HIGH", "MEDIUM", "UNMATCHED"}
    <3>1. \A i \in DOMAIN records : records[i] \in Rows
      OBVIOUS
    <3>. QED  BY <3>1 DEF Rows
  <2>. QED  BY <2>1 DEF Matched, AllRows
<1>2. IsFiniteSet(own) /\ IsFiniteSet(year) /\ Cardinality(own) \in Nat
  <2>1. DOMAIN records = 1 .. Len(records) /\ Len(records) \in Nat
    OBVIOUS
  <2>2. IsFiniteSet(DOMAIN records)
    BY <2>1, FS_Interval
  <2>3. own \in SUBSET DOMAIN records /\ year \in SUBSET DOMAIN records
    OBVIOUS
  <2>. HIDE DEF own, year
  <2>. QED  BY <2>2, <2>3, FS_Subset, FS_CardinalityType
<1>3. Cardinality(quarters) \in Nat
  <2>. DEFINE f == [i \in own |-> Quarter(records[i])]
              T == {f[i] : i \in own}
  <2>1. quarters = T \ {NoDate}
    OBVIOUS
  <2>. HIDE DEF own, quarters, f
  <2>2. IsFiniteSet(T)
    BY <1>2, FiniteImage
  <2>. HIDE DEF T
  <2>3. IsFiniteSet(quarters)
    BY <2>1, <2>2, FS_Difference
  <2>. QED  BY <2>3, FS_CardinalityType
<1>4. PICK summary, seen :
        /\ summary = Summary(records) /\ seen = Seen(records)
        /\ summary.any = (own # {}) /\ summary.recent = (year # {})
        /\ summary.total = Sum(records, own) /\ summary.ttm = Sum(records, year)
        /\ summary.completeness = Completeness(own, records)
        /\ summary.confidence = SpendConfidence(summary.completeness, records)
        /\ summary.rows = (records # <<>>)
        /\ seen.linked = Cardinality(own) /\ seen.quarters = Cardinality(quarters)
        /\ seen.recent = (\E i \in own : WithinTheYear(records[i]))
        /\ seen.charged = (\E i \in own : records[i].amount # 0)
  <2>1. Summary(records).any = (own # {}) /\ Summary(records).recent = (year # {})
    BY <1>1 DEF Summary
  <2>2. /\ Summary(records).total = Sum(records, own) /\ Summary(records).ttm = Sum(records, year)
        /\ Summary(records).completeness = Completeness(own, records)
        /\ Summary(records).confidence = SpendConfidence(Completeness(own, records), records)
    BY <1>1 DEF Summary
  <2>3. Summary(records).rows = (records # <<>>)
    BY DEF Summary
  <2>4. /\ Seen(records).linked = Cardinality(own)
        /\ Seen(records).quarters = Cardinality(quarters)
    BY DEF Seen
  <2>5. Seen(records).recent = (\E i \in own : WithinTheYear(records[i]))
    BY DEF Seen
  <2>6. Seen(records).charged = (\E i \in own : records[i].amount # 0)
    BY DEF Seen
  <2>. HIDE DEF own, year, quarters
  <2>. QED  BY <2>1, <2>2, <2>3, <2>4, <2>5, <2>6
<1>5. summary.completeness = "FULL" => seen.linked >= 3 /\ seen.quarters >= 2
  <2>1. Quarters(records, own) = quarters
    BY DEF Quarters
  <2>. HIDE DEF own, quarters
  <2>2. ASSUME Completeness(own, records) = "FULL"
        PROVE  ~(Cardinality(own) < 3) /\ ~(Cardinality(Quarters(records, own)) < 2)
    <3>1. ~(records = <<>>) /\ ~(records # <<>> /\ Cardinality(own) < 3)
      BY <2>2 DEF Completeness
    <3>2. Cardinality(own) >= 3
      BY <1>2, <3>1
    <3>. QED  BY <2>2, <3>1, <3>2 DEF Completeness
  <2>. QED  BY <1>2, <1>3, <1>4, <2>1, <2>2
<1>6. summary.recent => seen.recent
  BY <1>4
<1>7. ~seen.charged => summary.total = 0 /\ summary.ttm = 0
  <2>1. ~seen.charged => (\A i \in own : records[i].amount = 0) /\ (\A i \in year : records[i].amount = 0)
    BY <1>4
  <2>. HIDE DEF own, year
  <2>. QED  BY <1>2, <1>4, <2>1, ZeroSum
<1>8. ASSUME seen.linked = 0
      PROVE  /\ ~summary.any /\ ~summary.recent
             /\ summary.rows => summary.completeness = "SPARSE" /\ summary.confidence = "LOW"
             /\ summary.completeness \in {"NONE", "SPARSE"}
  <2>1. own = {} /\ year = {}
    <3>1. own = {}
      <4>. HIDE DEF own
      <4>. QED  BY <1>2, <1>4, <1>8, FS_EmptySet
    <3>. QED  BY <3>1
  <2>2. ~summary.any /\ ~summary.recent
    BY <1>4, <2>1
  <2>3. Cardinality(own) = 0
    BY <1>4, <1>8
  <2>. HIDE DEF own, year
  <2>4. Completeness(own, records) = IF records = <<>> THEN "NONE" ELSE "SPARSE"
    BY <2>3 DEF Completeness
  <2>5. SpendConfidence("SPARSE", records) = "LOW"
    BY DEF SpendConfidence
  <2>6. summary.rows => summary.completeness = "SPARSE" /\ summary.confidence = "LOW"
    BY <1>4, <2>4, <2>5
  <2>7. summary.completeness \in {"NONE", "SPARSE"}
    BY <1>4, <2>4
  <2>. QED  BY <2>2, <2>6, <2>7
<1>. QED  BY <1>4, <1>5, <1>6, <1>7, <1>8 DEF Agrees

(* Contracts alone, however long and renewing, do not make a vendor one that *)
(* the client depends on.                                                    *)
LEMMA DependencyNeedsCharges ==
  ASSUME NEW summary, summary.total = 0, summary.ttm = 0, NEW contracts,
         NEW category \in {"strategic", "other", "none"}, NEW alternatives \in BOOLEAN
  PROVE  LET class == Classification(summary, contracts, category, alternatives)
         IN  class.tier \notin {"CRITICAL", "HIGH"} /\ class.type # "STRATEGIC"
<1>1. ~SingleSource(summary, alternatives)
  BY DEF SingleSource
<1>2. Coverage(contracts) \in {0, 100, 200}
  BY DEF Coverage
<1>3. CategoryScore(category) \in {45, 75, 150}
  BY DEF CategoryScore
<1>. DEFINE spent == IF summary.recent THEN 50 * Min({summary.ttm, 5}) ELSE 0
            single == IF SingleSource(summary, alternatives) THEN 150 ELSE 0
            lasting == CASE Duration(contracts) > 36 -> 150
                         [] Duration(contracts) \in 12 .. 36 -> 75
                         [] OTHER -> 0
            renewing == IF Some(contracts, LAMBDA c : c.renews) THEN 100 ELSE 0
<1>4. spent = 0 /\ single = 0
  <2>1. Min({summary.ttm, 5}) = 0
    BY DEF Min
  <2>. QED  BY <1>1, <2>1
<1>5. lasting \in {0, 75, 150} /\ renewing \in {0, 100}
  BY DEF Some
<1>6. DependencyScore(summary, contracts, category, alternatives) =
        Max({0, spent + Coverage(contracts) + single + lasting + renewing + CategoryScore(category)})
  BY DEF DependencyScore, Some
<1>. HIDE DEF spent, single, lasting, renewing
<1>7. PICK score \in Int :
        score = DependencyScore(summary, contracts, category, alternatives) /\ score <= 600
  <2>1. ASSUME NEW x \in Int, x <= 600
        PROVE  Max({0, x}) \in Int /\ Max({0, x}) <= 600
    BY <2>1 DEF Max
  <2>2. PICK x \in Int :
          /\ x = spent + Coverage(contracts) + single + lasting + renewing + CategoryScore(category)
          /\ x <= 600
    BY <1>2, <1>3, <1>4, <1>5
  <2>. QED  BY <1>6, <2>1, <2>2
<1>8. RelationshipType(score, summary.completeness) # "STRATEGIC"
  BY <1>7 DEF RelationshipType
<1>9. DependencyTier(score, SingleSource(summary, alternatives)) \notin {"CRITICAL", "HIGH"}
  BY <1>1, <1>7 DEF DependencyTier
<1>. QED  BY <1>7, <1>8, <1>9 DEF Classification, Unclassified

-----------------------------------------------------------------------------
(* The inductive invariant                                                   *)

(* Few answers, of the words that may come back.                             *)
AnswersAreKnown ==
    stage \in AnalysisStages =>
        /\ "pairs" \in DOMAIN work
        /\ IsFiniteSet(work.pairs)
        /\ \A p \in work.pairs : p.answer \in Answers

CriIsOfThePairs ==
    stage \in {"trend", "findings", "narrate"} =>
        "cri" \in DOMAIN work /\ work.cri = Cri(Scores(work.pairs))

(* The rows collected, and no contract without a document.                   *)
RowsAreKept ==
    stage \in {"documents", "aggregate"} =>
        {"records", "contracts", "documents"} \subseteq DOMAIN work /\ work.records \in Seq(Rows)

ContractsHaveDocuments ==
    stage \in {"documents", "aggregate", "classify", "assemble"} =>
        /\ {"contracts", "documents"} \subseteq DOMAIN work
        /\ work.documents \in Nat
        /\ work.documents = 0 => work.contracts = <<>>

SummaryAgrees ==
    stage \in {"classify", "assemble"} =>
        {"summary", "seen"} \subseteq DOMAIN work /\ Agrees(work.summary, work.seen)

ClassIsOfTheSummary ==
    stage = "assemble" =>
        /\ "class" \in DOMAIN work
        /\ \E category \in {"strategic", "other", "none"}, alternatives \in BOOLEAN :
              work.class = Classification(work.summary, work.contracts, category, alternatives)

NumbersInv ==
    /\ Waiting
    /\ AnswersAreKnown /\ CriIsOfThePairs
    /\ RowsAreKept /\ ContractsHaveDocuments /\ SummaryAgrees /\ ClassIsOfTheSummary
    /\ DependencyIsBacked /\ WeakDataIsFlagged /\ FailuresNeverFlatter

-----------------------------------------------------------------------------
(* Steps that write no document                                              *)

LEMMA UnsaidStep ==
  ASSUME NumbersInv, stage # "done", UNCHANGED result
  PROVE  Waiting' /\ DependencyIsBacked' /\ WeakDataIsFlagged' /\ FailuresNeverFlatter'
<1>1. result' = NoResult
  BY DEF NumbersInv, Waiting
<1>. QED
  BY <1>1 DEF NoResult, Waiting, DependencyIsBacked, WeakDataIsFlagged, FailuresNeverFlatter, Analysed

(* A document that promises nothing about numbers.                           *)
LEMMA OtherDocument ==
  ASSUME stage' = "done",
         result'.process \in {"enrichment"} \/ (result'.process = "analysis" /\ result'.status = "FAILED")
  PROVE  NumbersInv'
BY DEF NumbersInv, Waiting, AnswersAreKnown, CriIsOfThePairs, RowsAreKept, ContractsHaveDocuments,
       SummaryAgrees, ClassIsOfTheSummary, DependencyIsBacked, WeakDataIsFlagged,
       FailuresNeverFlatter, Analysed, AnalysisStages

EnrichmentStages == {"collect", "extract", "map", "create"}
RsStages == {"documents", "aggregate", "classify", "assemble"}

LEMMA SilentStep ==
  ASSUME NumbersInv, stage # "done", UNCHANGED result, stage' \in EnrichmentStages \cup {"failed"}
  PROVE  NumbersInv'
<1>1. /\ AnswersAreKnown' /\ CriIsOfThePairs' /\ RowsAreKept' /\ ContractsHaveDocuments'
      /\ SummaryAgrees' /\ ClassIsOfTheSummary'
  BY DEF AnswersAreKnown, CriIsOfThePairs, RowsAreKept, ContractsHaveDocuments, SummaryAgrees,
         ClassIsOfTheSummary, AnalysisStages, EnrichmentStages
<1>. QED  BY <1>1, UnsaidStep DEF NumbersInv

LEMMA InitNumbers == Init => NumbersInv
<1>. SUFFICES ASSUME Init PROVE NumbersInv
  OBVIOUS
<1>1. stage \in {"collect", "collect_rs", "inquire"} /\ result = NoResult
  BY DEF Init, StartEnrichment, StartRs, StartAnalysis
<1>2. stage = "inquire" => work = [pairs |-> {}]
  BY DEF Init, StartEnrichment, StartRs, StartAnalysis
<1>3. AnswersAreKnown
  BY <1>1, <1>2, FS_EmptySet DEF AnswersAreKnown, AnalysisStages
<1>4. /\ CriIsOfThePairs /\ RowsAreKept /\ ContractsHaveDocuments
      /\ SummaryAgrees /\ ClassIsOfTheSummary
  BY <1>1 DEF CriIsOfThePairs, RowsAreKept, ContractsHaveDocuments, SummaryAgrees, ClassIsOfTheSummary
<1>5. Waiting /\ DependencyIsBacked /\ WeakDataIsFlagged /\ FailuresNeverFlatter
  BY <1>1 DEF NoResult, Waiting, DependencyIsBacked, WeakDataIsFlagged, FailuresNeverFlatter, Analysed
<1>. QED  BY <1>3, <1>4, <1>5 DEF NumbersInv

LEMMA EnrichmentKeepsNumbers ==
  ASSUME NumbersInv, EnrichmentStep
  PROVE  NumbersInv'
<1>1. CASE CollectSource \/ CollectContract \/ ExtractAttributes \/ MapRelationships
  <2>1. stage # "done" /\ stage' \in EnrichmentStages /\ UNCHANGED result
    BY <1>1 DEF CollectSource, CollectContract, ExtractAttributes, MapRelationships, Produce,
                EnrichmentStages
  <2>. QED  BY <2>1, SilentStep
<1>2. CASE CreateProfile
  <2>1. stage' = "done" /\ result'.process = "enrichment"
    BY <1>2 DEF CreateProfile, Deliver, EnrichedProfile, FailedEnrichment
  <2>. QED  BY <2>1, OtherDocument
<1>. QED  BY <1>1, <1>2 DEF EnrichmentStep

-----------------------------------------------------------------------------
(* The tools of a relationship run                                           *)

(* The stages of a relationship run concern no other of its parts.           *)
LEMMA RsStageStep ==
  ASSUME NumbersInv, stage # "done", UNCHANGED result, stage' \in RsStages,
         RowsAreKept', ContractsHaveDocuments', SummaryAgrees', ClassIsOfTheSummary'
  PROVE  NumbersInv'
<1>1. AnswersAreKnown' /\ CriIsOfThePairs'
  BY DEF AnswersAreKnown, CriIsOfThePairs, AnalysisStages, RsStages
<1>. QED  BY <1>1, UnsaidStep DEF NumbersInv

LEMMA CollectRsStep ==
  ASSUME NumbersInv, CollectRsData
  PROVE  NumbersInv'
<1>1. stage = "collect_rs"
  BY DEF CollectRsData
<1>2. CASE Fail
  BY <1>1, <1>2, SilentStep DEF Fail
<1>3. CASE \E connector \in ConnectorRows, upload \in UploadRows, checkin \in CheckinRows :
             /\ Produce([records |-> connector \o upload \o checkin, contracts |-> <<>>,
                         documents |-> 0], "documents")
             /\ UNCHANGED result
  <2>1. PICK rows \in Seq(Rows) :
          Produce([records |-> rows, contracts |-> <<>>, documents |-> 0], "documents")
    BY <1>3, CollectedRows
  <2>. DEFINE m == [records |-> rows, contracts |-> <<>>, documents |-> 0]
  <2>2. /\ DOMAIN m = {"records", "contracts", "documents"}
        /\ m["records"] = rows /\ m["contracts"] = <<>> /\ m["documents"] = 0
    OBVIOUS
  <2>3. work' = Updated(work, m) /\ stage' = "documents"
    BY <2>1 DEF Produce
  <2>. HIDE DEF m
  <2>4. /\ DOMAIN Updated(work, m) = DOMAIN work \cup DOMAIN m
        /\ \A k \in DOMAIN m : Updated(work, m)[k] = m[k]
    BY UpdatedMemory
  <2>5. /\ {"records", "contracts", "documents"} \subseteq DOMAIN work'
        /\ work'["records"] = rows /\ work'["contracts"] = <<>> /\ work'["documents"] = 0
    BY <2>2, <2>3, <2>4
  <2>6. RowsAreKept' /\ ContractsHaveDocuments' /\ SummaryAgrees' /\ ClassIsOfTheSummary'
    BY <2>3, <2>5 DEF RowsAreKept, ContractsHaveDocuments, SummaryAgrees, ClassIsOfTheSummary
  <2>. QED  BY <1>1, <1>3, <2>3, <2>6, RsStageStep DEF RsStages
<1>. QED  BY <1>2, <1>3 DEF CollectRsData

LEMMA ReadStep ==
  ASSUME NumbersInv, ReadDocument \/ ReadingRaises \/ ProcessDocuments
  PROVE  NumbersInv'
<1>1. stage = "documents"
  BY DEF ReadDocument, ReadingRaises, ProcessDocuments
<1>2. /\ {"records", "contracts", "documents"} \subseteq DOMAIN work
      /\ work.records \in Seq(Rows)
      /\ work.documents \in Nat /\ (work.documents = 0 => work.contracts = <<>>)
  BY <1>1 DEF NumbersInv, RowsAreKept, ContractsHaveDocuments
<1>3. CASE ReadDocument
  <2>1. PICK contract : Added(contract)
    BY <1>3 DEF ReadDocument
  <2>2. PICK contracts :
          work' = [work EXCEPT !.documents = work.documents + 1, !.contracts = contracts]
    BY <2>1 DEF Added
  <2>3. /\ DOMAIN work' = DOMAIN work /\ work'.records = work.records
        /\ work'.documents = work.documents + 1
    BY <1>2, <2>2
  <2>4. stage' = "documents" /\ UNCHANGED result
    BY <1>1, <1>3 DEF ReadDocument
  <2>5. RowsAreKept' /\ ContractsHaveDocuments' /\ SummaryAgrees' /\ ClassIsOfTheSummary'
    BY <1>2, <2>3, <2>4 DEF RowsAreKept, ContractsHaveDocuments, SummaryAgrees, ClassIsOfTheSummary
  <2>. QED  BY <1>1, <2>4, <2>5, RsStageStep DEF RsStages
<1>4. CASE ReadingRaises
  <2>1. stage' = "failed" /\ UNCHANGED result
    BY <1>4 DEF ReadingRaises, Fail
  <2>. QED  BY <1>1, <2>1, SilentStep
<1>5. CASE ProcessDocuments
  <2>1. stage' = "aggregate" /\ UNCHANGED work /\ UNCHANGED result
    BY <1>5 DEF ProcessDocuments
  <2>2. RowsAreKept' /\ ContractsHaveDocuments' /\ SummaryAgrees' /\ ClassIsOfTheSummary'
    BY <1>2, <2>1 DEF RowsAreKept, ContractsHaveDocuments, SummaryAgrees, ClassIsOfTheSummary
  <2>. QED  BY <1>1, <2>1, <2>2, RsStageStep DEF RsStages
<1>. QED  BY <1>3, <1>4, <1>5

LEMMA AggregateStep ==
  ASSUME NumbersInv, AggregateSpend
  PROVE  NumbersInv'
<1>1. stage = "aggregate"
  BY DEF AggregateSpend
<1>2. CASE Fail
  BY <1>1, <1>2, SilentStep DEF Fail
<1>3. CASE ~Fail
  <2>1. /\ stage' = "classify" /\ UNCHANGED result
        /\ work' = [summary |-> Summary(work.records), contracts |-> work.contracts,
                    documents |-> work.documents, seen |-> Seen(work.records), leap_day |-> FALSE]
    BY <1>3 DEF AggregateSpend
  <2>2. /\ {"summary", "contracts", "documents", "seen"} \subseteq DOMAIN work'
        /\ work'.summary = Summary(work.records) /\ work'.seen = Seen(work.records)
        /\ work'.contracts = work.contracts /\ work'.documents = work.documents
    BY <2>1
  <2>3. SummaryAgrees'
    <3>1. work.records \in Seq(Rows)
      BY <1>1 DEF NumbersInv, RowsAreKept
    <3>2. Agrees(work'.summary, work'.seen)
      BY <2>2, <3>1, SummaryOfRows
    <3>. QED  BY <2>2, <3>2 DEF SummaryAgrees
  <2>4. ContractsHaveDocuments'
    BY <1>1, <2>2 DEF NumbersInv, ContractsHaveDocuments
  <2>5. RowsAreKept' /\ ClassIsOfTheSummary'
    BY <2>1 DEF RowsAreKept, ClassIsOfTheSummary
  <2>. QED  BY <1>1, <2>1, <2>3, <2>4, <2>5, RsStageStep DEF RsStages
<1>. QED  BY <1>2, <1>3

LEMMA ClassifyStep ==
  ASSUME NumbersInv, ClassifyRelationship
  PROVE  NumbersInv'
<1>1. stage = "classify" /\ stage' = "assemble" /\ UNCHANGED result
  BY DEF ClassifyRelationship, Produce
<1>2. PICK category \in {"strategic", "other", "none"}, alternatives \in BOOLEAN :
        work' = Updated(work, [class |-> Classification(work.summary, work.contracts, category,
                                                        alternatives)])
  BY DEF ClassifyRelationship, Produce
<1>. DEFINE class == Classification(work.summary, work.contracts, category, alternatives)
            m == [class |-> class]
<1>3. work' = Updated(work, m) /\ DOMAIN m = {"class"} /\ m["class"] = class
  BY <1>2
<1>. HIDE DEF m
<1>4. /\ DOMAIN Updated(work, m) = DOMAIN work \cup DOMAIN m
      /\ \A k \in DOMAIN m : Updated(work, m)[k] = m[k]
      /\ \A k \in DOMAIN work \ DOMAIN m : Updated(work, m)[k] = work[k]
  BY UpdatedMemory
<1>5. /\ {"summary", "seen", "contracts", "documents"} \subseteq DOMAIN work
      /\ Agrees(work.summary, work.seen)
      /\ work.documents \in Nat /\ (work.documents = 0 => work.contracts = <<>>)
  BY <1>1 DEF NumbersInv, SummaryAgrees, ContractsHaveDocuments
<1>6. /\ {"summary", "seen", "contracts", "documents", "class"} \subseteq DOMAIN work'
      /\ work'["summary"] = work.summary /\ work'["seen"] = work.seen
      /\ work'["contracts"] = work.contracts /\ work'["documents"] = work.documents
      /\ work'["class"] = class
  BY <1>3, <1>4, <1>5
<1>7. RowsAreKept' /\ ContractsHaveDocuments' /\ SummaryAgrees' /\ ClassIsOfTheSummary'
  BY <1>1, <1>5, <1>6 DEF RowsAreKept, ContractsHaveDocuments, SummaryAgrees, ClassIsOfTheSummary
<1>. QED  BY <1>1, <1>7, RsStageStep DEF RsStages

LEMMA AssembleStep ==
  ASSUME NumbersInv, AssembleProfile
  PROVE  NumbersInv'
<1>1. stage = "assemble" /\ stage' = "done" /\ UNCHANGED work
  BY DEF AssembleProfile, Deliver
<1>2. PICK summary, contracts, class, seen :
        /\ summary = work.summary /\ contracts = work.contracts /\ class = work.class
        /\ seen = work.seen
  OBVIOUS
<1>3. Agrees(summary, seen) /\ (work.documents = 0 => contracts = <<>>)
  BY <1>1, <1>2 DEF NumbersInv, SummaryAgrees, ContractsHaveDocuments
<1>4. PICK category \in {"strategic", "other", "none"}, alternatives \in BOOLEAN :
        class = Classification(summary, contracts, category, alternatives)
  BY <1>1, <1>2 DEF NumbersInv, ClassIsOfTheSummary
<1>5. ASSUME NEW lost, result' = RsDocument("FAILED", {"PROFILE_ASSEMBLY_FAILED"}, class, 0, lost)
      PROVE  NumbersInv'
  <2>1. /\ result'.process = "rs" /\ result'.status = "FAILED" /\ result'.lost = lost
        /\ lost = {} => "PROFILE_ASSEMBLY_FAILED" \in result'.tasks
    BY <1>5 DEF RsDocument, RsTriage, Reported, Queued
  <2>2. DependencyIsBacked' /\ WeakDataIsFlagged' /\ FailuresNeverFlatter'
    BY <2>1 DEF DependencyIsBacked, WeakDataIsFlagged, FailuresNeverFlatter, Analysed
  <2>. QED
    BY <1>1, <2>2 DEF NumbersInv, Waiting, AnswersAreKnown, CriIsOfThePairs, RowsAreKept,
                      ContractsHaveDocuments, SummaryAgrees, ClassIsOfTheSummary, AnalysisStages
<1>6. ASSUME NEW lost,
             result' = RsDocument(RsStatus(summary, class), RsFlags(summary, contracts, class), class,
                                  RsContribution(summary, contracts, class), lost)
      PROVE  NumbersInv'
  <2>1. /\ result'.process = "rs" /\ result'.status = RsStatus(summary, class)
        /\ result'.flags = RsFlags(summary, contracts, class) /\ result'.class = class
        /\ result'.lost = lost
        /\ lost = {} => result'.tasks = RsTriage(RsFlags(summary, contracts, class))
    BY <1>6 DEF RsDocument, Reported, Queued
  <2>2. ASSUME result'.status = "COMPLETE"
        PROVE  seen.linked >= 3 /\ seen.quarters >= 2 /\ seen.recent
    <3>1. summary.completeness = "FULL" /\ GapSeverity(summary, class) = "NONE"
      BY <2>1, <2>2 DEF RsStatus
    <3>2. summary.recent
      BY <3>1 DEF GapSeverity, Missing
    <3>. QED  BY <1>3, <3>1, <3>2 DEF Agrees
  <2>3. class.tier \in {"CRITICAL", "HIGH"} \/ class.type = "STRATEGIC" => seen.charged
    BY <1>3, <1>4, DependencyNeedsCharges DEF Agrees
  <2>4. DependencyIsBacked'
    BY <1>1, <1>2, <2>1, <2>2, <2>3 DEF DependencyIsBacked
  <2>5. ASSUME seen.linked = 0
        PROVE  /\ result'.status # "COMPLETE"
               /\ work.documents = 0 /\ lost = {} => result'.tasks # {}
               /\ summary.rows => "LOW_DATA_CONFIDENCE" \in result'.flags
    <3>1. summary.completeness \in {"NONE", "SPARSE"} /\ ~summary.any
      BY <1>3, <2>5 DEF Agrees
    <3>2. result'.status # "COMPLETE"
      BY <2>1, <3>1 DEF RsStatus
    <3>3. ASSUME work.documents = 0, lost = {}
          PROVE  "CLASSIFICATION_INCOMPLETE" \in result'.tasks
      <4>1. class.type = "UNKNOWN"
        BY <1>3, <1>4, <3>1, <3>3 DEF Classification, Unclassified
      <4>2. "CLASSIFICATION_INCOMPLETE" \in RsFlags(summary, contracts, class)
        BY <4>1 DEF RsFlags
      <4>. QED  BY <2>1, <3>3, <4>2 DEF RsTriage
    <3>4. ASSUME summary.rows
          PROVE  "LOW_DATA_CONFIDENCE" \in result'.flags
      <4>1. Doubtful(summary)
        BY <1>3, <2>5, <3>4 DEF Agrees, Doubtful
      <4>. QED  BY <2>1, <4>1 DEF RsFlags
    <3>. QED  BY <3>2, <3>3, <3>4
  <2>6. WeakDataIsFlagged'
    BY <1>1, <1>2, <2>1, <2>5 DEF WeakDataIsFlagged
  <2>7. FailuresNeverFlatter'
    BY <2>1 DEF FailuresNeverFlatter, Analysed
  <2>. QED
    BY <1>1, <2>4, <2>6, <2>7 DEF NumbersInv, Waiting, AnswersAreKnown, CriIsOfThePairs, RowsAreKept,
                                  ContractsHaveDocuments, SummaryAgrees, ClassIsOfTheSummary, AnalysisStages
<1>. QED  BY <1>2, <1>5, <1>6 DEF AssembleProfile, Deliver

-----------------------------------------------------------------------------
(* The tools of an analysis                                                  *)

AnsweredPairs(pairs) == IsFiniteSet(pairs) /\ \A p \in pairs : p.answer \in Answers

LEMMA NewPairs ==
  ASSUME NEW questions, IsFiniteSet(questions), NEW tier, NEW odd, NEW a \in Answers, NEW rest \in Answers
  PROVE  AnsweredPairs(Pairs(questions, tier, odd, a, rest))
<1>. DEFINE f == [q \in questions |->
                    [question |-> q, tier |-> tier, answer |-> IF q = odd THEN a ELSE rest]]
<1>1. Pairs(questions, tier, odd, a, rest) = {f[q] : q \in questions}
  BY DEF Pairs
<1>2. IsFiniteSet({f[q] : q \in questions})
  <2>. HIDE DEF f
  <2>. QED  BY FiniteImage
<1>3. \A q \in questions : f[q].answer \in Answers
  OBVIOUS
<1>. QED  BY <1>1, <1>2, <1>3 DEF AnsweredPairs

LEMMA AgendaIsFinite ==
  ASSUME AnsweredPairs(work.pairs), NEW tier \in {1, 2, 3}
  PROVE  IsFiniteSet(Agenda(tier))
<1>1. IsFiniteSet(Questions)
  <2>1. Questions = {"Q1", "Q2", "Q3"} \cup {"Q4", "Q5", "Q6"}
    BY DEF Questions
  <2>2. ASSUME NEW x, NEW y, NEW z  PROVE IsFiniteSet({x, y, z})
    <3>1. IsFiniteSet({x}) /\ IsFiniteSet({y}) /\ IsFiniteSet({z})
      BY FS_Singleton
    <3>2. IsFiniteSet({x} \cup {y})
      BY <3>1, FS_Union
    <3>3. IsFiniteSet(({x} \cup {y}) \cup {z})
      BY <3>1, <3>2, FS_Union
    <3>4. {x, y, z} = ({x} \cup {y}) \cup {z}
      OBVIOUS
    <3>. QED  BY <3>3, <3>4
  <2>3. /\ IsFiniteSet({"Q1", "Q2", "Q3"})
        /\ IsFiniteSet({"Q4", "Q5", "Q6"})
    BY <2>2
  <2>. QED  BY <2>1, <2>3, FS_Union
<1>2. ASSUME NEW S \in SUBSET work.pairs
      PROVE  IsFiniteSet({p.question : p \in S})
  <2>. DEFINE f == [p \in S |-> p.question]
  <2>1. {p.question : p \in S} = {f[p] : p \in S}
    OBVIOUS
  <2>2. IsFiniteSet(S)
    BY FS_Subset DEF AnsweredPairs
  <2>. HIDE DEF f
  <2>3. IsFiniteSet({f[p] : p \in S})
    BY <2>2, FiniteImage
  <2>. QED  BY <2>1, <2>3
<1>3. CASE tier = 1
  BY <1>1, <1>3 DEF Agenda
<1>4. CASE tier = 2
  <2>. DEFINE S == {x \in work.pairs : Weak(x.answer)}
  <2>1. Agenda(tier) = {p.question : p \in S}
    BY <1>4 DEF Agenda
  <2>. QED  BY <1>2, <2>1
<1>5. CASE tier = 3
  <2>. DEFINE S == {x \in work.pairs : x.tier = 2 /\ x.answer.completeness = "UNANSWERABLE"}
              asked == {p.question : p \in S}
  <2>1. Agenda(tier) = asked \cap CriticalQuestions
    BY <1>5 DEF Agenda
  <2>2. IsFiniteSet(asked)
    BY <1>2
  <2>. HIDE DEF asked
  <2>. QED  BY <2>1, <2>2, FS_Intersection
<1>. QED  BY <1>3, <1>4, <1>5

(* The stages of an analysis concern no other of its parts.                  *)
LEMMA AnalysisStageStep ==
  ASSUME NumbersInv, stage # "done", UNCHANGED result, stage' \in AnalysisStages,
         AnswersAreKnown', CriIsOfThePairs'
  PROVE  NumbersInv'
<1>1. RowsAreKept' /\ ContractsHaveDocuments' /\ SummaryAgrees' /\ ClassIsOfTheSummary'
  BY DEF RowsAreKept, ContractsHaveDocuments, SummaryAgrees, ClassIsOfTheSummary, AnalysisStages
<1>. QED  BY <1>1, UnsaidStep DEF NumbersInv

(* The memory with more pairs in it, all of them with an answer.             *)
LEMMA MorePairsStep ==
  ASSUME NumbersInv, stage \in {"inquire", "ask_again", "ask_critical"}, UNCHANGED result,
         stage' \in {"ask_again", "ask_critical", "score"},
         NEW m, work' = Updated(work, m), "pairs" \in DOMAIN m, AnsweredPairs(m["pairs"])
  PROVE  NumbersInv'
<1>1. /\ DOMAIN Updated(work, m) = DOMAIN work \cup DOMAIN m
      /\ \A k \in DOMAIN m : Updated(work, m)[k] = m[k]
  BY UpdatedMemory
<1>2. "pairs" \in DOMAIN work' /\ AnsweredPairs(work'["pairs"])
  BY <1>1
<1>3. AnswersAreKnown' /\ CriIsOfThePairs'
  BY <1>2 DEF AnswersAreKnown, CriIsOfThePairs, AnsweredPairs
<1>. QED  BY <1>3, AnalysisStageStep DEF AnalysisStages

(* A round of questions adds pairs to the ones of the rounds before.         *)
LEMMA AskStep ==
  ASSUME NumbersInv, AskAll \/ AskWeak \/ AskCritical
  PROVE  NumbersInv'
<1>1. PICK tier, odd, next :
        /\ tier \in {1, 2, 3}
        /\ stage \in {"inquire", "ask_again", "ask_critical"}
        /\ next \in {"ask_again", "ask_critical", "score"}
        /\ Ask(tier, odd, next)
  BY DEF AskAll, AskWeak, AskCritical
<1>2. "pairs" \in DOMAIN work /\ AnsweredPairs(work.pairs)
  BY <1>1 DEF NumbersInv, AnswersAreKnown, AnalysisStages, AnsweredPairs
<1>3. NoAnswer \in Answers /\ PlainAnswers \subseteq Answers
  BY DEF PlainAnswers, Answers
<1>4. PICK a \in Answers, rest \in Answers :
        Produce([odd |-> odd, pairs |-> work.pairs \cup Pairs(Agenda(tier), tier, odd, a, rest)], next)
  BY <1>1, <1>3 DEF Ask
<1>. DEFINE pairs == work.pairs \cup Pairs(Agenda(tier), tier, odd, a, rest)
            m == [odd |-> odd, pairs |-> pairs]
<1>5. AnsweredPairs(pairs)
  <2>1. AnsweredPairs(Pairs(Agenda(tier), tier, odd, a, rest))
    BY <1>1, <1>2, AgendaIsFinite, NewPairs
  <2>. QED  BY <1>2, <2>1, FS_Union DEF AnsweredPairs
<1>6. work' = Updated(work, m) /\ stage' = next /\ UNCHANGED result
  BY <1>1, <1>4 DEF Produce, Ask
<1>7. "pairs" \in DOMAIN m /\ m["pairs"] = pairs
  OBVIOUS
<1>. HIDE DEF pairs, m
<1>8. AnsweredPairs(m["pairs"])
  BY <1>5, <1>7
<1>. QED  BY <1>1, <1>6, <1>7, <1>8, MorePairsStep

(* A tool that adds to the memory, but neither questions nor scores.         *)
LEMMA LaterStep ==
  ASSUME NumbersInv, stage \in {"trend", "findings"}, UNCHANGED result,
         stage' \in {"findings", "narrate"},
         NEW m, work' = Updated(work, m), DOMAIN m \cap {"pairs", "cri"} = {}
  PROVE  NumbersInv'
<1>1. /\ DOMAIN Updated(work, m) = DOMAIN work \cup DOMAIN m
      /\ \A k \in DOMAIN work \ DOMAIN m : Updated(work, m)[k] = work[k]
  BY UpdatedMemory
<1>2. /\ {"pairs", "cri"} \subseteq DOMAIN work /\ AnsweredPairs(work.pairs)
      /\ work.cri = Cri(Scores(work.pairs))
  BY DEF NumbersInv, AnswersAreKnown, CriIsOfThePairs, AnalysisStages, AnsweredPairs
<1>3. /\ {"pairs", "cri"} \subseteq DOMAIN work'
      /\ work'["pairs"] = work.pairs /\ work'["cri"] = work.cri
  BY <1>1, <1>2
<1>4. AnswersAreKnown' /\ CriIsOfThePairs'
  BY <1>2, <1>3 DEF AnswersAreKnown, CriIsOfThePairs, AnsweredPairs
<1>. QED  BY <1>4, AnalysisStageStep DEF AnalysisStages

LEMMA ScoreStep ==
  ASSUME NumbersInv, ComputeScores
  PROVE  NumbersInv'
<1>1. stage = "score" /\ stage' = "trend" /\ UNCHANGED result
  BY DEF ComputeScores, Produce
<1>. DEFINE m == [scores |-> Scores(work.pairs), cri |-> Cri(Scores(work.pairs))]
<1>2. /\ work' = Updated(work, m)
      /\ DOMAIN m = {"scores", "cri"} /\ m["cri"] = Cri(Scores(work.pairs))
  BY DEF ComputeScores, Produce
<1>. HIDE DEF m
<1>3. /\ DOMAIN Updated(work, m) = DOMAIN work \cup DOMAIN m
      /\ \A k \in DOMAIN m : Updated(work, m)[k] = m[k]
      /\ \A k \in DOMAIN work \ DOMAIN m : Updated(work, m)[k] = work[k]
  BY UpdatedMemory
<1>4. "pairs" \in DOMAIN work /\ AnsweredPairs(work.pairs)
  BY <1>1 DEF NumbersInv, AnswersAreKnown, AnalysisStages, AnsweredPairs
<1>5. /\ {"pairs", "cri"} \subseteq DOMAIN work'
      /\ work'["pairs"] = work.pairs /\ work'["cri"] = Cri(Scores(work.pairs))
  BY <1>2, <1>3, <1>4
<1>6. AnswersAreKnown' /\ CriIsOfThePairs'
  BY <1>4, <1>5 DEF AnswersAreKnown, CriIsOfThePairs, AnsweredPairs
<1>. QED  BY <1>1, <1>6, AnalysisStageStep DEF AnalysisStages

LEMMA TrendAndFindings ==
  ASSUME NumbersInv, AnalyseTrends \/ DetectFindings
  PROVE  NumbersInv'
<1>1. CASE AnalyseTrends
  <2>1. stage = "trend" /\ stage' = "findings" /\ UNCHANGED result
    BY <1>1 DEF AnalyseTrends, Produce
  <2>2. PICK trends, past : work' = Updated(work, [trends |-> trends, past |-> past])
    BY <1>1 DEF AnalyseTrends, Produce
  <2>. QED  BY <2>1, <2>2, LaterStep
<1>2. CASE DetectFindings
  <2>1. stage = "findings" /\ stage' = "narrate" /\ UNCHANGED result
    BY <1>2 DEF DetectFindings, Produce
  <2>2. PICK findings, nba, blocking :
          work' = Updated(work, [findings |-> findings, nba |-> nba, blocking |-> blocking])
    BY <1>2 DEF DetectFindings, Produce
  <2>. QED  BY <2>1, <2>2, LaterStep
<1>. QED  BY <1>1, <1>2

LEMMA ReportStep ==
  ASSUME NumbersInv, Narrate
  PROVE  NumbersInv'
<1>1. stage = "narrate" /\ stage' = "done" /\ UNCHANGED work
  BY DEF Narrate, Deliver
<1>2. CASE result' = [process |-> "analysis", status |-> "FAILED"]
  BY <1>1, <1>2, OtherDocument
<1>3. ASSUME result'.process = "analysis", result'.state = VendorState(work.cri, work.trends)
      PROVE  NumbersInv'
  <2>1. AnsweredPairs(work.pairs) /\ work.cri = Cri(Scores(work.pairs))
    BY <1>1 DEF NumbersInv, AnswersAreKnown, CriIsOfThePairs, AnalysisStages, AnsweredPairs
  <2>2. ASSUME NEW q \in CriticalQuestions, \A p \in work.pairs : p.question = q => p.answer.failed
        PROVE  result'.state # "HEALTHY"
    <3>1. work.cri \in Int /\ work.cri < 80
      BY <2>1, <2>2, FailedQuestionLowersCri DEF AnsweredPairs
    <3>. QED  BY <1>3, <3>1 DEF VendorState
  <2>3. FailuresNeverFlatter'
    BY <1>1, <2>2 DEF FailuresNeverFlatter
  <2>4. DependencyIsBacked' /\ WeakDataIsFlagged'
    BY <1>3 DEF DependencyIsBacked, WeakDataIsFlagged
  <2>. QED
    BY <1>1, <2>3, <2>4 DEF NumbersInv, Waiting, AnswersAreKnown, CriIsOfThePairs, RowsAreKept,
                            ContractsHaveDocuments, SummaryAgrees, ClassIsOfTheSummary, AnalysisStages
<1>4. ASSUME NEW database, NEW lost, result' = Report(database, lost)
      PROVE  NumbersInv'
  <2>1. result'.process = "analysis" /\ result'.state = VendorState(work.cri, work.trends)
    BY <1>4 DEF Report
  <2>. QED  BY <1>3, <2>1
<1>. QED  BY <1>2, <1>4 DEF Narrate, Deliver

-----------------------------------------------------------------------------
(* The theorems                                                              *)

LEMMA NextKeepsNumbers ==
  ASSUME NumbersInv, [Next]_vars
  PROVE  NumbersInv'
<1>1. CASE EnrichmentStep
  BY <1>1, EnrichmentKeepsNumbers
<1>2. CASE RsStep
  BY <1>2, CollectRsStep, ReadStep, AggregateStep, ClassifyStep, AssembleStep DEF RsStep
<1>3. CASE AnalysisStep
  BY <1>3, AskStep, ScoreStep, TrendAndFindings, ReportStep DEF AnalysisStep
<1>4. CASE Finished \/ UNCHANGED vars
  BY <1>4 DEF Finished, vars, NumbersInv, Waiting, AnswersAreKnown, CriIsOfThePairs, RowsAreKept,
              ContractsHaveDocuments, SummaryAgrees, ClassIsOfTheSummary, DependencyIsBacked,
              WeakDataIsFlagged, FailuresNeverFlatter, Analysed
<1>. QED  BY <1>1, <1>2, <1>3, <1>4 DEF Next

(* The sums of spend_aggregator say of a vendor's rows what a person who     *)
(* counts them would say, and the score of scoring_engine is that of the     *)
(* answers, whatever tools run in between.                                   *)
THEOREM NumbersHold == Spec => []NumbersInv
<1>1. Init => NumbersInv
  BY InitNumbers
<1>2. NumbersInv /\ [Next]_vars => NumbersInv'
  BY NextKeepsNumbers
<1>. QED  BY <1>1, <1>2, PTL DEF Spec

(* A complete relationship rests on three rows of two quarters and on recent *)
(* ones, and no contract makes a client depend on a vendor that charged      *)
(* nothing: _classify_profile_status, _score_dependency.                     *)
THEOREM DependenciesAreBacked == Spec => []DependencyIsBacked
<1>1. NumbersInv => DependencyIsBacked
  BY DEF NumbersInv
<1>. QED  BY <1>1, NumbersHold, PTL

(* Rows of which none can be linked to the vendor are flagged, and a vendor  *)
(* without a document either is put on the triage queue, unless the queue or *)
(* the vendor's ledger cannot be written: _reconcile_conflicts, run_rs,      *)
(* _update_programme_logs.                                                   *)
THEOREM WeakDataShows == Spec => []WeakDataIsFlagged
<1>1. NumbersInv => WeakDataIsFlagged
  BY DEF NumbersInv
<1>. QED  BY <1>1, NumbersHold, PTL

(* One critical question whose every call failed keeps a vendor from being   *)
(* called healthy, whatever the other questions score: _score_dimension,     *)
(* classify_vendor_state.                                                    *)
THEOREM FailuresDoNotFlatter == Spec => []FailuresNeverFlatter
<1>1. NumbersInv => FailuresNeverFlatter
  BY DEF NumbersInv
<1>. QED  BY <1>1, NumbersHold, PTL

=============================================================================
