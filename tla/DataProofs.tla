------------------------------ MODULE DataProofs ------------------------------
(***************************************************************************)
(* Theorems about what FeatureFlow does with data: the data quality gate   *)
(* (DataChecks), the transformers in training and serving                  *)
(* (FeatureTransforms) the drift reports (DriftReports) and the migrations *)
(* of the schema (SchemaMigration). Where the models choose a smallest     *)
(* element, or fold a set or a sequence, an argument by a smallest         *)
(* counterexample stands for an induction.                                 *)
(***************************************************************************)
EXTENDS DataChecks, FeatureTransforms, DriftReports, SchemaMigration,
        FiniteSetTheorems, SequenceTheorems, TLAPS

-----------------------------------------------------------------------------
(* Smallest elements *)

(* The order of the naturals is well-founded *)
LEMMA LessThanWellFounded == IsWellFoundedOn({p \in Nat \X Nat : p[1] < p[2]}, Nat)
  BY NatLessThanWellFounded DEF OpToRel

(* Every set of naturals that is not empty has a smallest element *)
LEMMA SmallestElement ==
  ASSUME NEW S, S \subseteq Nat, S # {}
  PROVE  \E n \in S : \A m \in S : n <= m
<1> DEFINE R == {p \in Nat \X Nat : p[1] < p[2]}
<1>1. IsWellFoundedOn(R, Nat)
  BY LessThanWellFounded
<1> HIDE DEF R
<1>2. PICK n \in S : \A m \in S : ~(<<m, n>> \in R)
  BY <1>1, WFMin
<1>3. \A m \in S : ~(m < n)
  BY <1>2 DEF R
<1> QED BY <1>3

(* A family of subsets of a finite set has a smallest member, if any *)
LEMMA SmallestSubset ==
  ASSUME NEW S, IsFiniteSet(S), NEW F, F \subseteq SUBSET S, F # {}
  PROVE  \E T \in F : \A U \in F : U \subseteq T => U = T
<1>1. FiniteSubsetsOf(S) = SUBSET S
  BY FS_FiniteSubsetsOfFinite
<1>2. IsWellFoundedOn(StrictSubsetOrdering(S), FiniteSubsetsOf(S))
  BY FS_StrictSubsetOrderingWellFounded
<1>3. PICK T \in F : \A U \in F : ~(<<U, T>> \in StrictSubsetOrdering(S))
  BY <1>1, <1>2, WFMin
<1> QED BY <1>3 DEF StrictSubsetOrdering

-----------------------------------------------------------------------------
(* Folds *)

(* g folds the subsets of S: pick takes an element, op adds it to the rest *)
IsFold(g, S, base, pick, op) ==
    \A s \in SUBSET S :
        g[s] = IF s = {} THEN base ELSE op[<<pick[s], g[s \ {pick[s]}]>>]

Picks(pick, S) == \A s \in SUBSET S : s # {} => pick[s] \in s

(* Two folds that differ do so on a smallest subset *)
LEMMA FoldIsUnique ==
  ASSUME NEW S, IsFiniteSet(S), NEW base, NEW pick, NEW op, Picks(pick, S),
         NEW T \in SUBSET S, NEW U \in SUBSET S,
         NEW g, NEW h, IsFold(g, T, base, pick, op), IsFold(h, U, base, pick, op)
  PROVE  \A s \in SUBSET (T \cap U) : g[s] = h[s]
<1> DEFINE F == {s \in SUBSET (T \cap U) : g[s] # h[s]}
<1>1. SUFFICES ASSUME F # {} PROVE FALSE
  OBVIOUS
<1>2. PICK s \in F : \A u \in F : u \subseteq s => u = s
  <2>1. F \subseteq SUBSET S
    OBVIOUS
  <2> HIDE DEF F
  <2> QED BY <1>1, <2>1, SmallestSubset
<1>3. CASE s = {}
  BY <1>3 DEF IsFold
<1>4. CASE s # {}
  <2>1. pick[s] \in s
    BY <1>4 DEF Picks
  <2>2. g[s \ {pick[s]}] = h[s \ {pick[s]}]
    BY <1>2, <2>1
  <2>3. /\ g[s] = op[<<pick[s], g[s \ {pick[s]}]>>]
        /\ h[s] = op[<<pick[s], h[s \ {pick[s]}]>>]
    BY <1>2, <1>4 DEF IsFold
  <2> QED BY <1>2, <2>2, <2>3
<1> QED BY <1>3, <1>4

(* A fold exists, since a subset is folded from smaller ones *)
LEMMA FoldExists ==
  ASSUME NEW S, IsFiniteSet(S), NEW V, NEW base \in V, NEW pick, NEW op,
         Picks(pick, S), \A x \in S, v \in V : op[<<x, v>>] \in V
  PROVE  \E g \in [SUBSET S -> V] : IsFold(g, S, base, pick, op)
<1> DEFINE Folds(T) == {g \in [SUBSET T -> V] : IsFold(g, T, base, pick, op)}
           F == {T \in SUBSET S : Folds(T) = {}}
<1>1. SUFFICES ASSUME F # {} PROVE FALSE
  <2>1. S \notin F => Folds(S) # {}
    OBVIOUS
  <2> QED BY <2>1
<1>2. PICK T \in F : \A U \in F : U \subseteq T => U = T
  <2>1. F \subseteq SUBSET S
    OBVIOUS
  <2> HIDE DEF F, Folds
  <2> QED BY <1>1, <2>1, SmallestSubset
<1> DEFINE Part(s) == CHOOSE g : g \in Folds(s)
<1>3. ASSUME NEW s \in SUBSET T, s # T PROVE Part(s) \in Folds(s)
  <2>1. s \in SUBSET S /\ s \notin F
    BY <1>2, <1>3
  <2>2. \E g : g \in Folds(s)
    BY <2>1
  <2> HIDE DEF Folds
  <2> QED BY <2>2, Zenon
<1>p. ASSUME NEW s \in SUBSET T, s # T
      PROVE  Part(s) \in [SUBSET s -> V] /\ IsFold(Part(s), s, base, pick, op)
  <2> HIDE DEF Part
  <2> QED BY <1>3, <1>p
<1> HIDE DEF Part
<1> DEFINE Rest(s) == s \ {pick[s]}
           Below(s) == Part(Rest(s))[Rest(s)]
           g == [s \in SUBSET T |-> IF s = {} THEN base ELSE op[<<pick[s], Below(s)>>]]
<1>q. ASSUME NEW s \in SUBSET T, s # {}
      PROVE  Rest(s) \in SUBSET T /\ Rest(s) # T /\ pick[s] \in S /\ pick[s] \in s
  BY <1>2, <1>q DEF Picks
<1>4. ASSUME NEW s \in SUBSET T, s # T PROVE g[s] = Part(s)[s]
  <2>1. IsFold(Part(s), s, base, pick, op)
    BY <1>p, <1>4
  <2>2. CASE s = {}
    BY <2>1, <2>2 DEF IsFold
  <2>3. CASE s # {}
    <3>1. Rest(s) \in SUBSET T /\ Rest(s) # T /\ Rest(s) \in SUBSET s
      BY <2>3, <1>q
    <3>2. IsFold(Part(Rest(s)), Rest(s), base, pick, op)
      BY <1>p, <3>1
    <3>3. PICK u \in SUBSET S, w \in SUBSET S : u = s /\ w = Rest(s)
      BY <1>2, <3>1
    <3>4. Part(u)[w] = Part(w)[w]
      <4>1. PICK a, b : a = Part(u) /\ b = Part(w)
        OBVIOUS
      <4>2. IsFold(a, u, base, pick, op) /\ IsFold(b, w, base, pick, op)
        BY <2>1, <3>2, <3>3, <4>1
      <4>3. w \in SUBSET (u \cap w)
        BY <3>1, <3>3
      <4>4. \A r \in SUBSET (u \cap w) : a[r] = b[r]
        BY <4>2, FoldIsUnique
      <4> QED BY <4>1, <4>3, <4>4
    <3>5. Part(s)[s] = op[<<pick[s], Part(s)[Rest(s)]>>]
      BY <2>1, <2>3 DEF IsFold
    <3> QED BY <2>3, <3>3, <3>4, <3>5
  <2> QED BY <2>2, <2>3
<1>5. ASSUME NEW s \in SUBSET T, s # {} PROVE Below(s) = g[Rest(s)] /\ Below(s) \in V
  <2>1. Rest(s) \in SUBSET T /\ Rest(s) # T
    BY <1>5, <1>q
  <2>2. Part(Rest(s)) \in [SUBSET Rest(s) -> V]
    BY <1>p, <2>1
  <2>3. PICK w \in SUBSET T : w = Rest(s)
    BY <2>1
  <2>4. g[w] = Part(w)[w]
    BY <1>4, <2>1, <2>3
  <2> HIDE DEF g, Rest
  <2> QED BY <2>2, <2>3, <2>4
<1>6. g \in [SUBSET T -> V]
  <2>1. \A s \in SUBSET T : s # {} => op[<<pick[s], Below(s)>>] \in V
    BY <1>5, <1>q
  <2> HIDE DEF Below
  <2> QED BY <2>1
<1>7. IsFold(g, T, base, pick, op)
  <2>1. \A s \in SUBSET T : g[s] = IF s = {} THEN base ELSE op[<<pick[s], g[Rest(s)]>>]
    BY <1>5
  <2> HIDE DEF g
  <2> QED BY <2>1 DEF IsFold
<1> HIDE DEF g
<1> QED BY <1>2, <1>6, <1>7

-----------------------------------------------------------------------------
(* Sums of penalties *)

(* The penalty of a failed expectation (data_quality/gates.py) *)
Weight(e) == Penalty[e.severity]

(* The element that the sum of the community modules takes next *)
Chosen(s) == CHOOSE e \in s : TRUE

(* g gives every subset of s the sum of its weights, by the recursion that *)
(* MapThenSumSet stands for                                                *)
IsSum(g, S) ==
    g = [s \in SUBSET S |-> IF s = {} THEN 0 ELSE Weight(Chosen(s)) + g[s \ {Chosen(s)}]]

(* It is an element *)
LEMMA ChosenIsElement == \A s : s # {} => Chosen(s) \in s
  BY DEF Chosen

(* A function satisfies it *)
LEMMA SumExists ==
  ASSUME NEW S, IsFiniteSet(S), \A e \in S : Weight(e) \in Nat
  PROVE  \E g : IsSum(g, S)
<1> DEFINE pick == [s \in SUBSET S |-> Chosen(s)]
           op == [x \in S \X Nat |-> Weight(x[1]) + x[2]]
<1>1. Picks(pick, S)
  BY ChosenIsElement DEF Picks
<1>2. \A x \in S, v \in Nat : op[<<x, v>>] = Weight(x) + v /\ op[<<x, v>>] \in Nat
  OBVIOUS
<1>3. PICK g \in [SUBSET S -> Nat] : IsFold(g, S, 0, pick, op)
  <2> HIDE DEF pick, op
  <2> QED BY <1>1, <1>2, FoldExists
<1>4. ASSUME NEW s \in SUBSET S, s # {}
      PROVE  g[s] = Weight(Chosen(s)) + g[s \ {Chosen(s)}]
  <2>1. g[s] = op[<<pick[s], g[s \ {pick[s]}]>>]
    <3> HIDE DEF pick, op
    <3> QED BY <1>3, <1>4 DEF IsFold
  <2>2. Chosen(s) \in S /\ g[s \ {Chosen(s)}] \in Nat /\ pick[s] = Chosen(s)
    BY <1>3, <1>4, ChosenIsElement
  <2> HIDE DEF pick, op
  <2> QED BY <1>2, <2>1, <2>2
<1>5. g[{}] = 0
  BY <1>3 DEF IsFold
<1>6. g = [s \in SUBSET S |-> IF s = {} THEN 0 ELSE Weight(Chosen(s)) + g[s \ {Chosen(s)}]]
  BY <1>3, <1>4, <1>5
<1> QED BY <1>6 DEF IsSum

(* The penalties of the failed expectations together *)
Total(S) == MapThenSumSet(LAMBDA e : Penalty[e.severity], S)

(* So the CHOOSE of the library picks that function *)
LEMMA TotalIsSum ==
  ASSUME NEW S, IsFiniteSet(S), \A e \in S : Weight(e) \in Nat
  PROVE  \E g : IsSum(g, S) /\ Total(S) = g[S]
<1> DEFINE g == CHOOSE h : IsSum(h, S)
<1>1. IsSum(g, S)
  BY SumExists, Zenon
<1>2. Total(S) = g[S]
  BY DEF Total, MapThenSumSet, MapThenFoldSet, IsSum, Weight, Chosen
<1> HIDE DEF g
<1> QED BY <1>1, <1>2

(* The total counts every failure: it is not less than any one penalty *)
LEMMA TotalBounds ==
  ASSUME NEW S, IsFiniteSet(S), \A e \in S : Weight(e) \in Nat
  PROVE  Total(S) \in Nat /\ \A e \in S : Weight(e) <= Total(S)
<1>1. PICK g : IsSum(g, S) /\ Total(S) = g[S]
  BY TotalIsSum
<1> DEFINE F == {s \in SUBSET S : ~(g[s] \in Nat /\ \A e \in s : Weight(e) <= g[s])}
<1>2. F = {}
  <2>1. SUFFICES ASSUME F # {} PROVE FALSE
    OBVIOUS
  <2>2. PICK s \in F : \A u \in F : u \subseteq s => u = s
    <3>1. F \subseteq SUBSET S
      OBVIOUS
    <3> HIDE DEF F
    <3> QED BY <2>1, <3>1, SmallestSubset
  <2>3. CASE s = {}
    <3>1. g[s] = 0
      BY <1>1, <2>3 DEF IsSum
    <3> QED BY <2>2, <2>3, <3>1
  <2>4. CASE s # {}
    <3> DEFINE c == Chosen(s)
               u == s \ {c}
    <3>1. c \in s /\ u \in SUBSET S /\ u # s /\ u \subseteq s
      BY <2>2, <2>4, ChosenIsElement
    <3>2. g[u] \in Nat /\ \A e \in u : Weight(e) <= g[u]
      BY <2>2, <3>1
    <3>3. g[s] = Weight(c) + g[u]
      BY <1>1, <2>2, <2>4 DEF IsSum
    <3>4. Weight(c) \in Nat
      BY <2>2, <3>1
    <3> HIDE DEF c
    <3>5. g[s] \in Nat
      BY <3>2, <3>3, <3>4
    <3>6. ASSUME NEW e \in s PROVE Weight(e) <= g[s]
      <4>1. CASE e = c
        BY <4>1, <3>2, <3>3, <3>4
      <4>2. CASE e # c
        <5>1. e \in u /\ Weight(e) \in Nat
          BY <4>2, <2>2
        <5> QED BY <5>1, <3>2, <3>3, <3>4
      <4> QED BY <4>1, <4>2
    <3> QED BY <2>2, <3>5, <3>6
  <2> QED BY <2>3, <2>4
<1> QED BY <1>1, <1>2

-----------------------------------------------------------------------------
(* Verdicts *)

(* The image of a finite set under a function *)
LEMMA ImageIsFinite ==
  ASSUME NEW S, IsFiniteSet(S), NEW f, DOMAIN f = S
  PROVE  IsFiniteSet({f[x] : x \in S})
<1> DEFINE T == {f[x] : x \in S}
           h == [x \in S |-> f[x]]
<1>1. h \in Surjection(S, T)
  BY DEF Surjection
<1> QED BY <1>1, FS_Surjection

-----------------------------------------------------------------------------

(* A contract gives rise to finitely many expectations *)
LEMMA ExpectationsFinite == ASSUME NEW t \in Tables PROVE IsFiniteSet(Expectations(t))
<1>1. IsFiniteSet(DOMAIN t.types)
  BY DataChecksAssumption
<1> DEFINE A == {x \in DOMAIN t.types : t.types[x] # "other"}
           B == DOMAIN t.types \ {t.key}
           f == [col \in A |-> Expect("type", col, "ERROR")]
           h == [col \in B |-> Expect("mostly", col, "WARNING")]
<1>2. IsFiniteSet(A) /\ IsFiniteSet(B)
  BY <1>1, FS_Subset
<1>3. IsFiniteSet({f[col] : col \in A}) /\ IsFiniteSet({h[col] : col \in B})
  <2>1. DOMAIN f = A /\ DOMAIN h = B
    OBVIOUS
  <2> HIDE DEF f, h, A, B
  <2> QED BY <1>2, <2>1, ImageIsFinite
<1>4. /\ {f[col] : col \in A} = {Expect("type", col, "ERROR") : col \in A}
      /\ {h[col] : col \in B} = {Expect("mostly", col, "WARNING") : col \in B}
  OBVIOUS
<1> DEFINE c1 == Expect("columns", t.key, "CRITICAL")
           c2 == Expect("present", t.key, "CRITICAL")
           c3 == Expect("unique", t.key, "CRITICAL")
<1>5. IsFiniteSet({c1, c2, c3})
  <2>1. IsFiniteSet({c1}) /\ IsFiniteSet({c2}) /\ IsFiniteSet({c3})
    BY FS_Singleton
  <2>2. {c1, c2, c3} = ({c1} \cup {c2}) \cup {c3}
    OBVIOUS
  <2> HIDE DEF c1, c2, c3
  <2>3. IsFiniteSet(({c1} \cup {c2}) \cup {c3})
    BY <2>1, FS_AddElement
  <2> QED BY <2>2, <2>3
<1> DEFINE P == {c1, c2, c3}
           Q == {Expect("type", col, "ERROR") : col \in A}
           R == {Expect("mostly", col, "WARNING") : col \in B}
<1>6. IsFiniteSet(P) /\ IsFiniteSet(Q) /\ IsFiniteSet(R)
  BY <1>3, <1>4, <1>5
<1>7. Expectations(t) = (P \cup Q) \cup R
  BY DEF Expectations
<1> HIDE DEF P, Q, R
<1>8. IsFiniteSet((P \cup Q) \cup R)
  <2>1. IsFiniteSet(P \cup Q)
    BY <1>6, FS_Union
  <2> QED BY <1>6, <2>1, FS_Union
<1> QED BY <1>7, <1>8

(* and every one of them has a penalty *)
LEMMA ExpectationsWeigh ==
  ASSUME NEW t \in Tables, NEW e \in Expectations(t)
  PROVE  /\ Weight(e) \in Nat
         /\ e.severity = "CRITICAL" <=> e \in {Expect("columns", t.key, "CRITICAL"),
                 Expect("present", t.key, "CRITICAL"), Expect("unique", t.key, "CRITICAL")}
         /\ e.severity = "CRITICAL" => Weight(e) = 200
  BY DEF Expectations, Expect, Weight, Penalty

(* A score is clamped to 0 .. 1000 (data_quality/gates.py) *)
LEMMA VerdictBounds ==
  ASSUME NEW t \in Tables, NEW of \in Tables
  PROVE  /\ Evaluate(t, of) \in [halt : BOOLEAN, score : 0 .. 1000]
         /\ Evaluate(t, of).halt => Evaluate(t, of).score <= 800
<1> DEFINE failed == FailedOnes(t, of)
           halt == \E e \in failed : e.severity = "CRITICAL"
           score == IF Total(failed) > 1000 THEN 0 ELSE 1000 - Total(failed)
<1>1. failed \subseteq Expectations(of) /\ IsFiniteSet(failed)
  BY ExpectationsFinite, FS_Subset DEF FailedOnes
<1>2. \A e \in failed : Weight(e) \in Nat /\ (e.severity = "CRITICAL" => Weight(e) = 200)
  BY <1>1, ExpectationsWeigh
<1>3. Evaluate(t, of) = [halt |-> halt, score |-> score]
  BY DEF Evaluate, Total
<1> HIDE DEF failed
<1>4. Total(failed) \in Nat /\ \A e \in failed : Weight(e) <= Total(failed)
  BY <1>1, <1>2, TotalBounds
<1>5. score \in 0 .. 1000 /\ (halt => score <= 800)
  BY <1>2, <1>4
<1>6. halt \in BOOLEAN
  OBVIOUS
<1> HIDE DEF halt, score
<1> QED BY <1>3, <1>5, <1>6

(* The gate halts a table if and only if it breaks the schema *)
LEMMA HaltsForSchema ==
  ASSUME NEW t \in Tables, NEW of \in Tables
  PROVE  Evaluate(t, of).halt <=> Breaks(t, of)
<1> DEFINE columns == Expect("columns", of.key, "CRITICAL")
           present == Expect("present", of.key, "CRITICAL")
           unique == Expect("unique", of.key, "CRITICAL")
<1>1. Evaluate(t, of).halt <=> \E e \in FailedOnes(t, of) : e.severity = "CRITICAL"
  BY DEF Evaluate
<1>2. {columns, present, unique} \subseteq Expectations(of)
  BY DEF Expectations
<1>3. (\E e \in FailedOnes(t, of) : e.severity = "CRITICAL")
      <=> ~Meets(t, columns, of) \/ ~Meets(t, present, of) \/ ~Meets(t, unique, of)
  <2>1. columns.severity = "CRITICAL" /\ present.severity = "CRITICAL" /\ unique.severity = "CRITICAL"
    BY DEF Expect
  <2>2. \A e \in Expectations(of) : e.severity = "CRITICAL" => e \in {columns, present, unique}
    BY ExpectationsWeigh
  <2> HIDE DEF columns, present, unique
  <2> QED BY <1>2, <2>1, <2>2 DEF FailedOnes
<1>4. /\ Meets(t, columns, of) <=> DOMAIN of.types \subseteq DOMAIN t.types
      /\ Meets(t, present, of) <=> of.key \in DOMAIN t.types /\ t.gaps[of.key] = "none"
      /\ Meets(t, unique, of) <=> of.key \in DOMAIN t.types /\ of.key \notin t.repeats
  BY DEF Meets, Expect
<1>5. of.key \in DOMAIN of.types
  BY DataChecksAssumption
<1> QED BY <1>1, <1>3, <1>4, <1>5 DEF Breaks

-----------------------------------------------------------------------------
(* Contracts *)

(* Contracts with any version number, and the record of a validation *)
AnyContracts == [version : Nat \ {0}, of : Tables]
CheckSteps == {"idle", "lookup", "create", "flush", "judge", "judged", "done", "failed"}
CheckRecords == [step : CheckSteps, table : Tables \cup {NoContract}, own : BOOLEAN,
          contract : AnyContracts \cup {NoContract}, verdict : [halt : BOOLEAN,
                                                                score : 0 .. 1000]]

(* The version numbers of a set of contracts *)
NumbersOf(C) == {c.version : c \in C}

(* NumbersOf are numbered without a gap or a repetition *)
WellNumbered(C) ==
    /\ C \subseteq AnyContracts
    /\ IsFiniteSet(C)
    /\ NumbersOf(C) = 1 .. Cardinality(C)
    /\ \A c, d \in C : c.version = d.version => c = d

(* A call that has a contract took it from the table data_contracts or     *)
(* wants to insert it, under the next version unless another has done that *)
CheckSound(r, C) ==
    /\ r.step # "idle" => r.table \in Tables
    /\ r.step \in {"idle", "lookup", "create", "flush"} => ~r.own
    /\ r.step \in {"flush", "judge", "judged"} =>
          r.contract \in AnyContracts /\ r.contract.version <= Cardinality(C) + 1
    /\ r.step = "flush" => r.contract.of = r.table
    /\ r.step \in {"judge", "judged"} =>
          IF r.own THEN r.contract.of = r.table /\ r.contract.version \notin NumbersOf(C)
          ELSE r.contract \in C
    /\ r.step = "judged" => r.verdict = Evaluate(r.table, r.contract.of)

(* A validation whose INSERT of a contract is open; there is one at most *)
OpenInsert(r) == r.own /\ r.step \in {"judge", "judged"}

(* The inductive invariant *)
ChecksInv ==
    /\ WellNumbered(contracts)
    /\ \A r \in verdicts : r.contract \in contracts
    /\ checks \in [Validators -> CheckRecords]
    /\ \A v \in Validators : CheckSound(checks[v], contracts)
    /\ \A v, w \in Validators : OpenInsert(checks[v]) /\ OpenInsert(checks[w]) => v = w

(* At the start there is no contract *)
LEMMA ChecksInitInv == ChecksInit => ChecksInv
<1> SUFFICES ASSUME ChecksInit PROVE ChecksInv
  OBVIOUS
<1>1. WellNumbered(contracts)
  BY FS_EmptySet DEF ChecksInit, WellNumbered, NumbersOf
<1>2. checks \in [Validators -> CheckRecords]
  BY DEF ChecksInit, IdleCheck, CheckRecords, CheckSteps
<1> QED BY <1>1, <1>2 DEF ChecksInit, IdleCheck, ChecksInv, CheckSound, OpenInsert

(* The latest contract bears the number of contracts *)
LEMMA ActiveIsLast ==
  ASSUME WellNumbered(contracts), contracts # {}
  PROVE  Active \in contracts /\ Active.version = Cardinality(contracts)
<1>1. PICK n \in Nat : n = Cardinality(contracts)
  BY FS_CardinalityType DEF WellNumbered
<1>2. n # 0
  BY <1>1, FS_EmptySet DEF WellNumbered
<1>3. n \in NumbersOf(contracts)
  BY <1>1, <1>2 DEF WellNumbered
<1>4. PICK last \in contracts : last.version = n
  BY <1>3 DEF NumbersOf
<1>5. \A d \in contracts : d.version \in 1 .. n
  BY <1>1 DEF WellNumbered, NumbersOf
<1>6. \A d \in contracts : d.version <= last.version
  BY <1>4, <1>5
<1>7. PICK a : a = CHOOSE c \in contracts : \A d \in contracts : d.version <= c.version
  OBVIOUS
<1>8. a \in contracts /\ \A d \in contracts : d.version <= a.version
  BY <1>6, <1>7
<1>9. a.version = n
  BY <1>4, <1>5, <1>8
<1> QED BY <1>1, <1>7, <1>8, <1>9 DEF Active

(* One call moves, nothing is committed *)
LEMMA OneCheckMoves ==
  ASSUME ChecksInv, NEW v \in Validators, NEW r \in CheckRecords,
         checks' = [checks EXCEPT ![v] = r], UNCHANGED <<contracts, verdicts>>,
         CheckSound(r, contracts),
         OpenInsert(r) => \A w \in Validators \ {v} : ~OpenInsert(checks[w])
  PROVE  ChecksInv'
<1>1. /\ checks' \in [Validators -> CheckRecords] /\ checks'[v] = r
      /\ \A w \in Validators \ {v} : checks'[w] = checks[w]
  BY DEF ChecksInv
<1>2. \A w \in Validators : CheckSound(checks'[w], contracts)
  BY <1>1 DEF ChecksInv
<1>3. \A u, w \in Validators : OpenInsert(checks'[u]) /\ OpenInsert(checks'[w]) => u = w
  BY <1>1 DEF ChecksInv
<1> QED BY <1>1, <1>2, <1>3 DEF ChecksInv

(* The record of a validation, field by field *)
LEMMA CheckRecord ==
  ASSUME NEW r \in CheckRecords
  PROVE  /\ r = [step |-> r.step, table |-> r.table, own |-> r.own, contract |-> r.contract,
                 verdict |-> r.verdict]
         /\ r.table \in Tables \cup {NoContract} /\ r.own \in BOOLEAN
         /\ r.contract \in AnyContracts \cup {NoContract}
         /\ r.verdict \in [halt : BOOLEAN, score : 0 .. 1000]
  BY DEF CheckRecords

(* The shapes of the updates the actions make *)
LEMMA CheckRecordsKept ==
  ASSUME ChecksInv, NEW v \in Validators
  PROVE  checks[v] \in CheckRecords
  BY DEF ChecksInv

(* The steps that fail a call, or only move it on *)
LEMMA CheckGoes ==
  ASSUME ChecksInv, NEW v \in Validators, NEW step \in {"failed", "done"},
         checks' = [checks EXCEPT ![v].step = step], UNCHANGED <<contracts, verdicts>>,
         checks[v].table \in Tables
  PROVE  ChecksInv'
<1>1. PICK r \in CheckRecords : r = checks[v]
  BY CheckRecordsKept
<1>2. PICK s : s = [step |-> step, table |-> r.table, own |-> r.own,
                    contract |-> r.contract, verdict |-> r.verdict]
  OBVIOUS
<1>3. s \in CheckRecords
  BY <1>2, CheckRecord DEF CheckRecords, CheckSteps
<1>4. checks' = [checks EXCEPT ![v] = s]
  <2>1. [r EXCEPT !.step = step] = s
    BY <1>2 DEF CheckRecords
  <2> QED BY <1>1, <2>1 DEF ChecksInv
<1>5. CheckSound(s, contracts) /\ ~OpenInsert(s)
  BY <1>1, <1>2 DEF CheckSound, OpenInsert
<1> QED BY <1>3, <1>4, <1>5, OneCheckMoves

(* A validation begins *)
LEMMA CheckStartInv ==
  ASSUME ChecksInv, NEW v \in Validators, CheckStart(v)
  PROVE  ChecksInv'
<1>1. PICK t \in Tables : checks' = [checks EXCEPT ![v].step = "lookup", ![v].table = t]
  BY DEF CheckStart
<1>2. PICK r \in CheckRecords : r = checks[v]
  BY CheckRecordsKept
<1>3. PICK s : s = [step |-> "lookup", table |-> t, own |-> r.own, contract |-> r.contract,
                    verdict |-> r.verdict]
  OBVIOUS
<1>4. s \in CheckRecords
  BY <1>3, CheckRecord DEF CheckRecords, CheckSteps
<1>5. checks' = [checks EXCEPT ![v] = s]
  <2>1. PICK u : u = [r EXCEPT !.step = "lookup"]
    OBVIOUS
  <2>2. u = [step |-> "lookup", table |-> r.table, own |-> r.own, contract |-> r.contract,
             verdict |-> r.verdict]
    BY <2>1 DEF CheckRecords
  <2>3. [u EXCEPT !.table = t] = s
    BY <1>3, <2>2
  <2>4. [r EXCEPT !.step = "lookup", !.table = t] = s
    BY <2>1, <2>3
  <2> QED BY <1>1, <1>2, <2>4 DEF ChecksInv
<1>6. r.step = "idle" /\ CheckSound(r, contracts)
  BY <1>2 DEF CheckStart, CheckAt, ChecksInv
<1>7. CheckSound(s, contracts) /\ ~OpenInsert(s)
  BY <1>3, <1>6 DEF CheckSound, OpenInsert
<1> QED BY <1>4, <1>5, <1>7, OneCheckMoves DEF CheckStart

(* It reads the active contract *)
LEMMA CheckLookupInv ==
  ASSUME ChecksInv, NEW v \in Validators, CheckLookup(v)
  PROVE  ChecksInv'
<1>1. PICK r \in CheckRecords : r = checks[v]
  BY CheckRecordsKept
<1>2. r.step = "lookup" /\ CheckSound(r, contracts)
  BY <1>1 DEF CheckLookup, CheckAt, ChecksInv
<1>3. WellNumbered(contracts)
  BY DEF ChecksInv
<1>4. PICK c \in AnyContracts \cup {NoContract} : c = Active
  <2>1. contracts # {} => Active \in contracts
    BY <1>3, ActiveIsLast
  <2> QED BY <1>2, <1>3, <2>1 DEF Active, WellNumbered
<1>5. PICK step \in {"create", "judge"} :
         /\ step = IF contracts = {} THEN "create" ELSE "judge"
         /\ step = "judge" => c \in contracts
  BY <1>3, <1>4, ActiveIsLast
<1>6. PICK s : s = [step |-> step, table |-> r.table, own |-> r.own, contract |-> c,
                    verdict |-> r.verdict]
  OBVIOUS
<1>7. s \in CheckRecords
  BY <1>4, <1>5, <1>6, CheckRecord DEF CheckRecords, CheckSteps
<1>8. checks' = [checks EXCEPT ![v] = s]
  <2>1. checks' = [checks EXCEPT ![v].step = step, ![v].contract = c]
    BY <1>4, <1>5 DEF CheckLookup
  <2>2. PICK u : u = [r EXCEPT !.step = step]
    OBVIOUS
  <2>3. u = [step |-> step, table |-> r.table, own |-> r.own, contract |-> r.contract,
             verdict |-> r.verdict]
    BY <2>2 DEF CheckRecords
  <2>4. [u EXCEPT !.contract = c] = s
    BY <1>6, <2>3
  <2>5. [r EXCEPT !.step = step, !.contract = c] = s
    BY <2>2, <2>4
  <2> QED BY <1>1, <2>1, <2>5 DEF ChecksInv
<1>9. PICK n \in Nat : n = Cardinality(contracts)
  BY <1>3, FS_CardinalityType DEF WellNumbered
<1>10. step = "judge" => c \in AnyContracts /\ c.version \in 1 .. n
  BY <1>3, <1>5, <1>9 DEF WellNumbered, NumbersOf
<1>11. CheckSound(s, contracts) /\ ~OpenInsert(s)
  BY <1>2, <1>5, <1>6, <1>9, <1>10 DEF CheckSound, OpenInsert
<1> QED BY <1>7, <1>8, <1>11, OneCheckMoves DEF CheckLookup

(* It finds none and reads once more before it creates one *)
LEMMA CheckCreateInv ==
  ASSUME ChecksInv, NEW v \in Validators, CheckCreate(v)
  PROVE  ChecksInv'
<1>1. PICK r \in CheckRecords : r = checks[v]
  BY CheckRecordsKept
<1>2. r.step = "create" /\ CheckSound(r, contracts)
  BY <1>1 DEF CheckCreate, CheckAt, ChecksInv
<1>3. WellNumbered(contracts)
  BY DEF ChecksInv
<1>4. PICK n \in Nat : n = Cardinality(contracts)
  BY <1>3, FS_CardinalityType DEF WellNumbered
<1>5. (IF contracts = {} THEN 1 ELSE Active.version + 1) = n + 1
  BY <1>3, <1>4, ActiveIsLast, FS_EmptySet
<1>6. PICK c \in AnyContracts : c = Contract(n + 1, r.table)
  <2>1. r.table \in Tables
    BY <1>2 DEF CheckSound
  <2>2. [version |-> n + 1, of |-> r.table] \in AnyContracts
    BY <2>1 DEF AnyContracts
  <2> QED BY <2>2 DEF Contract
<1>7. c.version = n + 1 /\ c.of = r.table
  BY <1>6 DEF Contract
<1>8. PICK s : s = [step |-> "flush", table |-> r.table, own |-> r.own, contract |-> c,
                    verdict |-> r.verdict]
  OBVIOUS
<1>9. s \in CheckRecords
  BY <1>8, CheckRecord DEF CheckRecords, CheckSteps
<1>10. checks' = [checks EXCEPT ![v] = s]
  <2>1. checks' = [checks EXCEPT ![v].step = "flush", ![v].contract = c]
    BY <1>1, <1>5, <1>6 DEF CheckCreate
  <2>2. PICK u : u = [r EXCEPT !.step = "flush"]
    OBVIOUS
  <2>3. u = [step |-> "flush", table |-> r.table, own |-> r.own, contract |-> r.contract,
             verdict |-> r.verdict]
    BY <2>2 DEF CheckRecords
  <2>4. [u EXCEPT !.contract = c] = s
    BY <1>8, <2>3
  <2>5. [r EXCEPT !.step = "flush", !.contract = c] = s
    BY <2>2, <2>4
  <2> QED BY <1>1, <2>1, <2>5 DEF ChecksInv
<1>11. CheckSound(s, contracts) /\ ~OpenInsert(s)
  BY <1>2, <1>4, <1>7, <1>8 DEF CheckSound, OpenInsert
<1> QED BY <1>9, <1>10, <1>11, OneCheckMoves DEF CheckCreate

(* It flushes the contract it has inferred, or reports the conflict *)
LEMMA CheckFlushInv ==
  ASSUME ChecksInv, NEW v \in Validators, CheckFlush(v)
  PROVE  ChecksInv'
<1>1. PICK r \in CheckRecords : r = checks[v]
  BY CheckRecordsKept
<1>2. r.step = "flush" /\ CheckSound(r, contracts)
  BY <1>1 DEF CheckFlush, CheckAt, ChecksInv
<1>3. r.table \in Tables
  BY <1>2 DEF CheckSound
<1>4. CASE checks' = [checks EXCEPT ![v].step = "failed"]
  BY <1>1, <1>3, <1>4, CheckGoes DEF CheckFlush
<1>5. CASE ~Numbered(r.contract.version)
           /\ checks' = [checks EXCEPT ![v].step = "judge", ![v].own = TRUE]
  <2>1. WellNumbered(contracts)
    BY DEF ChecksInv
  <2>2. PICK n \in Nat : n = Cardinality(contracts)
    BY <2>1, FS_CardinalityType DEF WellNumbered
  <2>3. NumbersOf(contracts) = 1 .. n
    BY <2>1, <2>2 DEF WellNumbered
  <2>4. r.contract \in AnyContracts /\ r.contract.version <= n + 1 /\ r.contract.of = r.table
    BY <1>2, <2>2 DEF CheckSound
  <2>5. r.contract.version \notin NumbersOf(contracts)
    BY <1>5 DEF Numbered, NumbersOf
  <2>6. r.contract.version = n + 1
    BY <2>3, <2>4, <2>5 DEF AnyContracts
  <2>7. ASSUME NEW w \in Validators, OpenInsert(checks[w]) PROVE FALSE
    <3>1. PICK q \in CheckRecords : q = checks[w]
      BY CheckRecordsKept
    <3>2. q.own /\ q.step \in {"judge", "judged"} /\ CheckSound(q, contracts)
      BY <2>7, <3>1 DEF OpenInsert, ChecksInv
    <3>3. q.contract \in AnyContracts /\ q.contract.version <= n + 1
      BY <2>2, <3>2 DEF CheckSound
    <3>4. q.contract.version \notin 1 .. n
      BY <2>3, <3>2 DEF CheckSound
    <3>5. q.contract.version = r.contract.version
      BY <2>6, <3>3, <3>4 DEF AnyContracts
    <3>6. w \in Inserting(checks[v].contract.version)
      BY <1>1, <3>1, <3>2, <3>5 DEF Inserting
    <3> QED BY <3>6 DEF CheckFlush
  <2>8. PICK s : s = [step |-> "judge", table |-> r.table, own |-> TRUE,
                      contract |-> r.contract, verdict |-> r.verdict]
    OBVIOUS
  <2>9. s \in CheckRecords
    BY <2>8, CheckRecord DEF CheckRecords, CheckSteps
  <2>10. checks' = [checks EXCEPT ![v] = s]
    <3>1. PICK u : u = [r EXCEPT !.step = "judge"]
      OBVIOUS
    <3>2. u = [step |-> "judge", table |-> r.table, own |-> r.own, contract |-> r.contract,
               verdict |-> r.verdict]
      BY <3>1 DEF CheckRecords
    <3>3. PICK own : own = TRUE
      OBVIOUS
    <3>4. [u EXCEPT !.own = own] = s
      <4>1. [u EXCEPT !.own = own]
            = [step |-> "judge", table |-> r.table, own |-> own, contract |-> r.contract,
               verdict |-> r.verdict]
        BY <3>2
      <4>2. s = [step |-> "judge", table |-> r.table, own |-> own, contract |-> r.contract,
                 verdict |-> r.verdict]
        BY <2>8, <3>3, Zenon
      <4> QED BY <4>1, <4>2, Zenon
    <3>5. [r EXCEPT !.step = "judge", !.own = own] = s
      BY <3>1, <3>4
    <3>6. checks' = [checks EXCEPT ![v].step = "judge", ![v].own = own]
      BY <1>5, <3>3
    <3> QED BY <1>1, <3>5, <3>6 DEF ChecksInv
  <2>11. CheckSound(s, contracts)
    BY <1>3, <2>2, <2>4, <2>5, <2>8 DEF CheckSound
  <2> QED BY <2>7, <2>9, <2>10, <2>11, OneCheckMoves DEF CheckFlush
<1> QED BY <1>1, <1>4, <1>5 DEF CheckFlush

(* What a call that judges, or has judged, goes by *)
LEMMA JudgedBy ==
  ASSUME ChecksInv, NEW r \in CheckRecords, CheckSound(r, contracts),
         r.step \in {"judge", "judged"}
  PROVE  r.table \in Tables /\ r.contract \in AnyContracts /\ r.contract.of \in Tables
<1>1. r.table \in Tables /\ r.contract \in AnyContracts
  BY DEF CheckSound
<1> QED BY <1>1 DEF AnyContracts

(* It evaluates the expectations of its contract *)
LEMMA CheckJudgeInv ==
  ASSUME ChecksInv, NEW v \in Validators, CheckJudge(v)
  PROVE  ChecksInv'
<1>1. PICK r \in CheckRecords : r = checks[v]
  BY CheckRecordsKept
<1>2. r.step = "judge" /\ CheckSound(r, contracts)
  BY <1>1 DEF CheckJudge, CheckAt, ChecksInv
<1>3. r.table \in Tables /\ r.contract \in AnyContracts /\ r.contract.of \in Tables
  BY <1>2, JudgedBy
<1>4. PICK x \in [halt : BOOLEAN, score : 0 .. 1000] : x = Evaluate(r.table, r.contract.of)
  BY <1>3, VerdictBounds
<1>5. PICK s : s = [step |-> "judged", table |-> r.table, own |-> r.own,
                    contract |-> r.contract, verdict |-> x]
  OBVIOUS
<1>6. s \in CheckRecords
  BY <1>5, CheckRecord DEF CheckRecords, CheckSteps
<1>7. checks' = [checks EXCEPT ![v] = s]
  <2>1. checks' = [checks EXCEPT ![v].step = "judged", ![v].verdict = x]
    BY <1>1, <1>4 DEF CheckJudge
  <2>2. PICK u : u = [r EXCEPT !.step = "judged"]
    OBVIOUS
  <2>3. u = [step |-> "judged", table |-> r.table, own |-> r.own, contract |-> r.contract,
             verdict |-> r.verdict]
    BY <2>2 DEF CheckRecords
  <2>4. [u EXCEPT !.verdict = x] = s
    BY <1>5, <2>3
  <2>5. [r EXCEPT !.step = "judged", !.verdict = x] = s
    BY <2>2, <2>4
  <2> QED BY <1>1, <2>1, <2>5 DEF ChecksInv
<1>8. CheckSound(s, contracts)
  BY <1>2, <1>4, <1>5 DEF CheckSound
<1>9. OpenInsert(s) => \A w \in Validators \ {v} : ~OpenInsert(checks[w])
  BY <1>1, <1>2, <1>5 DEF OpenInsert, ChecksInv
<1> QED BY <1>6, <1>7, <1>8, <1>9, OneCheckMoves DEF CheckJudge

(* It fails, and its rows with it *)
LEMMA CheckRollbackInv ==
  ASSUME ChecksInv, NEW v \in Validators, CheckRollback(v)
  PROVE  ChecksInv'
<1>1. PICK r \in CheckRecords : r = checks[v]
  BY CheckRecordsKept
<1>2. r.step = "judged" /\ CheckSound(r, contracts)
  BY <1>1 DEF CheckRollback, CheckAt, ChecksInv
<1>3. r.table \in Tables
  BY <1>2, JudgedBy
<1> QED BY <1>1, <1>3, CheckGoes DEF CheckRollback

(* A contract under the next version keeps the numbering *)
LEMMA NumberedNext ==
  ASSUME NEW C, WellNumbered(C), NEW c \in AnyContracts, c.version = Cardinality(C) + 1
  PROVE  WellNumbered(C \cup {c}) /\ Cardinality(C \cup {c}) = Cardinality(C) + 1
<1>1. PICK n \in Nat : n = Cardinality(C)
  BY FS_CardinalityType DEF WellNumbered
<1>2. NumbersOf(C) = 1 .. n
  BY <1>1 DEF WellNumbered
<1>3. c \notin C
  <2>1. c \in C => c.version \in NumbersOf(C)
    BY DEF NumbersOf
  <2> QED BY <1>1, <1>2, <2>1
<1>4. IsFiniteSet(C \cup {c}) /\ Cardinality(C \cup {c}) = n + 1
  BY <1>1, <1>3, FS_AddElement DEF WellNumbered
<1>5. NumbersOf(C \cup {c}) = NumbersOf(C) \cup {c.version}
  BY DEF NumbersOf
<1>6. NumbersOf(C \cup {c}) = 1 .. n + 1
  <2>1. (1 .. n) \cup {n + 1} = 1 .. n + 1
    OBVIOUS
  <2> QED BY <1>1, <1>2, <1>5, <2>1
<1>7. \A d \in C : d.version \in 1 .. n
  BY <1>2 DEF NumbersOf
<1>8. \A d, e \in C \cup {c} : d.version = e.version => d = e
  BY <1>1, <1>7 DEF WellNumbered
<1>9. C \cup {c} \subseteq AnyContracts
  BY DEF WellNumbered
<1> QED BY <1>1, <1>4, <1>6, <1>8, <1>9 DEF WellNumbered

(* It commits the contract and the verdict *)
LEMMA CheckCommitInv ==
  ASSUME ChecksInv, NEW v \in Validators, CheckCommit(v)
  PROVE  ChecksInv'
<1>1. PICK r \in CheckRecords : r = checks[v]
  BY CheckRecordsKept
<1>2. r.step = "judged" /\ CheckSound(r, contracts)
  BY <1>1 DEF CheckCommit, CheckAt, ChecksInv
<1>3. r.table \in Tables /\ r.contract \in AnyContracts /\ r.contract.of \in Tables
  BY <1>2, JudgedBy
<1>4. WellNumbered(contracts)
  BY DEF ChecksInv
<1>5. PICK n \in Nat : n = Cardinality(contracts)
  BY <1>4, FS_CardinalityType DEF WellNumbered
<1>6. PICK s : s = [step |-> "done", table |-> r.table, own |-> r.own,
                    contract |-> r.contract, verdict |-> r.verdict]
  OBVIOUS
<1>7. s \in CheckRecords
  BY <1>6, CheckRecord DEF CheckRecords, CheckSteps
<1>8. checks' = [checks EXCEPT ![v] = s]
  <2>1. [r EXCEPT !.step = "done"] = s
    BY <1>6 DEF CheckRecords
  <2> QED BY <1>1, <2>1 DEF ChecksInv, CheckCommit
<1>9. /\ checks' \in [Validators -> CheckRecords] /\ checks'[v] = s
      /\ \A w \in Validators \ {v} : checks'[w] = checks[w]
  BY <1>7, <1>8 DEF ChecksInv
<1>10. \A w, x \in Validators : OpenInsert(checks'[w]) /\ OpenInsert(checks'[x]) => w = x
  <2>1. ~OpenInsert(s)
    BY <1>6 DEF OpenInsert
  <2> QED BY <1>9, <2>1 DEF ChecksInv
<1>11. r.contract \in contracts' /\ contracts \subseteq contracts'
  <2>1. ~r.own => r.contract \in contracts
    BY <1>2 DEF CheckSound
  <2> QED BY <1>1, <2>1 DEF CheckCommit
<1>12. \A row \in verdicts' : row.contract \in contracts'
  <2>1. PICK row : row = [table |-> checks[v].table, contract |-> checks[v].contract,
                          score |-> checks[v].verdict.score]
    OBVIOUS
  <2>2. row.contract = r.contract /\ verdicts' = verdicts \cup {row}
    BY <1>1, <2>1 DEF CheckCommit
  <2> QED BY <1>11, <2>2 DEF ChecksInv
<1>13. CASE ~r.own
  <2>1. contracts' = contracts
    BY <1>1, <1>13 DEF CheckCommit
  <2>2. CheckSound(s, contracts)
    BY <1>3, <1>6 DEF CheckSound
  <2>3. \A w \in Validators : CheckSound(checks'[w], contracts')
    BY <1>9, <2>1, <2>2 DEF ChecksInv
  <2> QED BY <1>4, <1>9, <1>10, <1>12, <2>1, <2>3 DEF ChecksInv
<1>14. CASE r.own
  <2>1. contracts' = contracts \cup {r.contract}
    BY <1>1, <1>14 DEF CheckCommit
  <2>2. r.contract.version = n + 1
    <3>1. r.contract.version \in Nat \ {0} /\ r.contract.version <= n + 1
      BY <1>2, <1>3, <1>5 DEF CheckSound, AnyContracts
    <3>2. r.contract.version \notin 1 .. n
      BY <1>2, <1>4, <1>5, <1>14 DEF CheckSound, WellNumbered
    <3> QED BY <3>1, <3>2
  <2>3. WellNumbered(contracts') /\ Cardinality(contracts') = n + 1
    BY <1>3, <1>4, <1>5, <2>1, <2>2, NumberedNext
  <2>4. CheckSound(s, contracts')
    BY <1>3, <1>6 DEF CheckSound
  <2>5. ASSUME NEW w \in Validators \ {v} PROVE CheckSound(checks[w], contracts')
    <3>1. PICK q \in CheckRecords : q = checks[w]
      BY CheckRecordsKept
    <3>2. CheckSound(q, contracts)
      BY <3>1 DEF ChecksInv
    <3>3. ~OpenInsert(q)
      BY <1>1, <1>2, <1>14, <3>1 DEF OpenInsert, ChecksInv
    <3>4. q.step \in {"flush", "judge", "judged"} =>
            q.contract \in AnyContracts /\ q.contract.version <= n + 1
      BY <1>5, <3>2 DEF CheckSound
    <3>5. q.step \in {"flush", "judge", "judged"} => q.contract.version <= n + 1 + 1
      BY <3>4 DEF AnyContracts
    <3>6. q.step \in {"judge", "judged"} => ~q.own /\ q.contract \in contracts'
      BY <1>11, <3>2, <3>3 DEF CheckSound, OpenInsert
    <3>7. CheckSound(q, contracts')
      BY <2>3, <3>2, <3>4, <3>5, <3>6 DEF CheckSound
    <3> QED BY <3>1, <3>7
  <2>6. \A w \in Validators : CheckSound(checks'[w], contracts')
    BY <1>9, <2>4, <2>5
  <2> QED BY <1>9, <1>10, <1>12, <2>3, <2>6 DEF ChecksInv
<1> QED BY <1>1, <1>13, <1>14

(* Every step keeps the invariant *)
LEMMA ChecksInvInductive == ChecksInv /\ [ChecksNext]_checkVars => ChecksInv'
<1> SUFFICES ASSUME ChecksInv, [ChecksNext]_checkVars PROVE ChecksInv'
  OBVIOUS
<1>1. CASE UNCHANGED checkVars
  BY <1>1 DEF checkVars, ChecksInv
<1>2. CASE ChecksNext
  <2>1. PICK v \in Validators : \/ CheckStart(v) \/ CheckLookup(v) \/ CheckCreate(v) \/ CheckFlush(v)
                                \/ CheckJudge(v) \/ CheckCommit(v) \/ CheckRollback(v)
    BY <1>2 DEF ChecksNext
  <2> QED BY <2>1, CheckStartInv, CheckLookupInv, CheckCreateInv, CheckFlushInv,
             CheckJudgeInv, CheckCommitInv, CheckRollbackInv
<1> QED BY <1>1, <1>2

(* Whatever validations race to infer the contract of a dataset, its       *)
(* versions are numbered from 1 without a gap or a repetition, and every   *)
(* stored run names a stored contract (data_quality/repositories.py).      *)
THEOREM ContractsInferred == ChecksSpec => []ContractsNumbered
<1>1. ChecksInv => ContractsNumbered
  BY DEF ChecksInv, WellNumbered, NumbersOf, ContractsNumbered
<1> QED BY <1>1, ChecksInitInv, ChecksInvInductive, PTL DEF ChecksSpec

(* A table is halted if and only if it lacks a column of the contract, or  *)
(* its key has a gap or a repetition (data_quality/expectations.py,        *)
(* data_quality/gates.py); no sum of other penalties halts one, and a      *)
(* halted table never scores more than 800.                                *)
THEOREM VerdictsMeanSchema == ChecksSpec => []VerdictMeansSchema
<1>1. ChecksInv => VerdictMeansSchema
  <2> SUFFICES ASSUME ChecksInv, NEW v \in Validators, CheckAt(v, "judged")
      PROVE  LET of == checks[v].contract.of
                 t == checks[v].table
             IN /\ checks[v].verdict.halt <=> Breaks(t, of)
                /\ checks[v].verdict.halt => checks[v].verdict.score <= 800
                /\ checks[v].own /\ t.gaps[t.key] = "none" /\ t.key \notin t.repeats
                   => ~checks[v].verdict.halt
    BY DEF VerdictMeansSchema
  <2>1. PICK r \in CheckRecords : r = checks[v]
    BY CheckRecordsKept
  <2>2. r.step = "judged" /\ CheckSound(r, contracts)
    BY <2>1 DEF CheckAt, ChecksInv
  <2>3. PICK t \in Tables, of \in Tables : t = r.table /\ of = r.contract.of
    BY <2>2, JudgedBy
  <2>4. r.verdict = Evaluate(t, of) /\ (r.own => of = t)
    BY <2>2, <2>3 DEF CheckSound
  <2>5. /\ Evaluate(t, of).halt <=> Breaks(t, of)
        /\ Evaluate(t, of).halt => Evaluate(t, of).score <= 800
    BY VerdictBounds, HaltsForSchema
  <2>6. t = of /\ t.gaps[t.key] = "none" /\ t.key \notin t.repeats => ~Breaks(t, of)
    BY DEF Breaks
  <2> QED BY <2>1, <2>3, <2>4, <2>5, <2>6
<1> QED BY <1>1, ChecksInitInv, ChecksInvInductive, PTL DEF ChecksSpec

(* The validations whose contract is stored *)
Owners == {v \in Validators : checks[v].own /\ checks[v].step = "done"}

(* The rows of the verdicts *)
Runs == [table : Tables, contract : Contracts, score : 0 .. 1000]

(* Every stored contract has a validation of its own that stored it *)
Counted ==
    /\ Cardinality(contracts) = Cardinality(Owners)
    /\ \A v \in Validators : checks[v].contract \in Contracts \cup {NoContract}
    /\ verdicts \subseteq Runs

(* So there are not more contracts than validations *)
LEMMA ContractsCounted ==
  ASSUME IsFiniteSet(Validators), ChecksInv, Counted
  PROVE  /\ Cardinality(Validators) \in Nat
         /\ contracts \subseteq Contracts
         /\ \A v \in Validators \ Owners : Cardinality(contracts) + 1 <= Cardinality(Validators)
<1>1. PICK m \in Nat : m = Cardinality(Validators)
  BY FS_CardinalityType
<1>2. PICK n \in Nat : n = Cardinality(contracts)
  BY FS_CardinalityType DEF ChecksInv, WellNumbered
<1>3. Owners \subseteq Validators
  BY DEF Owners
<1>4. n <= m
  BY <1>1, <1>2, <1>3, FS_Subset DEF Counted
<1>5. NumbersOf(contracts) = 1 .. n /\ contracts \subseteq AnyContracts
  BY <1>2 DEF ChecksInv, WellNumbered
<1>6. contracts \subseteq Contracts
  <2>1. ASSUME NEW c \in contracts PROVE c \in Contracts
    <3>1. c \in AnyContracts /\ c.version \in 1 .. n
      BY <1>5 DEF NumbersOf
    <3>2. c.version \in 1 .. Cardinality(Validators)
      BY <1>1, <1>4, <3>1
    <3> QED BY <3>1, <3>2 DEF AnyContracts, Contracts
  <2> QED BY <2>1
<1>7. ASSUME NEW v \in Validators \ Owners PROVE n + 1 <= m
  <2>1. Owners \subseteq Validators \ {v}
    BY <1>3
  <2>2. IsFiniteSet(Validators \ {v}) /\ Cardinality(Validators \ {v}) = m - 1
    BY <1>1, FS_RemoveElement
  <2>3. n <= m - 1
    BY <1>2, <2>1, <2>2, FS_Subset DEF Counted
  <2> QED BY <1>1, <1>2, <2>3
<1> QED BY <1>1, <1>2, <1>6, <1>7

(* A step other than a commit stores no contract *)
LEMMA OwnersKept ==
  ASSUME ChecksInv, NEW v \in Validators,
         \/ CheckStart(v) \/ CheckLookup(v) \/ CheckCreate(v) \/ CheckFlush(v)
         \/ CheckJudge(v) \/ CheckRollback(v)
  PROVE  /\ Owners' = Owners /\ UNCHANGED <<contracts, verdicts>>
         /\ v \notin Owners
         /\ \A w \in Validators \ {v} : checks'[w] = checks[w]
<1>1. checks \in [Validators -> CheckRecords]
  BY DEF ChecksInv
<1>2. /\ \A w \in Validators \ {v} : checks'[w] = checks[w]
      /\ checks[v].step # "done" /\ checks'[v].step # "done"
  <2>1. CASE CheckStart(v)
    <3>1. PICK t : checks' = [checks EXCEPT ![v].step = "lookup", ![v].table = t]
      BY <2>1 DEF CheckStart
    <3>2. checks[v].step = "idle"
      BY <2>1 DEF CheckStart, CheckAt
    <3> QED BY <1>1, <3>1, <3>2 DEF CheckRecords
  <2>2. CASE CheckLookup(v) BY <1>1, <2>2 DEF CheckLookup, CheckAt, CheckRecords
  <2>3. CASE CheckCreate(v) BY <1>1, <2>3 DEF CheckCreate, CheckAt, CheckRecords
  <2>4. CASE CheckFlush(v)
    <3>1. PICK own \in BOOLEAN, step \in {"failed", "judge"} :
             \/ checks' = [checks EXCEPT ![v].step = step]
             \/ checks' = [checks EXCEPT ![v].step = step, ![v].own = own]
      BY <2>4 DEF CheckFlush
    <3> QED BY <1>1, <2>4, <3>1 DEF CheckFlush, CheckAt, CheckRecords
  <2>5. CASE CheckJudge(v)
    <3>1. PICK x : checks' = [checks EXCEPT ![v].step = "judged", ![v].verdict = x]
      BY <2>5 DEF CheckJudge
    <3> QED BY <1>1, <2>5, <3>1 DEF CheckJudge, CheckAt, CheckRecords
  <2>6. CASE CheckRollback(v) BY <1>1, <2>6 DEF CheckRollback, CheckAt, CheckRecords
  <2> QED BY <2>1, <2>2, <2>3, <2>4, <2>5, <2>6
<1>3. UNCHANGED <<contracts, verdicts>>
  BY DEF CheckStart, CheckLookup, CheckCreate, CheckFlush, CheckJudge, CheckRollback
<1> QED BY <1>2, <1>3 DEF Owners

(* nor changes one *)
LEMMA ContractsKept ==
  ASSUME ChecksInv, NEW v \in Validators,
         CheckStart(v) \/ CheckFlush(v) \/ CheckJudge(v) \/ CheckRollback(v) \/ CheckCommit(v)
  PROVE  checks'[v].contract = checks[v].contract
<1>1. checks \in [Validators -> CheckRecords]
  BY DEF ChecksInv
<1>2. CASE CheckStart(v)
  <2>1. PICK t : checks' = [checks EXCEPT ![v].step = "lookup", ![v].table = t]
    BY <1>2 DEF CheckStart
  <2> QED BY <1>1, <2>1 DEF CheckRecords
<1>3. CASE CheckFlush(v)
  <2>1. PICK own \in BOOLEAN, step \in {"failed", "judge"} :
           \/ checks' = [checks EXCEPT ![v].step = step]
           \/ checks' = [checks EXCEPT ![v].step = step, ![v].own = own]
    BY <1>3 DEF CheckFlush
  <2> QED BY <1>1, <2>1 DEF CheckRecords
<1>4. CASE CheckJudge(v)
  <2>1. PICK x : checks' = [checks EXCEPT ![v].step = "judged", ![v].verdict = x]
    BY <1>4 DEF CheckJudge
  <2> QED BY <1>1, <2>1 DEF CheckRecords
<1>5. CASE CheckRollback(v) BY <1>1, <1>5 DEF CheckRollback, CheckRecords
<1>6. CASE CheckCommit(v) BY <1>1, <1>6 DEF CheckCommit, CheckRecords
<1> QED BY <1>2, <1>3, <1>4, <1>5, <1>6

(* The steps other than a commit *)
LEMMA CountedNext ==
  ASSUME IsFiniteSet(Validators), ChecksInv, ChecksInv', Counted, NEW v \in Validators,
         \/ CheckStart(v) \/ CheckLookup(v) \/ CheckCreate(v) \/ CheckFlush(v)
         \/ CheckJudge(v) \/ CheckRollback(v)
  PROVE  Counted'
<1>1. /\ Owners' = Owners /\ UNCHANGED <<contracts, verdicts>> /\ v \notin Owners
      /\ \A w \in Validators \ {v} : checks'[w] = checks[w]
  BY OwnersKept
<1>2. /\ Cardinality(Validators) \in Nat /\ contracts \subseteq Contracts
      /\ Cardinality(contracts) + 1 <= Cardinality(Validators)
  BY <1>1, ContractsCounted
<1>3. WellNumbered(contracts) /\ checks \in [Validators -> CheckRecords]
  BY DEF ChecksInv
<1>4. checks'[v].contract \in Contracts \cup {NoContract}
  <2>1. CASE CheckStart(v) \/ CheckFlush(v) \/ CheckJudge(v) \/ CheckRollback(v)
    BY <2>1, ContractsKept DEF Counted
  <2>2. CASE CheckLookup(v)
    <3>1. PICK c, step : /\ c = Active
                        /\ checks' = [checks EXCEPT ![v].step = step, ![v].contract = c]
      BY <2>2 DEF CheckLookup
    <3>2. c \in Contracts \cup {NoContract}
      BY <1>2, <1>3, <3>1, ActiveIsLast DEF Active
    <3>3. checks'[v].contract = c
      BY <1>3, <3>1 DEF CheckRecords
    <3> QED BY <3>2, <3>3
  <2>3. CASE CheckCreate(v)
    <3>1. PICK n \in Nat, m \in Nat : n = Cardinality(contracts) /\ m = Cardinality(Validators)
      BY <1>2, <1>3, FS_CardinalityType DEF WellNumbered
    <3>2. (IF contracts = {} THEN 1 ELSE Active.version + 1) = n + 1
      BY <1>3, <3>1, ActiveIsLast, FS_EmptySet
    <3>3. PICK c : c = Contract(n + 1, checks[v].table)
      OBVIOUS
    <3>4. checks'[v].contract = c
      <4>1. checks' = [checks EXCEPT ![v].step = "flush", ![v].contract = c]
        BY <2>3, <3>2, <3>3 DEF CheckCreate
      <4> QED BY <1>3, <4>1 DEF CheckRecords
    <3>5. checks[v].table \in Tables
      BY <2>3 DEF CheckCreate, CheckAt, ChecksInv, CheckSound
    <3>6. n + 1 \in 1 .. m
      BY <1>2, <3>1
    <3>7. [version |-> n + 1, of |-> checks[v].table] \in Contracts
      BY <3>1, <3>5, <3>6 DEF Contracts
    <3> QED BY <3>3, <3>4, <3>7 DEF Contract
  <2> QED BY <2>1, <2>2, <2>3
<1>5. \A w \in Validators : checks'[w].contract \in Contracts \cup {NoContract}
  BY <1>1, <1>4 DEF Counted
<1> QED BY <1>1, <1>5 DEF Counted

(* A commit stores one contract at most, and its validation with it *)
LEMMA CountedCommit ==
  ASSUME IsFiniteSet(Validators), ChecksInv, ChecksInv', Counted, NEW v \in Validators,
         CheckCommit(v)
  PROVE  Counted'
<1>1. PICK r \in CheckRecords : r = checks[v]
  BY CheckRecordsKept
<1>2. r.step = "judged" /\ CheckSound(r, contracts)
  BY <1>1 DEF CheckCommit, CheckAt, ChecksInv
<1>3. r.table \in Tables /\ r.contract \in AnyContracts /\ r.contract.of \in Tables
  BY <1>2, JudgedBy
<1>4. r.contract \in Contracts
  <2>1. v \notin Owners
    BY <1>1, <1>2 DEF Owners
  <2>2. PICK n \in Nat, m \in Nat :
              n = Cardinality(contracts) /\ m = Cardinality(Validators) /\ n + 1 <= m
    BY <2>1, ContractsCounted, FS_CardinalityType DEF ChecksInv, WellNumbered
  <2>3. r.contract.version \in Nat \ {0} /\ r.contract.version <= n + 1
    BY <1>2, <1>3, <2>2 DEF CheckSound, AnyContracts
  <2>4. r.contract.version \in 1 .. m
    BY <2>2, <2>3
  <2> QED BY <1>3, <2>2, <2>4 DEF AnyContracts, Contracts
<1>5. checks \in [Validators -> CheckRecords]
  BY DEF ChecksInv
<1>6. /\ \A w \in Validators \ {v} : checks'[w] = checks[w]
      /\ checks'[v].step = "done" /\ checks'[v].own = r.own /\ checks'[v].contract = r.contract
  BY <1>1, <1>5 DEF CheckCommit, CheckRecords
<1>7. \A w \in Validators : checks'[w].contract \in Contracts \cup {NoContract}
  BY <1>4, <1>6 DEF Counted
<1>8. verdicts' \subseteq Runs
  <2>1. r.verdict.score \in 0 .. 1000
    <3>1. r.verdict \in [halt : BOOLEAN, score : 0 .. 1000]
      BY CheckRecord
    <3> QED BY <3>1
  <2>2. [table |-> r.table, contract |-> r.contract, score |-> r.verdict.score] \in Runs
    BY <1>3, <1>4, <2>1 DEF Runs
  <2> QED BY <1>1, <2>2 DEF CheckCommit, Counted
<1>9. PICK n \in Nat : n = Cardinality(contracts) /\ n = Cardinality(Owners)
  BY FS_CardinalityType DEF Counted, ChecksInv, WellNumbered
<1>10. v \notin Owners
  BY <1>1, <1>2 DEF Owners
<1>11. Cardinality(contracts') = Cardinality(Owners')
  <2>1. CASE ~r.own
    <3>1. contracts' = contracts
      BY <1>1, <2>1 DEF CheckCommit
    <3>2. Owners' = Owners
      BY <1>6, <1>10, <2>1 DEF Owners
    <3> QED BY <3>1, <3>2 DEF Counted
  <2>2. CASE r.own
    <3>1. contracts' = contracts \cup {r.contract}
      BY <1>1, <2>2 DEF CheckCommit
    <3>2. r.contract \notin contracts
      BY <1>2, <2>2 DEF CheckSound, NumbersOf
    <3>3. Cardinality(contracts') = n + 1
      BY <1>9, <3>1, <3>2, FS_AddElement DEF ChecksInv, WellNumbered
    <3>4. Owners' = Owners \cup {v}
      BY <1>6, <2>2 DEF Owners
    <3>5. IsFiniteSet(Owners)
      BY FS_Subset DEF Owners
    <3>6. Cardinality(Owners') = n + 1
      BY <1>9, <1>10, <3>4, <3>5, FS_AddElement
    <3> QED BY <3>3, <3>6
  <2> QED BY <2>1, <2>2
<1> QED BY <1>7, <1>8, <1>11 DEF Counted

(* Validations, contracts and verdicts keep their types; that a version is *)
(* at most the number of validations needs a finite set of them.           *)
THEOREM ChecksTypeCorrect == IsFiniteSet(Validators) => (ChecksSpec => []ChecksTypeOK)
<1> SUFFICES ASSUME IsFiniteSet(Validators) PROVE ChecksSpec => []ChecksTypeOK
  OBVIOUS
<1>1. ChecksInit => Counted
  <2> SUFFICES ASSUME ChecksInit PROVE Counted
    OBVIOUS
  <2>1. \A v \in Validators : checks[v].step = "idle" /\ checks[v].contract = NoContract
    BY DEF ChecksInit, IdleCheck
  <2>2. Owners = {}
    BY <2>1 DEF Owners
  <2> QED BY <2>1, <2>2, FS_EmptySet DEF ChecksInit, Counted
<1>2. ChecksInv /\ ChecksInv' /\ Counted /\ [ChecksNext]_checkVars => Counted'
  <2> SUFFICES ASSUME ChecksInv, ChecksInv', Counted, [ChecksNext]_checkVars PROVE Counted'
    OBVIOUS
  <2>1. CASE UNCHANGED checkVars
    BY <2>1 DEF checkVars, Counted, Owners
  <2>2. CASE ChecksNext
    <3>1. PICK v \in Validators : \/ CheckStart(v) \/ CheckLookup(v) \/ CheckCreate(v) \/ CheckFlush(v)
                                  \/ CheckJudge(v) \/ CheckCommit(v) \/ CheckRollback(v)
      BY <2>2 DEF ChecksNext
    <3> QED BY <3>1, CountedNext, CountedCommit
  <2> QED BY <2>1, <2>2
<1>3. ChecksInv /\ Counted => ChecksTypeOK
  <2> SUFFICES ASSUME ChecksInv, Counted PROVE ChecksTypeOK
    OBVIOUS
  <2>1. contracts \subseteq Contracts
    BY ContractsCounted
  <2>2. \A v \in Validators :
           checks[v] \in [step : CheckSteps, table : Tables \cup {NoContract}, own : BOOLEAN,
                          contract : Contracts \cup {NoContract},
                          verdict : [halt : BOOLEAN, score : 0 .. 1000]]
    <3> SUFFICES ASSUME NEW v \in Validators
        PROVE  checks[v] \in [step : CheckSteps, table : Tables \cup {NoContract},
                              own : BOOLEAN,
                          contract : Contracts \cup {NoContract},
                          verdict : [halt : BOOLEAN, score : 0 .. 1000]]
      OBVIOUS
    <3>1. PICK r \in CheckRecords : r = checks[v]
      BY CheckRecordsKept
    <3>2. r.contract \in Contracts \cup {NoContract}
      BY <3>1 DEF Counted
    <3> QED BY <3>1, <3>2 DEF CheckRecords
  <2>3. checks \in [Validators -> [step : CheckSteps, table : Tables \cup {NoContract},
                                   own : BOOLEAN,
                          contract : Contracts \cup {NoContract},
                          verdict : [halt : BOOLEAN, score : 0 .. 1000]]]
    BY <2>2 DEF ChecksInv
  <2> QED BY <2>1, <2>3 DEF ChecksTypeOK, Counted, Runs, CheckSteps
<1> QED BY <1>1, <1>2, <1>3, ChecksInitInv, ChecksInvInductive, PTL DEF ChecksSpec

-----------------------------------------------------------------------------
(* Transformations *)

-----------------------------------------------------------------------------

(* Min of the community modules is an element *)
LEMMA MinIsMember ==
  ASSUME NEW S, S \subseteq Nat, S # {}
  PROVE  Min(S) \in S
  BY SmallestElement DEF Min

(* An order of a set has every element of it, and nothing else *)
LEMMA OrdersAreOrders ==
  ASSUME NEW S, NEW keys \in Orders(S)
  PROVE  /\ Range(keys) = S
         /\ \A i \in DOMAIN keys : i \in Nat /\ keys[i] \in S
         /\ \A c \in S : \E i \in DOMAIN keys : keys[i] = c
  BY DEF Orders, Range

(* A set with one element at most has no two *)
LEMMA AtMostOne ==
  ASSUME NEW S, IsFiniteSet(S), Cardinality(S) <= 1, NEW x \in S, NEW y \in S
  PROVE  x = y
<1>1. IsFiniteSet({x}) /\ Cardinality({x}) = 1
  BY FS_Singleton
<1>2. {x} \subseteq S
  OBVIOUS
<1>3. Cardinality(S) \in Nat /\ Cardinality({x}) <= Cardinality(S)
  BY <1>2, FS_CardinalityType, FS_Subset
<1>4. Cardinality(S) = Cardinality({x})
  BY <1>1, <1>3
<1>5. S = {x}
  BY <1>2, <1>4, FS_Subset
<1> QED BY <1>5

(* A feature whose name means one column finds it in whatever order *)
LEMMA OneColumnMeant ==
  ASSUME NEW f \in Derived, Unambiguous(f)
  PROVE  \E c \in Fields : \A keys \in Orders(Fields) : SourceColumn(f, keys) = c
<1>1. CASE f.name # NoName
  <2>1. f.name \in Fields
    BY <1>1, TransformsAssumption
  <2>2. \A keys \in Orders(Fields) : f.name \in Range(keys)
    BY <2>1, OrdersAreOrders
  <2>3. \A keys \in Orders(Fields) : SourceColumn(f, keys) = f.name
    BY <2>2 DEF SourceColumn
  <2> QED BY <2>1, <2>3
<1>2. CASE f.name = NoName
  <2>1. Cardinality(f.hints) = 1 /\ f.hints \subseteq Fields
    BY <1>2, TransformsAssumption DEF Unambiguous
  <2>2. PICK c : f.hints = {c}
    <3>1. IsFiniteSet(f.hints)
      BY <2>1, TransformsAssumption, FS_Subset
    <3> QED BY <2>1, <3>1, FS_Singleton
  <2>3. ASSUME NEW keys \in Orders(Fields) PROVE SourceColumn(f, keys) = c
    <3> DEFINE hinted == {i \in DOMAIN keys : keys[i] \in f.hints}
    <3>1. f.name \notin Range(keys)
      BY <1>2, OrdersAreOrders, TransformsAssumption
    <3>2. hinted # {} /\ hinted \subseteq Nat
      BY <2>1, <2>2, OrdersAreOrders
    <3>3. keys[Min(hinted)] = c
      BY <2>2, <3>2, MinIsMember
    <3> QED BY <3>1, <3>2, <3>3 DEF SourceColumn
  <2> QED BY <2>1, <2>2, <2>3
<1> QED BY <1>1, <1>2

(* A column has numbers or texts, and the cells tell which *)
LEMMA CellsOfColumn ==
  ASSUME NEW cells \in Contents, Missing \notin Range(cells), NEW i \in 1 .. NumRows
  PROVE  /\ DOMAIN cells = 1 .. NumRows
         /\ cells[i] # Missing
         /\ \/ cells[i] \in Numbers /\ cells[i] \notin Texts /\ Numeric(cells)
            \/ cells[i] \in Texts /\ cells[i] \notin Numbers /\ ~Numeric(cells)
               /\ \A j \in 1 .. NumRows : cells[j] \in Texts
<1>1. \/ cells \in [1 .. NumRows -> Numbers \cup {Missing}]
      \/ cells \in [1 .. NumRows -> Texts \cup {Missing}]
  BY DEF Contents
<1>2. DOMAIN cells = 1 .. NumRows /\ \A j \in 1 .. NumRows : cells[j] # Missing
  BY <1>1 DEF Range
<1> QED BY <1>1, <1>2, TransformsAssumption DEF Numeric

(* str() writes a number of the table as it writes one of the request *)
LEMMA TextsAgree ==
  ASSUME NEW cells \in Contents, Missing \notin Range(cells), NEW i \in 1 .. NumRows
  PROVE  CellText(cells, i) = ValueText(cells[i])
  BY CellsOfColumn DEF CellText, ValueText

(* In a full column of one date format each date is read as in the column *)
LEMMA DatesAgree ==
  ASSUME NEW cells \in Contents, Missing \notin Range(cells), OneDateForm(cells),
         NEW i \in 1 .. NumRows
  PROVE  ColumnDate(cells, i) = ValueDate(cells[i])
<1> DEFINE filled == {j \in DOMAIN cells : cells[j] # Missing}
           texts == {j \in DOMAIN cells : cells[j] \in Texts}
           forms == {DateForm[cells[j]] : j \in texts}
<1>1. /\ DOMAIN cells = 1 .. NumRows
      /\ \A j \in 1 .. NumRows : cells[j] # Missing
  BY CellsOfColumn
<1>2. CASE cells[i] \notin Texts
  BY <1>2 DEF ColumnDate
<1>3. CASE cells[i] \in Texts
  <2>1. \A j \in 1 .. NumRows : cells[j] \in Texts
    BY <1>3, CellsOfColumn
  <2>2. filled = 1 .. NumRows /\ i \in filled
    BY <1>1
  <2>3. PICK m : m = Min(filled)
    OBVIOUS
  <2>4. m \in 1 .. NumRows
    BY <2>2, <2>3, MinIsMember
  <2>5. texts = 1 .. NumRows /\ IsFiniteSet(texts)
    <3>1. texts = 1 .. NumRows
      BY <1>1, <2>1
    <3>2. IsFiniteSet(1 .. NumRows)
      BY FS_Interval, TransformsAssumption
    <3> QED BY <3>1, <3>2
  <2>6. DateForm[cells[m]] \in forms /\ DateForm[cells[i]] \in forms
    BY <2>4, <2>5
  <2>7. IsFiniteSet(forms)
    <3> DEFINE h == [j \in texts |-> DateForm[cells[j]]]
    <3>1. h \in Surjection(texts, forms)
      BY DEF Surjection
    <3> QED BY <2>5, <3>1, FS_Surjection
  <2>8. \/ DateForm[cells[m]] = NoDate
        \/ DateForm[cells[i]] = NoDate
        \/ DateForm[cells[m]] = DateForm[cells[i]]
    <3>1. IsFiniteSet(forms \ {NoDate}) /\ Cardinality(forms \ {NoDate}) <= 1
      BY <2>7, FS_Subset DEF OneDateForm
    <3> QED BY <2>6, <3>1, AtMostOne
  <2> QED BY <1>3, <2>3, <2>8 DEF ColumnDate, ValueDate
<1> QED BY <1>2, <1>3

(* What the request gets is what the model was trained on *)
LEMMA ServedAsTrained ==
  ASSUME NEW f \in Derived, NEW cells \in Contents, Missing \notin Range(cells),
         OneDateForm(cells),
         ~FitFails(f, cells), NEW i \in 1 .. NumRows, NEW state
  PROVE  TransformSingle(f, state, cells[i]) = Transform(f, state, cells, i)
<1>1. /\ DOMAIN cells = 1 .. NumRows
      /\ cells[i] # Missing
      /\ \/ cells[i] \in Numbers /\ cells[i] \notin Texts /\ Numeric(cells)
         \/ cells[i] \in Texts /\ cells[i] \notin Numbers /\ ~Numeric(cells)
  BY CellsOfColumn
<1>2. CellText(cells, i) = ValueText(cells[i]) /\ ColumnDate(cells, i) = ValueDate(cells[i])
  BY TextsAgree, DatesAgree
<1>3. CASE f.kind \in NumericKinds
  <2>1. cells[i] \in Numbers /\ cells[i] \notin Texts
    BY <1>1, <1>3 DEF FitFails
  <2>2. TransformSingle(f, state, cells[i]) = <<cells[i], state>>
    BY <1>1, <1>3, <2>1 DEF TransformSingle, NumericKinds, WordKinds
  <2>3. Transform(f, state, cells, i) = <<cells[i], state>>
    BY <1>1, <1>3 DEF Transform, NumericKinds, WordKinds
  <2> QED BY <2>2, <2>3
<1>4. CASE f.kind \in WordKinds
  BY <1>2, <1>4 DEF Transform, TransformSingle, NumericKinds, WordKinds
<1>5. CASE f.kind \notin NumericKinds \cup WordKinds
  BY <1>1, <1>2, <1>5 DEF Transform, TransformSingle
<1> QED BY <1>3, <1>4, <1>5

-----------------------------------------------------------------------------

(* The inductive invariant: what was answered is what the columns of the   *)
(* table give                                                              *)
TransformInv ==
    /\ table \in [Fields -> Contents]
    /\ layout \in Orders(Fields)
    /\ phase \in {"raw", "fitted", "unfit", "asked"}
    /\ phase \in {"fitted", "asked"} =>
          DOMAIN fits = Derived /\ \A f \in Derived : ~FitFails(f, SourceCells(f))
    /\ phase = "asked" =>
          \E i \in 1 .. NumRows, sent \in SUBSET Fields : \E keys \in Orders(sent) :
             /\ request = <<i, keys>>
             /\ answer = [f \in Derived |-> TransformSingle(f, fits[f], table[SourceColumn(f, keys)][i])]

(* At the start nothing is fitted *)
LEMMA TransformInitInv == TransformInit => TransformInv
  BY DEF TransformInit, TransformInv

(* fit() finds the column of every transformation *)
LEMMA FitInv == ASSUME TransformInv, Fit PROVE TransformInv'
<1>1. CASE \E f \in Derived : FitFails(f, SourceCells(f))
  BY <1>1 DEF Fit, TransformInv
<1>2. CASE ~\E f \in Derived : FitFails(f, SourceCells(f))
  <2>1. /\ phase' = "fitted" /\ DOMAIN fits' = Derived /\ UNCHANGED <<table, layout>>
        /\ \A f \in Derived : SourceCells(f)' = SourceCells(f)
    BY <1>2 DEF Fit, SourceCells
  <2> QED BY <1>2, <2>1 DEF TransformInv
<1> QED BY <1>1, <1>2

(* transform_single() is asked for a row of the table *)
LEMMA ServeRowInv == ASSUME TransformInv, ServeRow PROVE TransformInv'
<1>1. PICK i \in 1 .. NumRows, sent \in (SUBSET Fields) \ {{}} : \E keys \in Orders(sent) :
         /\ request' = <<i, keys>>
         /\ answer' = [f \in Derived |-> TransformSingle(f, fits[f], table[SourceColumn(f, keys)][i])]
  BY DEF ServeRow
<1>2. /\ UNCHANGED <<table, layout, fits>> /\ phase' = "asked" /\ phase \in {"fitted", "asked"}
      /\ \A f \in Derived : SourceCells(f)' = SourceCells(f)
  BY DEF ServeRow, SourceCells
<1> QED BY <1>1, <1>2 DEF TransformInv

(* Every step keeps the invariant *)
LEMMA TransformInvInductive == TransformInv /\ [TransformNext]_transformVars => TransformInv'
<1> SUFFICES ASSUME TransformInv, [TransformNext]_transformVars PROVE TransformInv'
  OBVIOUS
<1>1. CASE UNCHANGED transformVars
  BY <1>1 DEF transformVars, TransformInv, SourceCells
<1> QED BY <1>1, FitInv, ServeRowInv DEF TransformNext

(* Table, fitted states and answers keep their types. *)
THEOREM TransformTypeCorrect == TransformSpec => []TransformTypeOK
<1>1. TransformInv => TransformTypeOK
  BY DEF TransformInv, TransformTypeOK
<1> QED BY <1>1, TransformInitInv, TransformInvInductive, PTL DEF TransformSpec

(* A complete row of the training table, sent as a request with its keys   *)
(* in any order, is transformed into what the model was trained on for     *)
(* that row (features/transformer.py), if the name of the feature is the   *)
(* name of one column and this column has no gap and one date format.      *)
THEOREM RowsServed == TransformSpec => []RowsServedAsTrained
<1>1. TransformInv => RowsServedAsTrained
  <2> SUFFICES ASSUME TransformInv, phase = "asked", NEW f \in Derived,
                      Range(request[2]) = Fields, Unambiguous(f),
                      Missing \notin Range(SourceCells(f)), OneDateForm(SourceCells(f))
               PROVE  answer[f] = Trained(f, request[1])
    BY DEF RowsServedAsTrained
  <2>1. PICK i \in 1 .. NumRows, sent \in SUBSET Fields : \E keys \in Orders(sent) :
           /\ request = <<i, keys>>
           /\ answer = [g \in Derived |-> TransformSingle(g, fits[g], table[SourceColumn(g, keys)][i])]
    BY DEF TransformInv
  <2>2. PICK keys \in Orders(sent) :
           /\ request = <<i, keys>>
           /\ answer = [g \in Derived |-> TransformSingle(g, fits[g], table[SourceColumn(g, keys)][i])]
    BY <2>1
  <2>3. keys \in Orders(Fields) /\ layout \in Orders(Fields)
    <3>1. Range(keys) = sent /\ Range(keys) = Fields
      BY <2>2, OrdersAreOrders
    <3> QED BY <3>1 DEF TransformInv
  <2>4. PICK c \in Fields : SourceColumn(f, keys) = c /\ SourceColumn(f, layout) = c
    BY <2>3, OneColumnMeant
  <2>5. PICK cells \in Contents : cells = table[c] /\ cells = SourceCells(f)
    BY <2>4 DEF TransformInv, SourceCells
  <2>6. PICK state : state = fits[f]
    OBVIOUS
  <2>7. answer[f] = TransformSingle(f, state, cells[i])
    BY <2>2, <2>4, <2>5, <2>6
  <2>8. Trained(f, i) = Transform(f, state, cells, i)
    BY <2>5, <2>6 DEF Trained
  <2>9. ~FitFails(f, cells)
    BY <2>5 DEF TransformInv
  <2>10. TransformSingle(f, state, cells[i]) = Transform(f, state, cells, i)
    BY <2>5, <2>9, ServedAsTrained
  <2> QED BY <2>2, <2>7, <2>8, <2>10
<1> QED BY <1>1, TransformInitInv, TransformInvInductive, PTL DEF TransformSpec

-----------------------------------------------------------------------------
(* Drift reports *)

(* The analyses that have a time, and the places of one *)
Stamped == {b \in Analyses : stamp[b] > 0}

AnalysisSteps == {"idle", "flushed", "stored", "done", "failed"}

(* What is stored stays stored, and its time is not later than the number  *)
(* of the times that were given                                            *)
ReportsInv ==
    /\ analysis \in [Analyses -> AnalysisSteps]
    /\ stamp \in [Analyses -> Nat]
    /\ reports \subseteq Analyses /\ html \subseteq Analyses
    /\ reading \in {"idle", "database"}
    /\ IsFiniteSet(Stamped)
    /\ \A a \in Analyses : stamp[a] <= Cardinality(Stamped)
    /\ \A a \in Analyses : analysis[a] = "idle" => stamp[a] = 0
    /\ \A a \in Analyses : analysis[a] \in {"stored", "done"} => a \in reports
    /\ ReportServedIsStored

(* At the start there is no report *)
LEMMA ReportsInitInv == ReportsInit => ReportsInv
<1> SUFFICES ASSUME ReportsInit PROVE ReportsInv
  OBVIOUS
<1>1. Stamped = {}
  BY DEF ReportsInit, Stamped
<1> QED BY <1>1, FS_EmptySet
        DEF ReportsInit, ReportsInv, ReportServedIsStored, AnalysisSteps

(* The newest row is a row *)
LEMMA NewestIsStored == ASSUME ReportsInv, reports # {} PROVE NewestReport \in reports
<1>1. PICK n \in Nat : n = Cardinality(Stamped)
  BY FS_CardinalityType DEF ReportsInv
<1> DEFINE Ages == {n - stamp[a] : a \in reports}
<1>2. Ages \subseteq Nat /\ Ages # {}
  BY <1>1 DEF ReportsInv
<1>3. PICK age \in Ages : \A other \in Ages : age <= other
  BY <1>2, SmallestElement
<1>4. PICK a \in reports : age = n - stamp[a]
  OBVIOUS
<1>5. \A b \in reports : stamp[b] <= stamp[a]
  <2> TAKE b \in reports
  <2>1. n - stamp[a] <= n - stamp[b]
    BY <1>3, <1>4
  <2> QED BY <1>1, <2>1 DEF ReportsInv
<1> QED BY <1>5 DEF NewestReport

(* An analysis writes its HTML and takes the next time *)
LEMMA AnalyseInv == ASSUME ReportsInv, NEW a \in Analyses, Analyse(a) PROVE ReportsInv'
<1>1. analysis[a] = "idle" /\ stamp[a] = 0
  BY DEF ReportsInv, Analyse, AnalysisGoes
<1>2. /\ analysis' \in [Analyses -> AnalysisSteps]
      /\ analysis'[a] \in {"flushed", "failed"}
      /\ \A b \in Analyses \ {a} : analysis'[b] = analysis[b]
  BY DEF ReportsInv, Analyse, AnalysisGoes, AnalysisSteps
<1>3. PICK n \in Nat : n = Cardinality(Stamped) /\ n = Cardinality({b \in Analyses : stamp[b] > 0})
  BY FS_CardinalityType DEF ReportsInv, Stamped
<1>4. /\ stamp' \in [Analyses -> Nat] /\ IsFiniteSet(Stamped')
      /\ \A b \in Analyses : stamp'[b] <= Cardinality(Stamped')
      /\ \A b \in Analyses \ {a} : stamp'[b] = stamp[b]
  <2>1. CASE stamp' = stamp
    BY <2>1, <1>1 DEF ReportsInv, Stamped
  <2>2. CASE stamp' = [stamp EXCEPT ![a] = 1 + n]
    <3>1. Stamped' = Stamped \cup {a} /\ a \notin Stamped
      BY <2>2, <1>1, <1>3 DEF ReportsInv, Stamped
    <3>2. IsFiniteSet(Stamped') /\ Cardinality(Stamped') = n + 1
      BY <3>1, <1>3, FS_AddElement DEF ReportsInv
    <3> QED BY <2>2, <3>2, <1>3 DEF ReportsInv
  <2> QED BY <2>1, <2>2, <1>3 DEF Analyse
<1>5. html' \subseteq Analyses
  BY DEF Analyse, ReportsInv
<1>6. UNCHANGED <<reports, latest, reading, served>>
  BY DEF Analyse
<1> QED BY <1>2, <1>4, <1>5, <1>6 DEF ReportsInv, ReportServedIsStored

(* No other action gives a time *)
LEMMA TimesStay ==
  ASSUME ReportsInv, UNCHANGED stamp
  PROVE  IsFiniteSet(Stamped') /\ \A a \in Analyses : stamp'[a] <= Cardinality(Stamped')
  BY DEF ReportsInv, Stamped

(* It commits its row, or fails *)
LEMMA StoreReportInv ==
  ASSUME ReportsInv, NEW a \in Analyses, StoreReport(a)
  PROVE  ReportsInv'
<1>1. UNCHANGED <<stamp, html, latest, reading, served>>
  BY DEF StoreReport
<1>2. /\ analysis' \in [Analyses -> AnalysisSteps]
      /\ \A b \in Analyses \ {a} : analysis'[b] = analysis[b]
      /\ reports \subseteq reports' /\ reports' \subseteq Analyses
      /\ \/ analysis'[a] = "stored" /\ a \in reports'
         \/ analysis'[a] = "failed"
  BY DEF ReportsInv, StoreReport, AnalysisGoes, AnalysisSteps
<1> QED BY <1>1, <1>2, TimesStay DEF ReportsInv, ReportServedIsStored

(* It puts its report into Redis, or the SET fails *)
LEMMA CacheReportInv ==
  ASSUME ReportsInv, NEW a \in Analyses, CacheReport(a)
  PROVE  ReportsInv'
<1>1. UNCHANGED <<stamp, reports, html, reading, served>> /\ latest' \in {latest, a} /\ a \in reports
  BY DEF CacheReport, AnalysisGoes, ReportsInv
<1>2. /\ analysis' \in [Analyses -> AnalysisSteps] /\ analysis'[a] = "done"
      /\ \A b \in Analyses \ {a} : analysis'[b] = analysis[b]
  BY DEF ReportsInv, CacheReport, AnalysisGoes, AnalysisSteps
<1> QED BY <1>1, <1>2, TimesStay DEF ReportsInv, ReportServedIsStored

(* A reader of the latest report, and the TTL *)
LEMMA ReadingInv ==
  ASSUME ReportsInv, ReadCache \/ ReadDatabase \/ ReportExpires
  PROVE  ReportsInv'
<1>1. UNCHANGED <<analysis, stamp, reports, html>>
  BY DEF ReadCache, ReadDatabase, ReportExpires
<1>2. latest' \in {latest, NoReport} /\ reading' \in {"idle", "database"}
  BY DEF ReportsInv, ReadCache, ReadDatabase, ReportExpires
<1>3. served' \subseteq reports
  BY NewestIsStored
  DEF ReportsInv, ReportServedIsStored, ReadCache, ReadDatabase, ReportExpires
<1> QED BY <1>1, <1>2, <1>3, TimesStay DEF ReportsInv, ReportServedIsStored

(* A restart ends the analyses that were running *)
LEMMA ReportsRestartInv == ASSUME ReportsInv, ReportsRestart PROVE ReportsInv'
<1>1. UNCHANGED <<stamp, reports, latest, served>> /\ html' = {} /\ reading' = "idle"
  BY DEF ReportsRestart
<1>2. /\ analysis' \in [Analyses -> AnalysisSteps]
      /\ \A a \in Analyses : analysis'[a] \in {analysis[a], "failed"}
  BY DEF ReportsInv, ReportsRestart, AnalysisSteps
<1> QED BY <1>1, <1>2, TimesStay DEF ReportsInv, ReportServedIsStored

(* Every step keeps the invariant *)
LEMMA ReportsInvInductive == ReportsInv /\ [ReportsNext]_reportVars => ReportsInv'
<1> SUFFICES ASSUME ReportsInv, [ReportsNext]_reportVars PROVE ReportsInv'
  OBVIOUS
<1>1. CASE UNCHANGED reportVars
  BY <1>1, TimesStay DEF ReportsInv, ReportServedIsStored, reportVars
<1> QED BY <1>1, AnalyseInv, StoreReportInv, CacheReportInv, ReadingInv,
           ReportsRestartInv DEF ReportsNext

(* A time is at most the number of analyses *)
LEMMA TimesAreNumbered ==
  ASSUME ReportsInv, IsFiniteSet(Analyses) PROVE ReportsTypeOK
<1>1. Stamped \subseteq Analyses
  BY DEF Stamped
<1>2. /\ Cardinality(Stamped) \in Nat /\ Cardinality(Analyses) \in Nat
      /\ Cardinality(Stamped) <= Cardinality(Analyses)
  BY <1>1, FS_Subset, FS_CardinalityType DEF ReportsInv
<1>3. stamp \in [Analyses -> 0 .. Cardinality(Analyses)]
  BY <1>2 DEF ReportsInv
<1> QED BY <1>3 DEF ReportsInv, ReportServedIsStored, ReportsTypeOK, AnalysisSteps

(* Analyses, rows, disk and cache keep their types; that a time is at most *)
(* the number of analyses needs a finite set of them.                      *)
THEOREM ReportsTypeCorrect == IsFiniteSet(Analyses) => (ReportsSpec => []ReportsTypeOK)
<1> SUFFICES ASSUME IsFiniteSet(Analyses) PROVE ReportsSpec => []ReportsTypeOK
  OBVIOUS
<1> QED BY TimesAreNumbered, ReportsInitInv, ReportsInvInductive, PTL DEF ReportsSpec

(* A report that /monitoring/latest serves, from Redis or from the newest  *)
(* row, is in the history (monitoring/service.py), through failed and      *)
(* racing analyses, expiry and restarts.                                   *)
THEOREM ReportsServedAreStored == ReportsSpec => []ReportServedIsStored
<1>1. ReportsInv => ReportServedIsStored
  BY DEF ReportsInv
<1> QED BY <1>1, ReportsInitInv, ReportsInvInductive, PTL DEF ReportsSpec

-----------------------------------------------------------------------------
(* Scripts *)

(* FlattenSeq() of the community modules on one script, and on two *)
LEMMA FlattenOne ==
  ASSUME NEW a
  PROVE  FlattenSeq(<<a>>) = a
<1> DEFINE f == [i \in 1 .. 1 |-> a]
           R(h) == h = [i \in 1 .. Len(<<a>>) |->
                       IF i = 1 THEN <<a>>[i] ELSE h[i - 1] \o <<a>>[i]]
<1>1. R(f)
  OBVIOUS
<1>2. \A h : R(h) => h[1] = a
  OBVIOUS
<1>3. PICK c : c = (CHOOSE h : R(h))
  OBVIOUS
<1>4. R(c)
  <2> HIDE DEF R
  <2> QED BY <1>1, <1>3, Zenon
<1>5. FlattenSeq(<<a>>) = c[1]
  BY <1>3 DEF FlattenSeq
<1> QED BY <1>2, <1>4, <1>5

LEMMA FlattenTwo ==
  ASSUME NEW a, NEW b
  PROVE  FlattenSeq(<<a, b>>) = a \o b
<1> DEFINE f == [i \in 1 .. 2 |-> IF i = 1 THEN a ELSE a \o b]
           R(h) == h = [i \in 1 .. Len(<<a, b>>) |->
                       IF i = 1 THEN <<a, b>>[i] ELSE h[i - 1] \o <<a, b>>[i]]
<1>1. R(f)
  OBVIOUS
<1>2. ASSUME NEW h, R(h) PROVE h[2] = a \o b
  <2>1. h[1] = a
    BY <1>2
  <2>2. h[2] = h[1] \o b
    <3>1. PICK v : v = h[1] \o b
      OBVIOUS
    <3>2. h[2 - 1] \o <<a, b>>[2] = v
      BY <3>1
    <3>3. PICK w : \A i \in 1 .. 2 : w[i] = h[i - 1] \o <<a, b>>[i]
      <4>1. \A i \in 1 .. 2 : [j \in 1 .. 2 |-> h[j - 1] \o <<a, b>>[j]][i] = h[i - 1] \o <<a, b>>[i]
        OBVIOUS
      <4> QED BY <4>1
    <3>4. h = [i \in 1 .. 2 |-> IF i = 1 THEN <<a, b>>[i] ELSE w[i]]
      BY <1>2, <3>3
    <3>5. h[2] = w[2]
      BY <3>4
    <3> QED BY <3>1, <3>2, <3>3, <3>5
  <2> QED BY <2>1, <2>2
<1>3. PICK c : c = (CHOOSE h : R(h))
  OBVIOUS
<1>4. R(c)
  <2> HIDE DEF R
  <2> QED BY <1>1, <1>3, Zenon
<1>5. FlattenSeq(<<a, b>>) = c[2]
  BY <1>3 DEF FlattenSeq
<1> QED BY <1>2, <1>4, <1>5

(* The scripts from the last one on, and from the first one on *)
LEMMA SubSeqOfTwo ==
  ASSUME NEW a, NEW b
  PROVE  SubSeq(<<a, b>>, 2, 2) = <<b>> /\ SubSeq(<<a, b>>, 1, 2) = <<a, b>>
<1> DEFINE S == {a, b}
<1>1. PICK s : s = <<a, b>>
  OBVIOUS
<1>2. s \in Seq(S) /\ Len(s) = 2 /\ s[1] = a /\ s[2] = b
  BY <1>1
<1> HIDE DEF S
<1>3. PICK one : one = SubSeq(s, 2, 2)
  OBVIOUS
<1>4. one \in Seq(S) /\ Len(one) = 1 /\ one[1] = b
  BY <1>2, <1>3, SubSeqProperties
<1>5. one = <<b>>
  BY <1>4
<1>6. PICK two : two = SubSeq(s, 1, 2)
  OBVIOUS
<1>7. two \in Seq(S) /\ Len(two) = 2 /\ two[1] = a /\ two[2] = b
  <2>1. \A i \in 1 .. 2 : s[i] \in S
    BY <1>2
  <2>2. two \in Seq(S) /\ Len(two) = 2 /\ \A i \in 1 .. 2 : two[i] = s[1 + i - 1]
    <3>1. 2 - 1 + 1 = 2 /\ 1 <= 2
      OBVIOUS
    <3> QED BY <1>6, <2>1, <3>1, SubSeqProperties
  <2>3. two[1] = s[1] /\ two[2] = s[2]
    BY <2>2
  <2> QED BY <1>2, <2>2, <2>3
<1>8. two = <<a, b>>
  BY <1>7
<1> QED BY <1>1, <1>3, <1>5, <1>6, <1>8

(* Two scripts in a row *)
LEMMA ElementsOfConcat ==
  ASSUME NEW S, NEW a, NEW b, a \in Seq(S), b \in Seq(S),
         NEW m \in Nat, NEW n \in Nat, Len(a) = m, Len(b) = n, m >= 1
  PROVE  /\ DOMAIN (a \o b) = 1 .. (m + n)
         /\ (a \o b)[1] = a[1]
         /\ \A i \in 1 .. (m + n) : (a \o b)[i] \in S
<1>1. PICK c : c = a \o b
  OBVIOUS
<1>2. c \in Seq(S) /\ Len(c) = m + n
  BY <1>1, ConcatProperties
<1>3. DOMAIN c = 1 .. Len(c) /\ \A i \in 1 .. Len(c) : c[i] \in S
  BY <1>2
<1>4. c[1] = a[1]
  <2>1. 1 \in 1 .. Len(a) + Len(b) /\ 1 <= Len(a)
    OBVIOUS
  <2>2. \A i \in 1 .. Len(a) + Len(b) : c[i] = IF i <= Len(a) THEN a[i] ELSE b[i - Len(a)]
    BY <1>1, ConcatProperties
  <2> QED BY <2>1, <2>2
<1> QED BY <1>1, <1>2, <1>3, <1>4

(* Schemas, and the states of a command *)
Schemas == [tables : SUBSET (Mapped \cup Former), extras : SUBSET Extras]
Executions == [schema : Schemas, ok : BOOLEAN]

(* A statement of the scripts *)
Statement(st) ==
    /\ st.op = "create" => st.on \in Mapped \cup Former
    /\ st.op = "add" => st.on \in Extras

(* One statement of a command *)
Performs(run, st) ==
    IF run.ok /\ Possible(run.schema, st)
    THEN [run EXCEPT !.schema = Effect(run.schema, st)] ELSE [run EXCEPT !.ok = FALSE]

(* A statement leaves a schema, possible or not *)
LEMMA EffectType ==
  ASSUME NEW s \in Schemas, NEW st, Statement(st)
  PROVE  Effect(s, st) \in Schemas
<1>1. CASE st.op = "drop"
  BY <1>1 DEF Effect, Schemas
<1>2. CASE st.op = "create"
  BY <1>2 DEF Effect, Schemas, Statement
<1>3. CASE st.op = "add"
  BY <1>3 DEF Effect, Schemas, Statement
<1>4. CASE st.op \notin {"drop", "create", "add"}
  BY <1>4 DEF Effect, Schemas
<1> QED BY <1>1, <1>2, <1>3, <1>4

(* and a command that goes on, or has failed *)
LEMMA GoesType ==
  ASSUME NEW run \in Executions, NEW st, Statement(st)
  PROVE  Performs(run, st) \in Executions
<1>1. run.schema \in Schemas /\ run.ok \in BOOLEAN
  BY DEF Executions
<1>2. PICK s : s = Effect(run.schema, st)
  OBVIOUS
<1>3. s \in Schemas
  BY <1>1, <1>2, EffectType
<1>4. [run EXCEPT !.schema = s] \in Executions /\ [run EXCEPT !.ok = FALSE] \in Executions
  BY <1>3 DEF Executions
<1> QED BY <1>2, <1>4 DEF Performs

(* FoldLeft() takes the last index of what is left *)
LEMMA MaxOfInterval ==
  ASSUME NEW n \in Nat, n > 0
  PROVE  Max(1 .. n) = n /\ (1 .. n) \ {n} = 1 .. (n - 1)
  BY DEF Max

(* A script is executed from its first statement to its last *)
LEMMA ExecuteRuns ==
  ASSUME NEW s \in Schemas, NEW script, NEW n \in Nat, DOMAIN script = 1 .. n,
         \A i \in 1 .. n : Statement(script[i])
  PROVE  \E r : /\ r[0] = [schema |-> s, ok |-> TRUE]
                /\ \A i \in 1 .. n : r[i] = Performs(r[i - 1], script[i])
                /\ Execute(s, script) = r[n]
<1> DEFINE base == [schema |-> s, ok |-> TRUE]
           Iterates(g) == g = [t \in SUBSET (1 .. n) |->
                IF t = {} THEN base ELSE Performs(g[t \ {Max(t)}], script[Max(t)])]
<1>1. \E g : Iterates(g)
  <2> DEFINE pick == [t \in SUBSET (1 .. n) |-> Max(t)]
             op == [x \in (1 .. n) \X Executions |-> Performs(x[2], script[x[1]])]
  <2>1. IsFiniteSet(1 .. n)
    BY FS_Interval
  <2>2. base \in Executions
    BY DEF Executions
  <2>3. \A t \in SUBSET (1 .. n) : t # {} => Max(t) \in t
    <3>1. SUFFICES ASSUME NEW t \in SUBSET (1 .. n), t # {} PROVE \E x \in t : \A y \in t : x >= y
      BY DEF Max
    <3> DEFINE above == {m \in Nat : \A x \in t : x <= m}
    <3>2. above \subseteq Nat /\ n \in above
      OBVIOUS
    <3>3. PICK m \in above : \A k \in above : m <= k
      <4> HIDE DEF above
      <4> QED BY <3>2, SmallestElement
    <3>4. PICK x \in t : x \in 1 .. n
      BY <3>1
    <3>5. m \in Nat /\ m > 0 /\ \A y \in t : y \in Nat /\ y <= m
      BY <3>3, <3>4
    <3>6. m \in t
      <4>1. SUFFICES ASSUME m \notin t PROVE m - 1 \in above
        BY <3>3, <3>5
      <4>2. \A y \in t : y <= m - 1
        BY <3>5, <4>1
      <4> QED BY <3>5, <4>2
    <3> QED BY <3>5, <3>6
  <2>4. Picks(pick, 1 .. n)
    BY <2>3 DEF Picks
  <2>5. \A x \in 1 .. n, v \in Executions : op[<<x, v>>] = Performs(v, script[x])
                                            /\ op[<<x, v>>] \in Executions
    BY GoesType
  <2>6. PICK g \in [SUBSET (1 .. n) -> Executions] : IsFold(g, 1 .. n, base, pick, op)
    <3> HIDE DEF pick, op, base
    <3> QED BY <2>1, <2>2, <2>4, <2>5, FoldExists
  <2>7. ASSUME NEW t \in SUBSET (1 .. n)
        PROVE  g[t] = IF t = {} THEN base ELSE Performs(g[t \ {Max(t)}], script[Max(t)])
    <3>1. CASE t = {}
      BY <2>6, <3>1 DEF IsFold
    <3>2. CASE t # {}
      <4>1. g[t] = op[<<Max(t), g[t \ {Max(t)}]>>]
        <5>1. g[t] = op[<<pick[t], g[t \ {pick[t]}]>>]
          <6> HIDE DEF pick, op, base
          <6> QED BY <2>6, <3>2 DEF IsFold
        <5>2. pick[t] = Max(t)
          OBVIOUS
        <5> HIDE DEF pick, op
        <5> QED BY <5>1, <5>2
      <4>2. Max(t) \in 1 .. n /\ g[t \ {Max(t)}] \in Executions
        BY <2>3, <2>6, <3>2
      <4> HIDE DEF op
      <4> QED BY <2>5, <3>2, <4>1, <4>2
    <3> QED BY <3>1, <3>2
  <2> HIDE DEF base
  <2> QED BY <2>6, <2>7
<1> DEFINE g == CHOOSE f : Iterates(f)
<1>2. Iterates(g)
  <2> HIDE DEF Iterates
  <2> QED BY <1>1, Zenon
<1>3. Execute(s, script) = g[1 .. n]
  BY DEF Execute, FoldLeft, MapThenFoldSet, Performs
<1> HIDE DEF g
<1> DEFINE r == [i \in 0 .. n |-> g[1 .. i]]
<1>4. r[0] = base
  BY <1>2
<1>5. ASSUME NEW i \in 1 .. n PROVE r[i] = Performs(r[i - 1], script[i])
  <2>1. PICK t \in SUBSET (1 .. n) : t = 1 .. i
    OBVIOUS
  <2>2. t # {} /\ Max(t) = i /\ t \ {Max(t)} = 1 .. (i - 1)
    <3>1. i \in Nat /\ i > 0 /\ 1 .. i # {}
      OBVIOUS
    <3>2. Max(1 .. i) = i /\ (1 .. i) \ {i} = 1 .. (i - 1)
      BY <3>1, MaxOfInterval
    <3> QED BY <2>1, <3>1, <3>2
  <2>3. g[t] = Performs(g[t \ {Max(t)}], script[Max(t)])
    BY <1>2, <2>2
  <2>4. i \in 0 .. n /\ i - 1 \in 0 .. n
    OBVIOUS
  <2>5. r[i] = g[t] /\ r[i - 1] = g[t \ {Max(t)}]
    BY <2>1, <2>2, <2>4
  <2> QED BY <2>2, <2>3, <2>5
<1>6. r[n] = g[1 .. n]
  OBVIOUS
<1> HIDE DEF r
<1> QED BY <1>3, <1>4, <1>5, <1>6

-----------------------------------------------------------------------------
(* Migrations *)

(* After a statement that is not possible a script has failed, whatever    *)
(* follows                                                                 *)
LEMMA ScriptFails ==
  ASSUME NEW s \in Schemas, NEW script, NEW n \in Nat, DOMAIN script = 1 .. n,
         \A i \in 1 .. n : Statement(script[i]),
         \/ n >= 1 /\ ~Possible(s, script[1])
         \/ /\ n >= 2 /\ script[1].op = "add"
            /\ \A t \in Schemas : t.tables = s.tables => ~Possible(t, script[2])
  PROVE  Execute(s, script).ok = FALSE
<1>1. PICK r : /\ r[0] = [schema |-> s, ok |-> TRUE]
               /\ \A i \in 1 .. n : r[i] = Performs(r[i - 1], script[i])
               /\ Execute(s, script) = r[n]
  BY ExecuteRuns
<1>2. \A i \in 0 .. n : r[i] \in Executions
  <2> DEFINE bad == {i \in 0 .. n : r[i] \notin Executions}
  <2>1. SUFFICES ASSUME bad # {} PROVE FALSE
    OBVIOUS
  <2>2. PICK i \in bad : \A j \in bad : i <= j
    <3>1. bad \subseteq Nat
      OBVIOUS
    <3> HIDE DEF bad
    <3> QED BY <2>1, <3>1, SmallestElement
  <2>3. CASE i = 0
    <3>1. r[0] \in Executions
      BY <1>1 DEF Executions
    <3> QED BY <2>2, <2>3, <3>1
  <2>4. CASE i # 0
    <3>1. i \in 1 .. n /\ i - 1 \in 0 .. n /\ i - 1 \notin bad
      BY <2>2, <2>4
    <3>2. r[i - 1] \in Executions /\ r[i] = Performs(r[i - 1], script[i]) /\ Statement(script[i])
      BY <1>1, <3>1
    <3>3. r[i] \in Executions
      BY <3>2, GoesType
    <3> QED BY <3>3
  <2> QED BY <2>3, <2>4
<1>3. \E k \in 1 .. n : r[k].ok = FALSE
  <2>1. CASE n >= 1 /\ ~Possible(s, script[1])
    <3>1. r[1] = Performs(r[0], script[1])
      BY <1>1, <2>1
    <3>2. r[1] = [r[0] EXCEPT !.ok = FALSE]
      BY <1>1, <2>1, <3>1 DEF Performs
    <3>3. r[1].ok = FALSE
      BY <1>1, <3>2
    <3> QED BY <2>1, <3>3
  <2>2. CASE /\ n >= 2 /\ script[1].op = "add"
             /\ \A t \in Schemas : t.tables = s.tables => ~Possible(t, script[2])
    <3>1. r[1] = Performs(r[0], script[1]) /\ r[2] = Performs(r[1], script[2])
      <4>1. 1 \in 1 .. n /\ 2 \in 1 .. n /\ 2 - 1 = 1 /\ 1 - 1 = 0
        BY <2>2
      <4>2. r[1] = Performs(r[1 - 1], script[1]) /\ r[2] = Performs(r[2 - 1], script[2])
        BY <1>1, <4>1
      <4> QED BY <4>1, <4>2
    <3>2. r[1] \in Executions /\ r[1].schema \in Schemas
      <4>1. r[1] \in Executions
        BY <1>2, <2>2
      <4> QED BY <4>1 DEF Executions
    <3>3. r[1].schema.tables = s.tables
      <4>1. r[0].schema = s /\ r[0].ok = TRUE
        BY <1>1
      <4>2. Effect(s, script[1]) = [s EXCEPT !.extras = @ \cup {script[1].on}]
        BY <2>2 DEF Effect
      <4>3. Effect(s, script[1]).tables = s.tables
        BY <4>2 DEF Schemas
      <4>4. CASE Possible(s, script[1])
        <5>1. r[1] = [r[0] EXCEPT !.schema = Effect(s, script[1])]
          BY <3>1, <4>1, <4>4 DEF Performs
        <5>2. r[1].schema = Effect(s, script[1])
          BY <1>1, <5>1
        <5> QED BY <4>3, <5>2
      <4>5. CASE ~Possible(s, script[1])
        <5>1. r[1] = [r[0] EXCEPT !.ok = FALSE]
          BY <3>1, <4>1, <4>5 DEF Performs
        <5> QED BY <1>1, <5>1
      <4> QED BY <4>4, <4>5
    <3>4. ~Possible(r[1].schema, script[2])
      BY <2>2, <3>2, <3>3
    <3>5. r[2] = [r[1] EXCEPT !.ok = FALSE]
      BY <3>1, <3>4 DEF Performs
    <3>6. r[2].ok = FALSE
      BY <3>2, <3>5 DEF Executions
    <3> QED BY <2>2, <3>6
  <2> QED BY <2>1, <2>2
<1>4. PICK k \in 1 .. n : r[k].ok = FALSE
  BY <1>3
<1>5. \A i \in k .. n : r[i].ok = FALSE
  <2> DEFINE good == {i \in k .. n : r[i].ok # FALSE}
  <2>1. SUFFICES ASSUME good # {} PROVE FALSE
    OBVIOUS
  <2>2. PICK i \in good : \A j \in good : i <= j
    <3>1. good \subseteq Nat
      <4>1. \A i \in k .. n : i \in Nat
        BY <1>4
      <4> QED BY <4>1
    <3> HIDE DEF good
    <3> QED BY <2>1, <3>1, SmallestElement
  <2>p. i \in k .. n /\ i # k
    BY <1>4, <2>2
  <2>q. i \in 1 .. n /\ i - 1 \in k .. n /\ i - 1 \in 0 .. n /\ i - 1 < i
    BY <1>4, <2>p
  <2>r. ASSUME i - 1 \in good PROVE FALSE
    <3>1. i <= i - 1
      <4> HIDE DEF good
      <4> QED BY <2>2, <2>r
    <3> QED BY <2>q, <3>1, <1>4, <2>p
  <2>3. i \in 1 .. n /\ i - 1 \in k .. n /\ i - 1 \in 0 .. n /\ i - 1 \notin good
    BY <2>q, <2>r
  <2>4. r[i - 1].ok = FALSE /\ r[i - 1] \in Executions /\ r[i] = Performs(r[i - 1], script[i])
    BY <1>1, <1>2, <2>3
  <2>5. r[i] = [r[i - 1] EXCEPT !.ok = FALSE]
    BY <2>4 DEF Performs
  <2>6. r[i].ok = FALSE
    BY <2>4, <2>5 DEF Executions
  <2> QED BY <2>2, <2>6
<1> QED BY <1>1, <1>5

(* The scripts, statement by statement *)
LEMMA ScriptStatements ==
  /\ \A i \in 1 .. 7 : Statement(InitialUp[i])
  /\ \A i \in 1 .. 10 : Statement(LineageUp[i])
  /\ \A i \in 1 .. 8 : Statement(InitialDown[i])
  BY DEF Statement, InitialUp, LineageUp, InitialDown, Drop, Create, Add, Undo,
         DropUnnamed, Mapped, Quality, Former, Extras

LEMMA ScriptLengths ==
  /\ DOMAIN InitialUp = 1 .. 7 /\ DOMAIN LineageUp = 1 .. 10
  /\ DOMAIN InitialDown = 1 .. 8
  BY DEF InitialUp, LineageUp, InitialDown

LEMMA UpgradeScripts ==
  /\ Newest = 2
  /\ FlattenSeq(SubSeq(Ups, 2, Newest)) = LineageUp
  /\ FlattenSeq(SubSeq(Ups, 1, Newest)) = InitialUp \o LineageUp
<1>1. Newest = 2
  BY DEF Ups, Newest
<1>2. PICK a, b : a = InitialUp /\ b = LineageUp
  OBVIOUS
<1>3. SubSeq(<<a, b>>, 2, 2) = <<b>> /\ SubSeq(<<a, b>>, 1, 2) = <<a, b>>
  BY SubSeqOfTwo
<1>4. FlattenSeq(<<b>>) = b /\ FlattenSeq(<<a, b>>) = a \o b
  BY FlattenOne, FlattenTwo
<1> QED BY <1>1, <1>2, <1>3, <1>4 DEF Ups

(* An upgrade from the start begins with review_queues *)
LEMMA BothScripts ==
  /\ DOMAIN (InitialUp \o LineageUp) = 1 .. 17
  /\ (InitialUp \o LineageUp)[1] = Drop("review_queues")
  /\ \A i \in 1 .. 17 : Statement((InitialUp \o LineageUp)[i])
<1>1. PICK a, b : a = InitialUp /\ b = LineageUp
  OBVIOUS
<1> DEFINE S == {x \in {a[i] : i \in 1 .. 7} \cup {b[i] : i \in 1 .. 10} : Statement(x)}
<1>2. Len(a) = 7 /\ Len(b) = 10
  BY <1>1 DEF InitialUp, LineageUp
<1>f. a[1] = Drop("review_queues")
  BY <1>1 DEF InitialUp
<1>3. a \in Seq(S) /\ b \in Seq(S)
  <2>1. (\A i \in 1 .. 7 : a[i] \in S) /\ (\A i \in 1 .. 10 : b[i] \in S)
    BY <1>1, ScriptStatements
  <2>2. a = [i \in 1 .. 7 |-> a[i]] /\ b = [i \in 1 .. 10 |-> b[i]]
    BY <1>1 DEF InitialUp, LineageUp
  <2> HIDE DEF S
  <2> QED BY <2>1, <2>2
<1>4. \A x \in S : Statement(x)
  OBVIOUS
<1> HIDE DEF S
<1>5. DOMAIN (a \o b) = 1 .. 17 /\ (a \o b)[1] = a[1] /\ \A i \in 1 .. 17 : (a \o b)[i] \in S
  <2>1. PICK m \in Nat, n \in Nat : m = 7 /\ n = 10
    OBVIOUS
  <2>2. Len(a) = m /\ Len(b) = n /\ m >= 1 /\ m + n = 17
    BY <1>2, <2>1
  <2>3. /\ DOMAIN (a \o b) = 1 .. (m + n) /\ (a \o b)[1] = a[1]
        /\ \A i \in 1 .. (m + n) : (a \o b)[i] \in S
    BY <1>3, <2>2, ElementsOfConcat
  <2> QED BY <2>2, <2>3
<1> QED BY <1>1, <1>f, <1>4, <1>5

(* What makes the first statements of the scripts impossible *)
Refused ==
    /\ "review_queues" \in schema.tables => "review_queue_items" \in schema.tables
    /\ revision = 1 => Mapped \subseteq schema.tables

(* Every Alembic command fails *)
LEMMA UpgradeFails ==
  ASSUME schema \in Schemas, revision \in {0, 1}, Refused
  PROVE  Execute(schema, FlattenSeq(SubSeq(Ups, revision + 1, Newest))).ok = FALSE
<1>0. PICK s \in Schemas : s = schema
  OBVIOUS
<1>1. CASE revision = 0
  <2>1. PICK script : script = InitialUp \o LineageUp
    OBVIOUS
  <2>2. DOMAIN script = 1 .. 17 /\ \A i \in 1 .. 17 : Statement(script[i])
    BY <2>1, BothScripts
  <2>3. ~Possible(s, script[1])
    <3>1. script[1] = Drop("review_queues")
      BY <2>1, BothScripts
    <3>2. "review_queues" \in s.tables => "review_queue_items" \in s.tables
      BY <1>0 DEF Refused
    <3>3. <<"review_queue_items", "review_queues">> \in References
      BY DEF References
    <3>4. ~Droppable(s, "review_queues")
      BY <3>2, <3>3 DEF Droppable
    <3> QED BY <3>1, <3>4 DEF Possible, Drop
  <2>4. Execute(s, script).ok = FALSE
    <3>1. PICK n \in Nat : n = 17
      OBVIOUS
    <3>2. DOMAIN script = 1 .. n /\ (\A i \in 1 .. n : Statement(script[i])) /\ n >= 2 /\ n >= 1
      BY <2>2, <3>1
    <3> QED BY <2>2, <2>3, <3>2, ScriptFails
  <2>5. FlattenSeq(SubSeq(Ups, revision + 1, Newest)) = script
    BY <1>1, <2>1, UpgradeScripts
  <2> QED BY <1>0, <2>4, <2>5
<1>2. CASE revision = 1
  <2>1. PICK script : script = LineageUp
    OBVIOUS
  <2>2. DOMAIN script = 1 .. 10 /\ \A i \in 1 .. 10 : Statement(script[i])
    BY <2>1, ScriptLengths, ScriptStatements
  <2>3. script[1] = Add("columns") /\ script[2] = Drop("expectation_suites")
    BY <2>1 DEF LineageUp
  <2>4. ASSUME NEW t \in Schemas, t.tables = s.tables PROVE ~Possible(t, script[2])
    <3>1. "validation_runs" \in t.tables
      BY <1>0, <1>2, <2>4 DEF Refused, Mapped, Quality
    <3>2. <<"validation_runs", "expectation_suites">> \in References
      BY DEF References
    <3>3. ~Droppable(t, "expectation_suites")
      BY <3>1, <3>2 DEF Droppable
    <3> QED BY <2>3, <3>3 DEF Possible, Drop
  <2>5. script[1].op = "add"
    BY <2>3 DEF Add
  <2>6. Execute(s, script).ok = FALSE
    <3>1. PICK n \in Nat : n = 10
      OBVIOUS
    <3>2. DOMAIN script = 1 .. n /\ (\A i \in 1 .. n : Statement(script[i])) /\ n >= 2 /\ n >= 1
      BY <2>2, <3>1
    <3> QED BY <2>2, <2>4, <2>5, <3>2, ScriptFails
  <2>7. FlattenSeq(SubSeq(Ups, revision + 1, Newest)) = script
    BY <1>2, <2>1, UpgradeScripts
  <2> QED BY <1>0, <2>6, <2>7
<1> QED BY <1>1, <1>2

(* Every downgrade begins with the constraint without a name *)
LEMMA DowngradeFails ==
  ASSUME schema \in Schemas, revision = 1
  PROVE  Execute(schema, Downs[revision]).ok = FALSE
<1>1. PICK s \in Schemas : s = schema
  OBVIOUS
<1>2. PICK script : script = InitialDown
  OBVIOUS
<1>3. DOMAIN script = 1 .. 8 /\ \A i \in 1 .. 8 : Statement(script[i])
  BY <1>2, ScriptLengths, ScriptStatements
<1>4. ~Possible(s, script[1])
  <2>1. script[1] = DropUnnamed
    BY <1>2 DEF InitialDown
  <2> QED BY <2>1 DEF Possible, DropUnnamed
<1>5. Execute(s, script).ok = FALSE
  <2>1. PICK n \in Nat : n = 8
    OBVIOUS
  <2>2. DOMAIN script = 1 .. n /\ (\A i \in 1 .. n : Statement(script[i])) /\ n >= 1
    BY <1>3, <2>1
  <2> QED BY <1>4, <2>2, ScriptFails
<1>6. Downs[revision] = script
  BY <1>2 DEF Downs
<1> QED BY <1>1, <1>5, <1>6

(* The inductive invariant. TablesKept alone is none: what keeps the       *)
(* scripts from dropping its tables are the references to them, from       *)
(* tables that are there                                                   *)
SchemaInv == SchemaTypeOK /\ TablesKept /\ Refused /\ revision \in {0, 1}

(* An empty database, or one of a former release, satisfies it *)
LEMMA SchemaInitial == SchemaInit => SchemaInv
<1> SUFFICES ASSUME SchemaInit PROVE SchemaInv
  OBVIOUS
<1>1. started = FALSE /\ outcome \in [command : {"none", "upgrade", "downgrade"}, ok : BOOLEAN]
  BY DEF SchemaInit
<1>2. ASSUME NEW w \in SUBSET (Mapped \cup Former), schema = [tables |-> w, extras |-> {}],
             "review_queues" \in w => "review_queue_items" \in w,
             revision \in {0, 1}, revision = 1 => Mapped \subseteq w
      PROVE  SchemaInv
  <2>1. schema.tables = w
    BY <1>2
  <2>2. schema \in [tables : SUBSET (Mapped \cup Former), extras : SUBSET Extras]
    BY <1>2
  <2>3. revision \in 0 .. Newest
    <3>1. PICK newest : newest = Newest /\ newest = 2
      BY UpgradeScripts
    <3>2. revision \in 0 .. newest
      BY <1>2, <3>1
    <3> QED BY <3>1, <3>2
  <2>4. Refused
    BY <1>2, <2>1 DEF Refused
  <2> QED BY <1>1, <1>2, <2>2, <2>3, <2>4 DEF SchemaInv, SchemaTypeOK, TablesKept
<1>3. CASE schema = [tables |-> {}, extras |-> {}] /\ revision = 0
  BY <1>2, <1>3
<1>4. CASE schema = [tables |-> Mapped \cup Former, extras |-> {}] /\ revision \in {0, 1}
  <2>1. PICK w \in SUBSET (Mapped \cup Former) : w = Mapped \cup Former
    OBVIOUS
  <2>2. "review_queue_items" \in w /\ Mapped \subseteq w
    BY <2>1 DEF Former
  <2> QED BY <1>2, <1>4, <2>1, <2>2
<1> QED BY <1>3, <1>4 DEF SchemaInit

(* A command fails and leaves the schema; a start adds tables only *)
LEMMA SchemaInductive == SchemaInv /\ [SchemaNext]_schemaVars => SchemaInv'
<1> SUFFICES ASSUME SchemaInv, [SchemaNext]_schemaVars PROVE SchemaInv'
  OBVIOUS
<1>0. schema \in Schemas /\ revision \in {0, 1} /\ Refused /\ started \in BOOLEAN
  BY DEF SchemaInv, SchemaTypeOK, Schemas
<1>1. ASSUME schema' = schema, revision' = revision, started' = started,
             outcome' \in [command : {"none", "upgrade", "downgrade"}, ok : BOOLEAN]
      PROVE  SchemaInv'
  BY <1>1 DEF SchemaInv, SchemaTypeOK, TablesKept, Refused
<1>2. CASE Upgrade
  <2>1. Execute(schema, FlattenSeq(SubSeq(Ups, revision + 1, Newest))).ok = FALSE
    BY <1>0, UpgradeFails
  <2>2. /\ schema' = schema /\ revision' = revision /\ started' = started
        /\ outcome' = [command |-> "upgrade", ok |-> FALSE]
    BY <1>2, <2>1 DEF Upgrade, Command
  <2> QED BY <1>1, <2>2
<1>3. CASE Downgrade
  <2>1. revision # 0 => Execute(schema, Downs[revision]).ok = FALSE
    BY <1>0, DowngradeFails
  <2>2. /\ schema' = schema /\ revision' = revision /\ started' = started
        /\ outcome' = [command |-> "downgrade", ok |-> FALSE]
    BY <1>3, <2>1 DEF Downgrade, Command
  <2> QED BY <1>1, <2>2
<1>4. CASE AppStart
  <2>1. PICK e : e = IF "experiments" \in schema.tables THEN schema.extras ELSE Extras
    OBVIOUS
  <2>2. schema' = [tables |-> schema.tables \cup Mapped, extras |-> e]
        /\ revision' = revision /\ started' = TRUE /\ outcome' = outcome
    BY <1>4, <2>1 DEF AppStart
  <2>3. schema'.tables = schema.tables \cup Mapped
    BY <2>2
  <2>4. schema.tables \in SUBSET (Mapped \cup Former) /\ e \in SUBSET Extras
    BY <1>0, <2>1 DEF Schemas
  <2>5. SchemaTypeOK'
    <3>1. schema' \in [tables : SUBSET (Mapped \cup Former), extras : SUBSET Extras]
      BY <2>2, <2>4
    <3> QED BY <2>2, <3>1 DEF SchemaInv, SchemaTypeOK
  <2>6. Refused'
    <3>1. "review_queues" \notin Mapped
      BY DEF Mapped, Quality
    <3> QED BY <1>0, <2>2, <2>3, <3>1 DEF Refused
  <2>7. TablesKept' /\ revision' \in {0, 1}
    BY <1>0, <2>2, <2>3 DEF TablesKept
  <2> QED BY <2>5, <2>6, <2>7 DEF SchemaInv
<1>5. CASE UNCHANGED schemaVars
  <2>1. schema' = schema /\ revision' = revision /\ started' = started /\ outcome' = outcome
    BY <1>5 DEF schemaVars
  <2> QED BY <1>1, <2>1 DEF SchemaInv, SchemaTypeOK
<1> QED BY <1>2, <1>3, <1>4, <1>5 DEF SchemaNext

(* Schema, revision and outcome keep their types. *)
THEOREM SchemaTypeCorrect == SchemaSpec => []SchemaTypeOK
<1>1. SchemaInv => SchemaTypeOK
  BY DEF SchemaInv
<1> QED BY <1>1, SchemaInitial, SchemaInductive, PTL DEF SchemaSpec

(* Once the service has started on a database, no sequence of Alembic      *)
(* commands and restarts takes one of the tables it queries away           *)
(* (alembic/versions): every command fails at its first or second          *)
(* statement and is undone as a whole.                                     *)
THEOREM TablesStay == SchemaSpec => []TablesKept
<1>1. SchemaInv => TablesKept
  BY DEF SchemaInv
<1> QED BY <1>1, SchemaInitial, SchemaInductive, PTL DEF SchemaSpec

=============================================================================
