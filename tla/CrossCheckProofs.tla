--------------------------- MODULE CrossCheckProofs ---------------------------
(***************************************************************************)
(* Theorems about the cross-check of a submission: the fetches of Weather  *)
(* and the pipeline of Validation, over the operators of Ensemble they     *)
(* share.                                                                  *)
(***************************************************************************)
EXTENDS Weather, Validation, FiniteSetTheorems, WellFoundedInduction, TLAPS

-----------------------------------------------------------------------------
(***************************************************************************)
(* Least elements.                                                         *)
(***************************************************************************)
(* A set of naturals that is not empty has a least one.                    *)
LEMMA LeastExists ==
    ASSUME NEW S, S \subseteq Nat, S # {}
    PROVE  \E x \in S : \A y \in S : x <= y
<1> DEFINE R == OpToRel(<, Nat)
<1>1. IsWellFoundedOn(R, Nat)
  BY NatLessThanWellFounded
<1>2. PICK x \in S : \A y \in S : <<y, x>> \notin R
  <2> HIDE DEF R
  <2> QED
    BY <1>1, WFMin
<1>3. \A y \in S : ~(y < x)
  BY <1>2 DEF OpToRel
<1> QED
  BY <1>3

(* Counting up from 0.                                                     *)
LEMMA Climb ==
    ASSUME NEW n \in Nat, NEW S, 0 \in S, \A i \in 1..n : i - 1 \in S => i \in S
    PROVE  0..n \subseteq S
<1> DEFINE Bad == (0..n) \ S
<1> SUFFICES ASSUME Bad # {} PROVE FALSE
  OBVIOUS
<1>1. PICK m \in Bad : \A k \in Bad : m <= k
  <2>1. Bad \subseteq Nat
    OBVIOUS
  <2> HIDE DEF Bad
  <2> QED
    BY <2>1, LeastExists
<1>2. m \in 1..n /\ m - 1 \in 0..n /\ ~(m <= m - 1)
  OBVIOUS
<1>3. m - 1 \in S
  BY <1>1, <1>2
<1> QED
  BY <1>2, <1>3

-----------------------------------------------------------------------------
(***************************************************************************)
(* The scan of a series.  Its loop carries the best entry so far and looks *)
(* at each entry once; that what it ends with is the nearest of all is an  *)
(* induction over the prefixes.                                            *)
(***************************************************************************)
(* A run of the loop: the best entry after each of the first n.            *)
IsScan(series, ts, n, best) ==
    /\ best \in [0..n -> 0..Len(series)]
    /\ best[0] = 0
    /\ \A i \in 1..n :
          best[i] = IF Nearer(series, ts, i, best[i - 1]) THEN i ELSE best[i - 1]

(* Every prefix has one: what the recursive function rests on.             *)
LEMMA ScanExists ==
    ASSUME NEW series, NEW ts, Len(series) \in Nat
    PROVE  \E best : IsScan(series, ts, Len(series), best)
<1> DEFINE n == Len(series)
           Done == {m \in 0..n : \E best : IsScan(series, ts, m, best)}
<1>1. 0 \in Done
  <2> DEFINE best == [i \in 0..0 |-> 0]
  <2>1. IsScan(series, ts, 0, best)
    BY DEF IsScan
  <2> HIDE DEF best
  <2> QED
    BY <2>1
<1>2. ASSUME NEW m \in 1..n, m - 1 \in Done
      PROVE  m \in Done
  <2>1. PICK old : IsScan(series, ts, m - 1, old)
    BY <1>2
  <2> DEFINE top == IF Nearer(series, ts, m, old[m - 1]) THEN m ELSE old[m - 1]
             best == [i \in 0..m |-> IF i = m THEN top ELSE old[i]]
  <2>2. /\ m \in Nat /\ m # 0 /\ m \in 0..n /\ m - 1 \in 0..(m - 1)
        /\ \A i \in 1..m : i - 1 \in 0..m /\ i - 1 # m /\ (i # m => i \in 1..(m - 1))
    OBVIOUS
  <2>3. top \in 0..n
    BY <2>1, <2>2 DEF IsScan
  <2>4. best \in [0..m -> 0..n] /\ best[0] = 0
    <3> HIDE DEF top
    <3>1. \A i \in 0..m : i # m => i \in 0..(m - 1)
      BY <2>2
    <3> QED
      BY <2>1, <2>2, <2>3, <3>1 DEF IsScan
  <2>5. ASSUME NEW i \in 1..m
        PROVE  best[i] = IF Nearer(series, ts, i, best[i - 1]) THEN i ELSE best[i - 1]
    <3>1. best[i - 1] = old[i - 1]
      BY <2>2
    <3>2. CASE i = m
      BY <3>1, <3>2
    <3>3. CASE i # m
      <4>1. best[i] = old[i] /\ i \in 1..(m - 1)
        BY <2>2, <3>3
      <4> HIDE DEF best
      <4> QED
        BY <2>1, <3>1, <4>1 DEF IsScan
    <3> QED
      BY <3>2, <3>3
  <2>6. IsScan(series, ts, m, best)
    <3> HIDE DEF best
    <3> QED
      BY <2>4, <2>5 DEF IsScan
  <2> QED
    BY <2>2, <2>6
<1>3. 0..n \subseteq Done
  <2> HIDE DEF Done
  <2> QED
    BY <1>1, <1>2, Climb
<1>4. n \in 0..n
  OBVIOUS
<1> QED
  BY <1>3, <1>4

(* Closest is the last value of such a run.                                *)
LEMMA ClosestIsScan ==
    ASSUME NEW series, NEW ts, Len(series) \in Nat
    PROVE  \E best : /\ IsScan(series, ts, Len(series), best)
                     /\ Closest(series, ts) = best[Len(series)]
<1> DEFINE n == Len(series)
           Is(f) == f = [i \in 0..n |->
                           IF i = 0 THEN 0
                           ELSE IF Nearer(series, ts, i, f[i - 1]) THEN i ELSE f[i - 1]]
           scan == CHOOSE f : Is(f)
<1>1. Closest(series, ts) = scan[n]
  BY DEF Closest
<1>2. PICK best : IsScan(series, ts, n, best)
  BY ScanExists
<1>3. Is(best)
  <2>1. \A i \in 0..n :
            best[i] = IF i = 0 THEN 0
                      ELSE IF Nearer(series, ts, i, best[i - 1]) THEN i ELSE best[i - 1]
    <3>1. \A i \in 0..n : i # 0 => i \in 1..n
      OBVIOUS
    <3> QED
      BY <1>2, <3>1 DEF IsScan
  <2> QED
    BY <1>2, <2>1 DEF IsScan
<1>4. Is(scan)
  <2> HIDE DEF Is
  <2> QED
    BY <1>3
<1>5. \A i \in 0..n : scan[i] = best[i]
  <2> DEFINE Same == {i \in 0..n : scan[i] = best[i]}
  <2>1. 0 \in Same
    BY <1>3, <1>4
  <2>2. ASSUME NEW i \in 1..n, i - 1 \in Same PROVE i \in Same
    <3>1. i \in 0..n /\ i # 0 /\ scan[i - 1] = best[i - 1]
      BY <2>2
    <3>2. /\ scan[i] = IF Nearer(series, ts, i, scan[i - 1]) THEN i ELSE scan[i - 1]
          /\ best[i] = IF Nearer(series, ts, i, best[i - 1]) THEN i ELSE best[i - 1]
      <4> HIDE DEF scan
      <4> QED
        BY <1>3, <1>4, <3>1
    <3> HIDE DEF scan
    <3> QED
      BY <3>1, <3>2
  <2> HIDE DEF Same
  <2>3. 0..n \subseteq Same
    BY <2>1, <2>2, Climb
  <2> QED
    BY <2>3 DEF Same
<1>6. n \in 0..n
  OBVIOUS
<1> HIDE DEF scan, Is
<1> QED
  BY <1>1, <1>2, <1>5, <1>6

(* The entries of a prefix with a readable time, and the best of them.     *)
Seen(series, n) == {i \in Readable(series) : i <= n}

BestOf(series, ts, n, i) ==
    IF Seen(series, n) = {} THEN i = 0
    ELSE /\ i \in Seen(series, n)
         /\ \A j \in Seen(series, n) :
               Distance(series[i].time, ts) <= Distance(series[j].time, ts)

(* The loop's invariant, one entry further.                                *)
LEMMA ScanStep ==
    ASSUME NEW series, NEW ts \in Nat, NEW n \in Nat \ {0},
           DOMAIN series \subseteq Nat \ {0}, n \in DOMAIN series,
           \A i \in Readable(series) : series[i].time \in Nat,
           NEW old, BestOf(series, ts, n - 1, old),
           NEW new, new = IF Nearer(series, ts, n, old) THEN n ELSE old
    PROVE  BestOf(series, ts, n, new)
<1> DEFINE d(i) == Distance(series[i].time, ts)
<1>1. \A i \in Readable(series) : i \in Nat \ {0} /\ d(i) \in Nat
  BY DEF Readable, Distance
<1>2. Seen(series, n) = Seen(series, n - 1) \cup (IF n \in Readable(series) THEN {n} ELSE {})
  <2>1. \A i \in Readable(series) : i <= n <=> i <= n - 1 \/ i = n
    BY <1>1
  <2>2. n <= n
    OBVIOUS
  <2> QED
    BY <2>1, <2>2 DEF Seen
<1>3. Nearer(series, ts, n, old) <=> n \in Readable(series) /\ (old # 0 => d(n) < d(old))
  BY DEF Nearer, Readable
<1>4. CASE Seen(series, n - 1) = {}
  <2>1. old = 0 /\ Seen(series, n) = IF n \in Readable(series) THEN {n} ELSE {}
    BY <1>2, <1>4 DEF BestOf
  <2> QED
    BY <1>1, <1>3, <2>1 DEF BestOf
<1>5. CASE Seen(series, n - 1) # {}
  <2>1. /\ old \in Seen(series, n - 1) /\ old # 0 /\ old \in Readable(series)
        /\ \A j \in Seen(series, n - 1) : d(old) <= d(j)
    BY <1>1, <1>5 DEF BestOf, Seen
  <2>2. \A j \in Seen(series, n) : j \in Readable(series) /\ d(j) \in Nat
    BY <1>1 DEF Seen
  <2>3. CASE Nearer(series, ts, n, old)
    <3>1. n \in Readable(series) /\ d(n) < d(old) /\ new = n
      BY <1>3, <2>1, <2>3
    <3>2. \A j \in Seen(series, n) : d(n) <= d(j)
      <4> SUFFICES ASSUME NEW j \in Seen(series, n) PROVE d(n) <= d(j)
        OBVIOUS
      <4>1. d(n) \in Nat /\ d(old) \in Nat /\ d(j) \in Nat
        BY <1>1, <2>1, <2>2, <3>1
      <4>2. j = n \/ d(old) <= d(j)
        BY <1>2, <2>1
      <4> HIDE DEF d
      <4> QED
        BY <3>1, <4>1, <4>2
    <3> QED
      BY <1>2, <3>1, <3>2 DEF BestOf
  <2>4. CASE ~Nearer(series, ts, n, old)
    <3>1. new = old /\ (n \in Readable(series) => ~(d(n) < d(old)))
      BY <1>3, <2>1, <2>4
    <3>2. \A j \in Seen(series, n) : d(old) <= d(j)
      <4> SUFFICES ASSUME NEW j \in Seen(series, n) PROVE d(old) <= d(j)
        OBVIOUS
      <4>1. d(old) \in Nat /\ d(j) \in Nat
        BY <1>1, <2>1, <2>2
      <4>2. j \in Seen(series, n - 1) \/ (j = n /\ n \in Readable(series))
        BY <1>2
      <4> HIDE DEF d
      <4> QED
        BY <2>1, <3>1, <4>1, <4>2
    <3> QED
      BY <1>2, <2>1, <3>1, <3>2 DEF BestOf
  <2> QED
    BY <2>3, <2>4
<1> QED
  BY <1>4, <1>5

(* What the scan ends with: the nearest of the readable hours, if there    *)
(* is one.                                                                 *)
LEMMA ClosestIsNearest ==
    ASSUME NEW Hour, NEW series \in Seq(Hour), NEW ts \in Nat,
           \A i \in Readable(series) : series[i].time \in Nat
    PROVE  /\ Readable(series) = {} => Closest(series, ts) = 0
           /\ Readable(series) # {} =>
                 /\ Closest(series, ts) \in Readable(series)
                 /\ Closest(series, ts) # 0
                 /\ \A j \in Readable(series) :
                       Distance(series[Closest(series, ts)].time, ts)
                           <= Distance(series[j].time, ts)
<1> DEFINE n == Len(series)
<1>1. n \in Nat /\ DOMAIN series = 1..n
  OBVIOUS
<1>2. PICK best : IsScan(series, ts, n, best) /\ Closest(series, ts) = best[n]
  BY <1>1, ClosestIsScan
<1> DEFINE Holds == {m \in 0..n : BestOf(series, ts, m, best[m])}
<1> HIDE DEF n
<1>3. 0 \in Holds
  <2>1. Seen(series, 0) = {}
    BY <1>1 DEF Seen, Readable
  <2> QED
    BY <1>1, <1>2, <2>1 DEF BestOf, IsScan
<1>4. ASSUME NEW m \in 1..n, m - 1 \in Holds
      PROVE  m \in Holds
  <2>1. m \in Nat \ {0} /\ m \in DOMAIN series /\ DOMAIN series \subseteq Nat \ {0}
    BY <1>1
  <2>2. best[m] = IF Nearer(series, ts, m, best[m - 1]) THEN m ELSE best[m - 1]
    BY <1>2 DEF IsScan
  <2>3. BestOf(series, ts, m, best[m])
    BY <1>4, <2>1, <2>2, ScanStep
  <2> QED
    BY <1>1, <2>3
<1>5. 0..n \subseteq Holds
  <2> HIDE DEF Holds
  <2> QED
    BY <1>1, <1>3, <1>4, Climb
<1>6. BestOf(series, ts, n, Closest(series, ts))
  BY <1>1, <1>2, <1>5
<1>7. Seen(series, n) = Readable(series) /\ 0 \notin Readable(series)
  BY <1>1 DEF Seen, Readable
<1> QED
  BY <1>6, <1>7 DEF BestOf

-----------------------------------------------------------------------------
(***************************************************************************)
(* Sums.  Total folds a function over its domain in an order that only     *)
(* CHOOSE knows; the lemmas say that any order gives the same.             *)
(***************************************************************************)
(* The equation of the fold's recursive function, and its value at S.      *)
First(S) == CHOOSE x \in S : TRUE

IsSum(f, S, g) ==
    g = [s \in SUBSET S |-> IF s = {} THEN 0 ELSE f[First(s)] + g[s \ {First(s)}]]

SumFunctionOf(f, S) == CHOOSE g : IsSum(f, S, g)
SumOn(f, S) == SumFunctionOf(f, S)[S]

LEMMA TotalIsSum == ASSUME NEW f PROVE Total(f) = SumOn(f, DOMAIN f)
  BY DEF Total, SumFunction, SumFunctionOnSet, FoldFunctionOnSet, MapThenFoldSet,
         SumOn, SumFunctionOf, IsSum, First

(* Induction over finite sets by a counterexample of least size.           *)
LEMMA SmallestExists ==
    ASSUME NEW S, IsFiniteSet(S), NEW Bad, Bad \subseteq SUBSET S, Bad # {}
    PROVE  \E T \in Bad : \A U \in Bad : ~(Cardinality(U) < Cardinality(T))
<1> DEFINE sizes == {Cardinality(T) : T \in Bad}
<1>1. \A T \in Bad : Cardinality(T) \in Nat
  BY FS_Subset, FS_CardinalityType
<1>2. PICK x \in sizes : \A y \in sizes : x <= y
  <2>1. sizes \subseteq Nat /\ sizes # {}
    BY <1>1
  <2> HIDE DEF sizes
  <2> QED
    BY <2>1, LeastExists
<1>3. PICK T \in Bad : x = Cardinality(T)
  OBVIOUS
<1>4. ASSUME NEW U \in Bad PROVE ~(Cardinality(U) < Cardinality(T))
  <2>1. Cardinality(T) <= Cardinality(U)
    BY <1>2, <1>3
  <2> QED
    BY <1>1, <2>1
<1> QED
  BY <1>3, <1>4

(* One element less.                                                       *)
LEMMA Smaller ==
    ASSUME NEW S, IsFiniteSet(S), NEW T, T \subseteq S, NEW x \in T
    PROVE  /\ IsFiniteSet(T) /\ IsFiniteSet(T \ {x})
           /\ T \ {x} \subseteq S
           /\ Cardinality(T) \in Nat
           /\ Cardinality(T \ {x}) = Cardinality(T) - 1
           /\ Cardinality(T \ {x}) < Cardinality(T)
<1>1. IsFiniteSet(T) /\ Cardinality(T) \in Nat
  BY FS_Subset, FS_CardinalityType
<1>2. IsFiniteSet(T \ {x}) /\ Cardinality(T \ {x}) = Cardinality(T) - 1
  BY <1>1, FS_RemoveElement
<1> QED
  BY <1>1, <1>2

LEMMA FirstIn == ASSUME NEW S, S # {} PROVE First(S) \in S
  BY DEF First

(* What the equation says of a set.                                        *)
LEMMA SumUnfold ==
    ASSUME NEW f, NEW S, NEW g, IsSum(f, S, g), NEW s \in SUBSET S
    PROVE  /\ s = {} => g[s] = 0
           /\ s # {} => First(s) \in s /\ g[s] = f[First(s)] + g[s \ {First(s)}]
<1>1. s # {} => First(s) \in s
  BY FirstIn
<1> QED
  BY <1>1 DEF IsSum

(* Two solutions agree where both are defined.                             *)
LEMMA SumsAgree ==
    ASSUME NEW f, NEW S, IsFiniteSet(S), NEW T, T \subseteq S,
           NEW g, NEW h, IsSum(f, S, g), IsSum(f, T, h)
    PROVE  \A s \in SUBSET T : g[s] = h[s]
<1> DEFINE Bad == {s \in SUBSET T : g[s] # h[s]}
<1> SUFFICES ASSUME Bad # {} PROVE FALSE
  OBVIOUS
<1>1. IsFiniteSet(T)
  BY FS_Subset
<1>2. PICK s \in Bad : \A u \in Bad : ~(Cardinality(u) < Cardinality(s))
  <2>1. Bad \subseteq SUBSET T
    OBVIOUS
  <2> HIDE DEF Bad
  <2> QED
    BY <1>1, <2>1, SmallestExists
<1> DEFINE x == First(s)
<1>3. s \in SUBSET T /\ s \in SUBSET S
  OBVIOUS
<1>4. CASE s = {}
  BY <1>3, <1>4, SumUnfold
<1>5. CASE s # {}
  <2>1. x \in s
    BY <1>5, FirstIn
  <2>2. s \ {x} \in SUBSET T /\ Cardinality(s \ {x}) < Cardinality(s)
    BY <1>1, <1>3, <2>1, Smaller
  <2>3. g[s \ {x}] = h[s \ {x}]
    BY <1>2, <2>2
  <2>4. g[s] = f[x] + g[s \ {x}] /\ h[s] = f[x] + h[s \ {x}]
    BY <1>3, <1>5, SumUnfold
  <2> QED
    BY <2>3, <2>4
<1> QED
  BY <1>4, <1>5

(* A finite set has a solution.                                            *)
LEMMA SumExists ==
    ASSUME NEW f, NEW S, IsFiniteSet(S)
    PROVE  IsSum(f, S, SumFunctionOf(f, S))
<1> DEFINE sol(s) == SumFunctionOf(f, s)
           Bad == {T \in SUBSET S : ~IsSum(f, T, sol(T))}
<1> SUFFICES ASSUME Bad # {} PROVE FALSE
  OBVIOUS
<1>1. PICK T \in Bad : \A U \in Bad : ~(Cardinality(U) < Cardinality(T))
  <2>1. Bad \subseteq SUBSET S
    OBVIOUS
  <2> HIDE DEF Bad
  <2> QED
    BY <2>1, SmallestExists
<1>2. T \in SUBSET S /\ IsFiniteSet(T)
  BY FS_Subset
<1> DEFINE G == [s \in SUBSET T |-> IF s = {} THEN 0
                                    ELSE f[First(s)] + SumOn(f, s \ {First(s)})]
(* Every smaller set is solved.                                            *)
<1>3. ASSUME NEW U, U \subseteq T, NEW x \in T, x \notin U
      PROVE  IsSum(f, U, sol(U))
  <2>1. IsFiniteSet(U) /\ IsFiniteSet(T \ {x}) /\ U \subseteq T \ {x}
    BY <1>2, <1>3, FS_Subset
  <2>2. Cardinality(U) <= Cardinality(T \ {x})
    BY <2>1, FS_Subset
  <2>3. /\ Cardinality(T \ {x}) < Cardinality(T)
        /\ Cardinality(T) \in Nat /\ Cardinality(T \ {x}) \in Nat
        /\ Cardinality(U) \in Nat
    BY <1>2, <1>3, <2>1, Smaller, FS_CardinalityType
  <2>4. Cardinality(U) < Cardinality(T)
    BY <2>2, <2>3
  <2> QED
    BY <1>1, <1>2, <1>3, <2>4
<1>4. ASSUME NEW u \in SUBSET T, NEW x \in T, x \notin u
      PROVE  G[u] = SumOn(f, u)
  <2>1. IsSum(f, u, sol(u)) /\ IsFiniteSet(u)
    BY <1>2, <1>3, <1>4, FS_Subset
  <2>2. CASE u = {}
    <3>1. sol(u)[u] = 0
      BY <2>1, <2>2, SumUnfold
    <3> QED
      BY <2>2, <3>1 DEF SumOn
  <2>3. CASE u # {}
    <3>1. First(u) \in u /\ sol(u)[u] = f[First(u)] + sol(u)[u \ {First(u)}]
      BY <2>1, <2>3, SumUnfold
    <3>2. IsSum(f, u \ {First(u)}, sol(u \ {First(u)}))
      BY <1>3, <1>4
    <3>3. sol(u)[u \ {First(u)}] = sol(u \ {First(u)})[u \ {First(u)}]
      <4> HIDE DEF sol
      <4> QED
        BY <2>1, <3>1, <3>2, SumsAgree
    <3> QED
      BY <2>3, <3>1, <3>3 DEF SumOn
  <2> QED
    BY <2>2, <2>3
<1>5. IsSum(f, T, G)
  <2>1. ASSUME NEW s \in SUBSET T, s # {}
        PROVE  G[s] = f[First(s)] + G[s \ {First(s)}]
    <3>1. First(s) \in s
      BY <2>1, FirstIn
    <3>2. G[s \ {First(s)}] = SumOn(f, s \ {First(s)})
      <4> HIDE DEF G
      <4> QED
        BY <1>4, <3>1
    <3> QED
      BY <2>1, <3>2
  <2>2. G = [s \in SUBSET T |-> IF s = {} THEN 0 ELSE f[First(s)] + G[s \ {First(s)}]]
    <3>1. \A s \in SUBSET T :
              G[s] = IF s = {} THEN 0 ELSE f[First(s)] + G[s \ {First(s)}]
      BY <2>1
    <3>2. G = [s \in SUBSET T |-> G[s]]
      OBVIOUS
    <3> HIDE DEF G
    <3> QED
      BY <3>1, <3>2
  <2> HIDE DEF G
  <2> QED
    BY <2>2 DEF IsSum
<1>6. IsSum(f, T, sol(T))
  <2> HIDE DEF G
  <2> QED
    BY <1>5 DEF SumFunctionOf
<1> QED
  BY <1>1, <1>6

(* The sum of a set by the element the fold takes first, and by any.       *)
LEMMA SumFirst ==
    ASSUME NEW f, NEW S, IsFiniteSet(S)
    PROVE  /\ S = {} => SumOn(f, S) = 0
           /\ S # {} => /\ First(S) \in S
                        /\ SumOn(f, S) = f[First(S)] + SumOn(f, S \ {First(S)})
<1> DEFINE x == First(S)
           g == SumFunctionOf(f, S)
           h == SumFunctionOf(f, S \ {x})
<1>1. IsSum(f, S, g)
  BY SumExists
<1>2. CASE S = {}
  BY <1>1, <1>2, SumUnfold DEF SumOn
<1>3. CASE S # {}
  <2>1. x \in S
    BY <1>3, FirstIn
  <2>2. IsFiniteSet(S \ {x})
    BY FS_Subset
  <2>3. IsSum(f, S \ {x}, h)
    BY <2>2, SumExists
  <2>4. g[S] = f[x] + g[S \ {x}]
    BY <1>1, <1>3, SumUnfold
  <2>5. g[S \ {x}] = h[S \ {x}]
    <3> HIDE DEF g, x, h
    <3> QED
      BY <1>1, <2>3, SumsAgree
  <2>6. SumOn(f, S) = g[S] /\ SumOn(f, S \ {x}) = h[S \ {x}]
    BY DEF SumOn
  <2> HIDE DEF g, h
  <2> QED
    BY <1>3, <2>1, <2>4, <2>5, <2>6
<1> QED
  BY <1>2, <1>3

LEMMA SumTyped ==
    ASSUME NEW f, NEW S, IsFiniteSet(S), \A x \in S : f[x] \in Int
    PROVE  SumOn(f, S) \in Int
<1> DEFINE Bad == {T \in SUBSET S : SumOn(f, T) \notin Int}
<1> SUFFICES ASSUME Bad # {} PROVE FALSE
  OBVIOUS
<1>1. PICK T \in Bad : \A U \in Bad : ~(Cardinality(U) < Cardinality(T))
  <2>1. Bad \subseteq SUBSET S
    OBVIOUS
  <2> HIDE DEF Bad
  <2> QED
    BY <2>1, SmallestExists
<1> DEFINE x == First(T)
<1>2. T \in SUBSET S /\ IsFiniteSet(T) /\ SumOn(f, T) \notin Int
  BY FS_Subset
<1>3. T # {} /\ x \in T /\ SumOn(f, T) = f[x] + SumOn(f, T \ {x})
  BY <1>2, SumFirst
<1>4. Cardinality(T \ {x}) < Cardinality(T) /\ T \ {x} \in SUBSET S
  BY <1>2, <1>3, Smaller
<1>5. SumOn(f, T \ {x}) \in Int
  BY <1>1, <1>4
<1> QED
  BY <1>2, <1>3, <1>5

LEMMA SumStep ==
    ASSUME NEW f, NEW S, IsFiniteSet(S), \A x \in S : f[x] \in Int, NEW e \in S
    PROVE  SumOn(f, S) = f[e] + SumOn(f, S \ {e})
<1> DEFINE Bad == {T \in SUBSET S : \E y \in T : SumOn(f, T) # f[y] + SumOn(f, T \ {y})}
<1> SUFFICES ASSUME Bad # {} PROVE FALSE
  OBVIOUS
<1>1. PICK T \in Bad : \A U \in Bad : ~(Cardinality(U) < Cardinality(T))
  <2>1. Bad \subseteq SUBSET S
    OBVIOUS
  <2> HIDE DEF Bad
  <2> QED
    BY <2>1, SmallestExists
<1>2. PICK y \in T : SumOn(f, T) # f[y] + SumOn(f, T \ {y})
  OBVIOUS
<1> DEFINE x == First(T)
<1>3. T \in SUBSET S /\ IsFiniteSet(T)
  BY FS_Subset
<1>4. x \in T /\ SumOn(f, T) = f[x] + SumOn(f, T \ {x})
  BY <1>2, <1>3, SumFirst
<1>5. x # y
  BY <1>2, <1>4
<1>6. /\ Cardinality(T \ {x}) < Cardinality(T) /\ T \ {x} \in SUBSET S
      /\ Cardinality(T \ {y}) < Cardinality(T) /\ T \ {y} \in SUBSET S
  BY <1>2, <1>3, <1>4, Smaller
<1>7. SumOn(f, T \ {x}) = f[y] + SumOn(f, (T \ {x}) \ {y})
  <2>1. y \in T \ {x}
    BY <1>2, <1>5
  <2> QED
    BY <1>1, <1>6, <2>1
<1>8. SumOn(f, T \ {y}) = f[x] + SumOn(f, (T \ {y}) \ {x})
  <2>1. x \in T \ {y}
    BY <1>4, <1>5
  <2> QED
    BY <1>1, <1>6, <2>1
<1>9. (T \ {x}) \ {y} = (T \ {y}) \ {x}
  OBVIOUS
<1> DEFINE rest == SumOn(f, (T \ {x}) \ {y})
<1>10. f[x] \in Int /\ f[y] \in Int /\ rest \in Int
  <2>1. IsFiniteSet((T \ {x}) \ {y})
    BY <1>3, FS_Subset
  <2> QED
    BY <1>2, <1>3, <1>4, <2>1, SumTyped
<1>11. SumOn(f, T) = f[x] + (f[y] + rest)
  BY <1>4, <1>7
<1>12. SumOn(f, T \ {y}) = f[x] + rest
  BY <1>8, <1>9
<1> HIDE DEF x, rest
<1> QED
  BY <1>2, <1>10, <1>11, <1>12

-----------------------------------------------------------------------------
(***************************************************************************)
(* Two and three readings: the most the ensemble ever has.                 *)
(***************************************************************************)
LEMMA PositionsFinite == \A n \in Nat : IsFiniteSet(1..n)
<1> SUFFICES ASSUME NEW n \in Nat PROVE IsFiniteSet(1..n)
  OBVIOUS
<1>1. 1 \in Int /\ n \in Int
  OBVIOUS
<1> QED
  BY <1>1, FS_Interval, Zenon

LEMMA CountStep ==
    ASSUME NEW S, IsFiniteSet(S), NEW x
    PROVE  /\ IsFiniteSet(S \ {x})
           /\ Cardinality(S) = Cardinality(S \ {x}) + (IF x \in S THEN 1 ELSE 0)
<1>1. Cardinality(S) \in Nat /\ IsFiniteSet(S \ {x})
  BY FS_CardinalityType, FS_Subset
<1>2. CASE x \in S
  <2>1. Cardinality(S \ {x}) = Cardinality(S) - 1
    BY <1>2, FS_RemoveElement
  <2> QED
    BY <1>1, <1>2, <2>1
<1>3. CASE x \notin S
  <2>1. S \ {x} = S
    BY <1>3
  <2> QED
    BY <1>1, <1>3, <2>1
<1> QED
  BY <1>2, <1>3

LEMMA CountPair ==
    ASSUME NEW S, S \subseteq 1..2
    PROVE  Cardinality(S) = (IF 1 \in S THEN 1 ELSE 0) + (IF 2 \in S THEN 1 ELSE 0)
<1> DEFINE T == S \ {2}
           none == T \ {1}
<1>1. none = {} /\ (1 \in T <=> 1 \in S)
  <2>1. \A i \in S : i = 1 \/ i = 2
    OBVIOUS
  <2> QED
    BY <2>1
<1>2. IsFiniteSet(S)
  <2>1. IsFiniteSet(1..2)
    BY PositionsFinite
  <2> QED
    BY <2>1, FS_Subset
<1>3. IsFiniteSet(T) /\ Cardinality(S) = Cardinality(T) + (IF 2 \in S THEN 1 ELSE 0)
  BY <1>2, CountStep
<1>4. Cardinality(T) = Cardinality(none) + (IF 1 \in T THEN 1 ELSE 0)
  <2> HIDE DEF T
  <2> QED
    BY <1>3, CountStep
<1>5. Cardinality(none) = 0
  BY <1>1, FS_EmptySet
<1> HIDE DEF T, none
<1> QED
  BY <1>1, <1>3, <1>4, <1>5

LEMMA CountTriple ==
    ASSUME NEW S, S \subseteq 1..3
    PROVE  Cardinality(S) = (IF 1 \in S THEN 1 ELSE 0) + (IF 2 \in S THEN 1 ELSE 0)
                                + (IF 3 \in S THEN 1 ELSE 0)
<1> DEFINE T == S \ {3}
<1>1. T \subseteq 1..2 /\ (1 \in T <=> 1 \in S) /\ (2 \in T <=> 2 \in S)
  OBVIOUS
<1>2. IsFiniteSet(S)
  <2>1. IsFiniteSet(1..3)
    BY PositionsFinite
  <2> QED
    BY <2>1, FS_Subset
<1>3. Cardinality(S) = Cardinality(T) + (IF 3 \in S THEN 1 ELSE 0)
  BY <1>2, CountStep
<1> HIDE DEF T
<1>4. Cardinality(T) = (IF 1 \in T THEN 1 ELSE 0) + (IF 2 \in T THEN 1 ELSE 0)
  BY <1>1, CountPair
<1> QED
  BY <1>1, <1>3, <1>4

(* Their sums.                                                             *)
LEMMA SumSingle == ASSUME NEW f, NEW x, f[x] \in Int PROVE SumOn(f, {x}) = f[x]
<1>1. IsFiniteSet({x})
  BY FS_Singleton
<1>2. \A y \in {x} : f[y] \in Int
  OBVIOUS
<1>3. SumOn(f, {x}) = f[x] + SumOn(f, {x} \ {x})
  BY <1>1, <1>2, SumStep
<1>4. {x} \ {x} = {}
  OBVIOUS
<1>5. SumOn(f, {}) = 0
  BY FS_EmptySet, SumFirst
<1> QED
  BY <1>3, <1>4, <1>5

LEMMA TotalOfPair ==
    ASSUME NEW v, DOMAIN v = 1..2, v[1] \in Int, v[2] \in Int
    PROVE  Total(v) = v[1] + v[2] /\ Size(v) = 2
<1>1. IsFiniteSet(1..2) /\ Cardinality(1..2) = 2
  <2>1. IsFiniteSet(1..2)
    BY PositionsFinite
  <2>2. Cardinality(1..2) = 1 + 1
    BY CountPair
  <2> QED
    BY <2>1, <2>2
<1>2. \A i \in 1..2 : v[i] \in Int
  OBVIOUS
<1>3. SumOn(v, 1..2) = v[2] + SumOn(v, (1..2) \ {2})
  BY <1>1, <1>2, SumStep
<1>4. (1..2) \ {2} = {1}
  OBVIOUS
<1>5. SumOn(v, (1..2) \ {2}) = v[1]
  BY <1>4, SumSingle, Zenon
<1>6. Total(v) = SumOn(v, 1..2) /\ Size(v) = 2
  BY <1>1, TotalIsSum DEF Size
<1> QED
  BY <1>3, <1>5, <1>6

LEMMA TotalOfTriple ==
    ASSUME NEW v, DOMAIN v = 1..3, v[1] \in Int, v[2] \in Int, v[3] \in Int
    PROVE  Total(v) = v[1] + v[2] + v[3] /\ Size(v) = 3
<1>1. IsFiniteSet(1..3) /\ Cardinality(1..3) = 3
  <2>1. IsFiniteSet(1..3)
    BY PositionsFinite
  <2>2. Cardinality(1..3) = 1 + 1 + 1
    BY CountTriple
  <2> QED
    BY <2>1, <2>2
<1>2. \A i \in 1..3 : v[i] \in Int
  OBVIOUS
<1>3. SumOn(v, 1..3) = v[3] + SumOn(v, (1..3) \ {3})
  BY <1>1, <1>2, SumStep
<1>4. (1..3) \ {3} = {1, 2} /\ {1, 2} \ {2} = {1}
  OBVIOUS
<1>5. SumOn(v, {1, 2}) = v[2] + SumOn(v, {1, 2} \ {2})
  <2>1. IsFiniteSet({1, 2})
    BY <1>1, FS_Subset
  <2>2. \A i \in {1, 2} : v[i] \in Int
    OBVIOUS
  <2> QED
    BY <2>1, <2>2, SumStep
<1>6. SumOn(v, (1..3) \ {3}) = v[2] + v[1]
  <2>1. SumOn(v, {1, 2} \ {2}) = v[1]
    BY <1>4, SumSingle, Zenon
  <2> QED
    BY <1>4, <1>5, <2>1, Zenon
<1>7. Total(v) = SumOn(v, 1..3) /\ Size(v) = 3
  BY <1>1, TotalIsSum DEF Size
<1> QED
  BY <1>3, <1>6, <1>7

(* Their variances, in the differences.                                    *)
LEMMA VarianceOfPair ==
    ASSUME NEW v, DOMAIN v = 1..2, v[1] \in Int, v[2] \in Int
    PROVE  Variance(v) = (v[1] - v[2]) * (v[1] - v[2])
<1> DEFINE sq == [i \in DOMAIN v |-> v[i] * v[i]]
<1>1. DOMAIN sq = 1..2 /\ sq[1] = v[1] * v[1] /\ sq[2] = v[2] * v[2]
  OBVIOUS
<1>2. sq[1] \in Int /\ sq[2] \in Int
  BY <1>1
<1>3. Total(sq) = v[1] * v[1] + v[2] * v[2]
  <2> HIDE DEF sq
  <2> QED
    BY <1>1, <1>2, TotalOfPair
<1>4. Total(v) = v[1] + v[2] /\ Size(v) = 2
  BY TotalOfPair
<1>5. Variance(v) = 2 * (v[1] * v[1] + v[2] * v[2]) - (v[1] + v[2]) * (v[1] + v[2])
  BY <1>3, <1>4 DEF Variance
<1> QED
  BY <1>5

LEMMA VarianceOfTriple ==
    ASSUME NEW v, DOMAIN v = 1..3, v[1] \in Int, v[2] \in Int, v[3] \in Int
    PROVE  Variance(v) = 3 * (v[1] * v[1] + v[2] * v[2] + v[3] * v[3])
                             - (v[1] + v[2] + v[3]) * (v[1] + v[2] + v[3])
<1> DEFINE sq == [i \in DOMAIN v |-> v[i] * v[i]]
<1>1. /\ DOMAIN sq = 1..3
      /\ sq[1] = v[1] * v[1] /\ sq[2] = v[2] * v[2] /\ sq[3] = v[3] * v[3]
  OBVIOUS
<1>2. sq[1] \in Int /\ sq[2] \in Int /\ sq[3] \in Int
  BY <1>1
<1>3. Total(sq) = v[1] * v[1] + v[2] * v[2] + v[3] * v[3]
  <2> HIDE DEF sq
  <2> QED
    BY <1>1, <1>2, TotalOfTriple
<1>4. Total(v) = v[1] + v[2] + v[3] /\ Size(v) = 3
  BY TotalOfTriple
<1> QED
  BY <1>3, <1>4 DEF Variance

(* Their medians.                                                          *)
LEMMA ReadingsTyped ==
    ASSUME NEW v \in Seq(Int)
    PROVE  Len(v) \in Nat /\ DOMAIN v = 1..Len(v) /\ \A i \in 1..Len(v) : v[i] \in Int
  OBVIOUS

Fits(v, x, k) ==
    /\ Cardinality({i \in DOMAIN v : v[i] < x}) < k
    /\ Cardinality({i \in DOMAIN v : v[i] <= x}) >= k

LEMMA RankedFits ==
    ASSUME NEW v, NEW k, \E x \in Range(v) : Fits(v, x, k)
    PROVE  Ranked(v, k) \in Range(v) /\ Fits(v, Ranked(v, k), k)
  BY DEF Ranked, Fits

LEMMA FitsPair ==
    ASSUME NEW v, DOMAIN v = 1..2, v[1] \in Int, v[2] \in Int, NEW x \in Int, NEW k \in Nat
    PROVE  Fits(v, x, k) <=>
              /\ (IF v[1] < x THEN 1 ELSE 0) + (IF v[2] < x THEN 1 ELSE 0) < k
              /\ (IF v[1] <= x THEN 1 ELSE 0) + (IF v[2] <= x THEN 1 ELSE 0) >= k
<1> DEFINE B == {i \in DOMAIN v : v[i] < x}
           U == {i \in DOMAIN v : v[i] <= x}
<1>1. /\ B \subseteq 1..2 /\ U \subseteq 1..2
      /\ 1 \in B <=> v[1] < x
      /\ 2 \in B <=> v[2] < x
      /\ 1 \in U <=> v[1] <= x
      /\ 2 \in U <=> v[2] <= x
  OBVIOUS
<1>2. Fits(v, x, k) <=> Cardinality(B) < k /\ Cardinality(U) >= k
  BY DEF Fits
<1> HIDE DEF B, U
<1>3. /\ Cardinality(B) = (IF v[1] < x THEN 1 ELSE 0) + (IF v[2] < x THEN 1 ELSE 0)
      /\ Cardinality(U) = (IF v[1] <= x THEN 1 ELSE 0) + (IF v[2] <= x THEN 1 ELSE 0)
  BY <1>1, CountPair
<1> QED
  BY <1>2, <1>3

LEMMA FitsTriple ==
    ASSUME NEW v, DOMAIN v = 1..3, v[1] \in Int, v[2] \in Int, v[3] \in Int,
           NEW x \in Int, NEW k \in Nat
    PROVE  Fits(v, x, k) <=>
              /\ (IF v[1] < x THEN 1 ELSE 0) + (IF v[2] < x THEN 1 ELSE 0)
                     + (IF v[3] < x THEN 1 ELSE 0) < k
              /\ (IF v[1] <= x THEN 1 ELSE 0) + (IF v[2] <= x THEN 1 ELSE 0)
                     + (IF v[3] <= x THEN 1 ELSE 0) >= k
<1> DEFINE B == {i \in DOMAIN v : v[i] < x}
           U == {i \in DOMAIN v : v[i] <= x}
<1>1. /\ B \subseteq 1..3 /\ U \subseteq 1..3
      /\ 1 \in B <=> v[1] < x
      /\ 2 \in B <=> v[2] < x
      /\ 3 \in B <=> v[3] < x
      /\ 1 \in U <=> v[1] <= x
      /\ 2 \in U <=> v[2] <= x
      /\ 3 \in U <=> v[3] <= x
  OBVIOUS
<1>2. Fits(v, x, k) <=> Cardinality(B) < k /\ Cardinality(U) >= k
  BY DEF Fits
<1> HIDE DEF B, U
<1>3. /\ Cardinality(B) = (IF v[1] < x THEN 1 ELSE 0) + (IF v[2] < x THEN 1 ELSE 0)
                              + (IF v[3] < x THEN 1 ELSE 0)
      /\ Cardinality(U) = (IF v[1] <= x THEN 1 ELSE 0) + (IF v[2] <= x THEN 1 ELSE 0)
                              + (IF v[3] <= x THEN 1 ELSE 0)
  BY <1>1, CountTriple
<1> QED
  BY <1>2, <1>3

LEMMA MedianOfPair ==
    ASSUME NEW v \in Seq(Int), Len(v) = 2
    PROVE  Median2(v) = v[1] + v[2]
<1>1. DOMAIN v = 1..2 /\ v[1] \in Int /\ v[2] \in Int
  <2>1. DOMAIN v = 1..2 /\ \A i \in 1..2 : v[i] \in Int
    BY ReadingsTyped
  <2> QED
    BY <2>1
<1>2. Range(v) = {v[1], v[2]}
  BY <1>1 DEF Range
<1>3. (\E x \in Range(v) : Fits(v, x, 1)) /\ (\E x \in Range(v) : Fits(v, x, 2))
  <2>1. CASE v[1] <= v[2]
    <3>1. Fits(v, v[1], 1) /\ Fits(v, v[2], 2)
      BY <1>1, <2>1, FitsPair
    <3> QED
      BY <1>2, <3>1
  <2>2. CASE ~(v[1] <= v[2])
    <3>1. Fits(v, v[2], 1) /\ Fits(v, v[1], 2)
      BY <1>1, <2>2, FitsPair
    <3> QED
      BY <1>2, <3>1
  <2> QED
    BY <2>1, <2>2
<1>4. /\ Ranked(v, 1) \in {v[1], v[2]} /\ Fits(v, Ranked(v, 1), 1)
      /\ Ranked(v, 2) \in {v[1], v[2]} /\ Fits(v, Ranked(v, 2), 2)
  BY <1>2, <1>3, RankedFits
<1>5. /\ Ranked(v, 1) <= v[1] /\ Ranked(v, 1) <= v[2]
      /\ v[1] <= Ranked(v, 2) /\ v[2] <= Ranked(v, 2)
  BY <1>1, <1>4, FitsPair
<1>6. Median2(v) = Ranked(v, 1) + Ranked(v, 2)
  BY DEF Median2
<1> QED
  BY <1>1, <1>4, <1>5, <1>6

LEMMA MedianOfTriple ==
    ASSUME NEW v \in Seq(Int), Len(v) = 3
    PROVE  \E m \in {v[1], v[2], v[3]} :
              /\ Median2(v) = 2 * m
              /\ \A i \in 1..3 : /\ \E j \in (1..3) \ {i} : v[j] <= m
                                 /\ \E j \in (1..3) \ {i} : m <= v[j]
<1>1. DOMAIN v = 1..3 /\ v[1] \in Int /\ v[2] \in Int /\ v[3] \in Int
  <2>1. DOMAIN v = 1..3 /\ \A i \in 1..3 : v[i] \in Int
    BY ReadingsTyped
  <2> QED
    BY <2>1
<1>2. Range(v) = {v[1], v[2], v[3]}
  BY <1>1 DEF Range
<1>3. Fits(v, v[1], 2) \/ Fits(v, v[2], 2) \/ Fits(v, v[3], 2)
  <2>1. Fits(v, v[1], 2) <=>
           /\ (IF v[2] < v[1] THEN 1 ELSE 0) + (IF v[3] < v[1] THEN 1 ELSE 0) < 2
           /\ (IF v[2] <= v[1] THEN 1 ELSE 0) + (IF v[3] <= v[1] THEN 1 ELSE 0) >= 1
    BY <1>1, FitsTriple
  <2>2. Fits(v, v[2], 2) <=>
           /\ (IF v[1] < v[2] THEN 1 ELSE 0) + (IF v[3] < v[2] THEN 1 ELSE 0) < 2
           /\ (IF v[1] <= v[2] THEN 1 ELSE 0) + (IF v[3] <= v[2] THEN 1 ELSE 0) >= 1
    BY <1>1, FitsTriple
  <2>3. Fits(v, v[3], 2) <=>
           /\ (IF v[1] < v[3] THEN 1 ELSE 0) + (IF v[2] < v[3] THEN 1 ELSE 0) < 2
           /\ (IF v[1] <= v[3] THEN 1 ELSE 0) + (IF v[2] <= v[3] THEN 1 ELSE 0) >= 1
    BY <1>1, FitsTriple
  <2> QED
    BY <1>1, <2>1, <2>2, <2>3
<1> DEFINE m == Ranked(v, 2)
<1>4. m \in {v[1], v[2], v[3]} /\ Fits(v, m, 2)
  BY <1>2, <1>3, RankedFits
<1>5. Median2(v) = 2 * m
  BY DEF Median2
<1> HIDE DEF m
<1>6. /\ m \in Int
      /\ (IF v[1] < m THEN 1 ELSE 0) + (IF v[2] < m THEN 1 ELSE 0)
            + (IF v[3] < m THEN 1 ELSE 0) < 2
      /\ (IF v[1] <= m THEN 1 ELSE 0) + (IF v[2] <= m THEN 1 ELSE 0)
            + (IF v[3] <= m THEN 1 ELSE 0) >= 2
  BY <1>1, <1>4, FitsTriple
<1>7. /\ v[2] <= m \/ v[3] <= m
      /\ v[1] <= m \/ v[3] <= m
      /\ v[1] <= m \/ v[2] <= m
      /\ m <= v[2] \/ m <= v[3]
      /\ m <= v[1] \/ m <= v[3]
      /\ m <= v[1] \/ m <= v[2]
  BY <1>1, <1>6
<1>8. ASSUME NEW i \in 1..3
      PROVE  /\ \E j \in (1..3) \ {i} : v[j] <= m
             /\ \E j \in (1..3) \ {i} : m <= v[j]
  <2>1. CASE i = 1
    BY <1>7, <2>1
  <2>2. CASE i = 2
    BY <1>7, <2>2
  <2>3. CASE i = 3
    BY <1>7, <2>3
  <2> QED
    BY <2>1, <2>2, <2>3
<1> QED
  BY <1>4, <1>5, <1>8

(* The spread is a difference of two readings.                             *)
LEMMA SpreadIsDifference ==
    ASSUME NEW v, NEW all, all = {v[i] : i \in DOMAIN v}, all \subseteq Int,
           \E x \in all : \A y \in all : y <= x,
           \E x \in all : \A y \in all : x <= y
    PROVE  \E x, y \in all : /\ Spread(v) = x - y
                             /\ \A e \in all : y <= e /\ e <= x
<1> DEFINE hi == CHOOSE x \in all : \A y \in all : y <= x
           lo == CHOOSE x \in all : \A y \in all : x <= y
<1>1. hi \in all /\ \A y \in all : y <= hi
  OBVIOUS
<1>2. lo \in all /\ \A y \in all : lo <= y
  OBVIOUS
<1>3. Spread(v) = hi - lo
  BY DEF Spread
<1> HIDE DEF hi, lo
<1> QED
  BY <1>1, <1>2, <1>3

(* Arithmetic: what a deviation below the thresholds leaves to a spread d, *)
(* for a variance that is at least its share of d squared.                 *)
LEMMA SquaresGrow == \A a, b \in Nat : a >= b => a * a >= b * b
<1> SUFFICES ASSUME NEW a \in Nat, NEW b \in Nat, a >= b PROVE a * a >= b * b
  OBVIOUS
<1>1. PICK c \in Nat : a = b + c
  <2>1. a - b \in Nat /\ a = b + (a - b)
    OBVIOUS
  <2> QED
    BY <2>1
<1>2. a * a = b * b + (2 * (b * c) + c * c)
  BY <1>1
<1>3. b * c \in Nat /\ c * c \in Nat /\ b * b \in Nat
  OBVIOUS
<1> QED
  BY <1>2, <1>3

LEMMA PairDarkBound ==
    ASSUME NEW d \in Nat, d * d < 10000
    PROVE  d < 123
<1>1. d >= 100 => d * d >= 100 * 100
  BY SquaresGrow
<1> QED
  BY <1>1

LEMMA TripleDarkBound ==
    ASSUME NEW d \in Nat, NEW w \in Nat, 3 * (d * d) <= 2 * w, w < 22500
    PROVE  d < 123
<1>1. d >= 123 => d * d >= 123 * 123
  BY SquaresGrow
<1>2. d * d \in Nat
  OBVIOUS
<1> QED
  BY <1>1, <1>2

LEMMA PairLightBound ==
    ASSUME NEW d \in Nat, NEW m \in Nat, m # 0, 400 * (d * d) < 36 * (m * m)
    PROVE  200 * d < 74 * m
<1>1. 20 * d >= 6 * m => (20 * d) * (20 * d) >= (6 * m) * (6 * m)
  BY SquaresGrow
<1>2. (20 * d) * (20 * d) = 400 * (d * d) /\ (6 * m) * (6 * m) = 36 * (m * m)
  OBVIOUS
<1>3. d * d \in Nat /\ m * m \in Nat
  OBVIOUS
<1>4. 20 * d < 6 * m
  BY <1>1, <1>2, <1>3
<1> QED
  BY <1>4

LEMMA TripleLightBound ==
    ASSUME NEW d \in Nat, NEW m \in Nat, NEW w \in Nat, m # 0,
           3 * (d * d) <= 2 * w, 400 * w < 81 * (m * m)
    PROVE  200 * d < 74 * m
<1>1. 100 * d >= 37 * m => (100 * d) * (100 * d) >= (37 * m) * (37 * m)
  BY SquaresGrow
<1>2. (100 * d) * (100 * d) = 10000 * (d * d) /\ (37 * m) * (37 * m) = 1369 * (m * m)
  OBVIOUS
<1>3. d * d \in Nat /\ m * m \in Nat
  OBVIOUS
<1> DEFINE dd == d * d
           mm == m * m
<1>4. dd \in Nat /\ mm \in Nat /\ 3 * dd <= 2 * w /\ 400 * w < 81 * mm
  BY <1>3
<1>5. ~(10000 * dd >= 1369 * mm)
  <2> HIDE DEF dd, mm
  <2> QED
    BY <1>4
<1>6. 100 * d < 37 * m
  BY <1>1, <1>2, <1>5
<1> QED
  BY <1>6

(* Three readings vary at least as the two of them that are furthest apart. *)
LEMMA TripleVaries ==
    ASSUME NEW a \in Int, NEW b \in Int, NEW c \in Int,
           NEW x \in {a, b, c}, NEW y \in {a, b, c}
    PROVE  /\ 3 * ((x - y) * (x - y))
                 <= 2 * (3 * (a * a + b * b + c * c) - (a + b + c) * (a + b + c))
           /\ 3 * (a * a + b * b + c * c) - (a + b + c) * (a + b + c) \in Nat
<1> DEFINE w == 3 * (a * a + b * b + c * c) - (a + b + c) * (a + b + c)
           sq(n) == n * n
<1>1. \A n \in Int : sq(n) \in Nat
  <2> SUFFICES ASSUME NEW n \in Int PROVE n * n \in Nat
    OBVIOUS
  <2>1. n * n >= 0
    OBVIOUS
  <2> QED
    BY <2>1
<1>2. w = sq(a - b) + sq(b - c) + sq(a - c)
  OBVIOUS
<1>3. /\ 2 * w = 3 * sq(a - b) + sq((a - c) + (b - c))
      /\ 2 * w = 3 * sq(b - c) + sq((a - b) + (a - c))
      /\ 2 * w = 3 * sq(a - c) + sq((a - b) - (b - c))
  OBVIOUS
<1>4. /\ sq(b - a) = sq(a - b) /\ sq(c - b) = sq(b - c) /\ sq(c - a) = sq(a - c)
      /\ sq(a - a) = 0 /\ sq(b - b) = 0 /\ sq(c - c) = 0
  OBVIOUS
<1>5. /\ sq(a - b) \in Nat /\ sq(b - c) \in Nat /\ sq(a - c) \in Nat
      /\ sq((a - c) + (b - c)) \in Nat /\ sq((a - b) + (a - c)) \in Nat
      /\ sq((a - b) - (b - c)) \in Nat
  BY <1>1
<1>6. \/ sq(x - y) = sq(a - b) \/ sq(x - y) = sq(b - c) \/ sq(x - y) = sq(a - c)
      \/ sq(x - y) = 0
  BY <1>4
<1>7. 3 * sq(x - y) <= 2 * w /\ w \in Nat
  <2> HIDE DEF sq, w
  <2> QED
    BY <1>2, <1>3, <1>5, <1>6
<1> QED
  BY <1>7

(* What classify says of two, and of three.                                *)
LEMMA ClassifySome ==
    ASSUME NEW v \in Seq(Int), Len(v) = 2 \/ Len(v) = 3
    PROVE  classify(v) = [status |-> IF Diverges(v) THEN "divergent" ELSE "ok",
                          ghi2 |-> Median2(v), responded |-> Len(v)]
<1>1. Len(v) # 0 /\ Len(v) # 1
  <2>1. \A n : n = 2 \/ n = 3 => n # 0 /\ n # 1
    OBVIOUS
  <2> QED
    BY <2>1
<1> DEFINE r == [status |-> IF Diverges(v) THEN "divergent" ELSE "ok",
                 ghi2 |-> Median2(v), responded |-> Len(v)]
<1>2. classify(v) =
        CASE Len(v) = 0 -> [status |-> "unavailable", ghi2 |-> 0, responded |-> 0]
          [] Len(v) = 1 -> [status |-> "degraded", ghi2 |-> 2 * v[1], responded |-> 1]
          [] OTHER -> r
  BY DEF classify
<1> HIDE DEF r
<1>3. classify(v) = r
  BY <1>1, <1>2
<1> QED
  BY <1>3 DEF r

LEMMA ClassifyFields ==
    ASSUME NEW v \in Seq(Int), Len(v) = 2 \/ Len(v) = 3
    PROVE  /\ classify(v).status = IF Diverges(v) THEN "divergent" ELSE "ok"
           /\ classify(v).ghi2 = Median2(v)
           /\ classify(v).responded = Len(v)
           /\ Median2(v) \in Int => classify(v) \in EnsembleResult
<1> DEFINE s == IF Diverges(v) THEN "divergent" ELSE "ok"
           m == Median2(v)
           n == Len(v)
<1>1. classify(v) = [status |-> s, ghi2 |-> m, responded |-> n]
  BY ClassifySome
<1>2. s \in Statuses /\ n \in Nat
  BY ReadingsTyped DEF Statuses
<1> HIDE DEF s, m, n
<1>3. /\ classify(v).status = s /\ classify(v).ghi2 = m /\ classify(v).responded = n
      /\ m \in Int => classify(v) \in EnsembleResult
  BY <1>1, <1>2 DEF EnsembleResult
<1> QED
  BY <1>3 DEF s, m, n

LEMMA ClassifyPair ==
    ASSUME NEW v \in Seq(Int), Len(v) = 2
    PROVE  /\ classify(v) \in EnsembleResult
           /\ classify(v).responded = 2
           /\ classify(v).status = "ok" /\ classify(v).ghi2 >= 0 =>
                 Agree(v, classify(v).ghi2)
<1>1. DOMAIN v = 1..2 /\ v[1] \in Int /\ v[2] \in Int
  <2>1. DOMAIN v = 1..2 /\ \A i \in 1..2 : v[i] \in Int
    BY ReadingsTyped
  <2> QED
    BY <2>1
<1> DEFINE m == v[1] + v[2]
           d == Spread(v)
           all == {v[i] : i \in DOMAIN v}
<1>2. Median2(v) = m /\ m \in Int
  BY <1>1, MedianOfPair
<1>3. /\ classify(v).status = IF Diverges(v) THEN "divergent" ELSE "ok"
      /\ classify(v).ghi2 = m /\ classify(v).responded = 2
  BY <1>2, ClassifyFields
<1>4. classify(v) \in EnsembleResult
  BY <1>2, ClassifyFields
<1>5. Variance(v) = (v[1] - v[2]) * (v[1] - v[2])
  BY <1>1, VarianceOfPair
<1>6. d \in Nat /\ (d = v[1] - v[2] \/ d = v[2] - v[1])
  <2> DEFINE values == {v[1], v[2]}
  <2>1. all = values
    BY <1>1
  <2>2. /\ \E x \in values : \A y \in values : y <= x
        /\ \E x \in values : \A y \in values : x <= y
    BY <1>1
  <2>3. PICK x \in values, y \in values : d = x - y /\ \A e \in values : y <= e /\ e <= x
    <3>1. values \subseteq Int
      BY <1>1
    <3> HIDE DEF values
    <3> QED
      BY <2>1, <2>2, <3>1, SpreadIsDifference
  <2>4. y <= v[1] /\ v[1] <= x /\ y <= v[2] /\ v[2] <= x
    BY <2>3
  <2> HIDE DEF d
  <2> QED
    BY <1>1, <2>3, <2>4
<1>7. Variance(v) = d * d
  <2> HIDE DEF d
  <2>1. \A a, b \in Int : (a - b) * (a - b) = (b - a) * (b - a)
    OBVIOUS
  <2>2. (v[1] - v[2]) * (v[1] - v[2]) = d * d
    BY <1>1, <1>6, <2>1
  <2> QED
    BY <1>5, <2>2
<1>8. ASSUME ~Diverges(v), m >= 0
      PROVE  IF m = 0 THEN d < 123 ELSE 200 * d < 74 * m
  <2>1. CASE m = 0
    <3>1. ~(d * d >= 10000)
      BY <1>2, <1>7, <1>8, <2>1 DEF Diverges, NightStdThreshold
    <3> HIDE DEF d, m
    <3>2. d * d \in Nat
      BY <1>6
    <3> QED
      BY <1>6, <2>1, <3>1, <3>2, PairDarkBound
  <2>2. CASE m # 0
    <3>1. ~(4 * 10 * 10 * Variance(v) >= 3 * 3 * 2 * 2 * m * m)
      BY <1>2, <1>3, <1>8, <2>2 DEF Diverges, DivergenceThreshold
    <3> HIDE DEF d, m
    <3>2. d * d \in Nat /\ m * m \in Nat
      BY <1>2, <1>6
    <3>3. 3 * 3 * 2 * 2 * m * m = 36 * (m * m)
      BY <1>2
    <3>4. 400 * (d * d) < 36 * (m * m)
      BY <1>7, <3>1, <3>2, <3>3
    <3> QED
      BY <1>2, <1>6, <1>8, <2>2, <3>4, PairLightBound
  <2> QED
    BY <2>1, <2>2
<1>9. ~Diverges(v) /\ m >= 0 => Agree(v, m)
  BY <1>2, <1>8 DEF Agree
<1> HIDE DEF d, m
<1> QED
  BY <1>3, <1>4, <1>9

LEMMA ClassifyTriple ==
    ASSUME NEW v \in Seq(Int), Len(v) = 3
    PROVE  /\ classify(v) \in EnsembleResult
           /\ classify(v).responded = 3
           /\ classify(v).status = "ok" /\ classify(v).ghi2 >= 0 =>
                 Agree(v, classify(v).ghi2)
           /\ \A i \in 1..3 : /\ \E j \in (1..3) \ {i} : 2 * v[j] <= classify(v).ghi2
                              /\ \E j \in (1..3) \ {i} : classify(v).ghi2 <= 2 * v[j]
<1>1. DOMAIN v = 1..3 /\ v[1] \in Int /\ v[2] \in Int /\ v[3] \in Int
  <2>1. DOMAIN v = 1..3 /\ \A i \in 1..3 : v[i] \in Int
    BY ReadingsTyped
  <2> QED
    BY <2>1
<1>2. PICK half \in {v[1], v[2], v[3]} :
            /\ Median2(v) = 2 * half
            /\ \A i \in 1..3 : /\ \E j \in (1..3) \ {i} : v[j] <= half
                               /\ \E j \in (1..3) \ {i} : half <= v[j]
  BY MedianOfTriple
<1> DEFINE m == 2 * half
           d == Spread(v)
           w == 3 * (v[1] * v[1] + v[2] * v[2] + v[3] * v[3])
                    - (v[1] + v[2] + v[3]) * (v[1] + v[2] + v[3])
           all == {v[i] : i \in DOMAIN v}
<1>3. half \in Int /\ m \in Int
  BY <1>1
<1>4. /\ classify(v).status = IF Diverges(v) THEN "divergent" ELSE "ok"
      /\ classify(v).ghi2 = m /\ classify(v).responded = 3
  BY <1>2, ClassifyFields
<1>5. classify(v) \in EnsembleResult
  BY <1>2, <1>3, ClassifyFields
<1>6. Variance(v) = w
  <2>1. v[1] \in Int /\ v[2] \in Int /\ v[3] \in Int
    BY <1>1
  <2> QED
    BY <1>1, <2>1, VarianceOfTriple, Zenon
<1>7. d \in Nat /\ 3 * (d * d) <= 2 * w /\ w \in Nat
  <2> DEFINE values == {v[1], v[2], v[3]}
  <2>1. all = values
    BY <1>1
  <2>2. /\ \E x \in values : \A y \in values : y <= x
        /\ \E x \in values : \A y \in values : x <= y
    BY <1>1
  <2>3. PICK x \in values, y \in values : d = x - y /\ \A e \in values : y <= e /\ e <= x
    <3>1. values \subseteq Int
      BY <1>1
    <3> HIDE DEF values
    <3> QED
      BY <2>1, <2>2, <3>1, SpreadIsDifference
  <2>4. 3 * ((x - y) * (x - y)) <= 2 * w /\ w \in Nat
    BY <1>1, TripleVaries
  <2>5. x \in Int /\ y \in Int /\ y <= x
    BY <1>1, <2>3
  <2> HIDE DEF w, d
  <2> QED
    BY <2>3, <2>4, <2>5
<1>8. ASSUME ~Diverges(v), m >= 0
      PROVE  IF m = 0 THEN d < 123 ELSE 200 * d < 74 * m
  <2>1. CASE m = 0
    <3>1. ~(Variance(v) >= 50 * 50 * 3 * 3)
      BY <1>2, <1>8, <2>1 DEF Diverges, NightStdThreshold
    <3> HIDE DEF d, m, w
    <3>2. w < 22500
      BY <1>6, <1>7, <3>1
    <3> QED
      BY <1>7, <2>1, <3>2, TripleDarkBound
  <2>2. CASE m # 0
    <3>1. ~(4 * 10 * 10 * Variance(v) >= 3 * 3 * 3 * 3 * m * m)
      BY <1>2, <1>3, <1>8, <2>2 DEF Diverges, DivergenceThreshold
    <3> HIDE DEF d, m, w
    <3>2. 3 * 3 * 3 * 3 * m * m = 81 * (m * m) /\ m * m \in Nat
      BY <1>3
    <3>3. 400 * w < 81 * (m * m)
      BY <1>6, <1>7, <3>1, <3>2
    <3> QED
      BY <1>3, <1>7, <1>8, <2>2, <3>3, TripleLightBound
  <2> QED
    BY <2>1, <2>2
<1>9. \A i \in 1..3 : /\ \E j \in (1..3) \ {i} : 2 * v[j] <= m
                      /\ \E j \in (1..3) \ {i} : m <= 2 * v[j]
  <2> SUFFICES ASSUME NEW i \in 1..3
               PROVE  /\ \E j \in (1..3) \ {i} : 2 * v[j] <= m
                      /\ \E j \in (1..3) \ {i} : m <= 2 * v[j]
    OBVIOUS
  <2>1. \A j \in 1..3 : v[j] \in Int
    BY ReadingsTyped
  <2>2. PICK j \in (1..3) \ {i} : v[j] <= half
    BY <1>2
  <2>3. PICK k \in (1..3) \ {i} : half <= v[k]
    BY <1>2
  <2>4. 2 * v[j] <= m /\ m <= 2 * v[k]
    BY <1>3, <2>1, <2>2, <2>3
  <2> QED
    BY <2>4
<1>10. ~Diverges(v) /\ m >= 0 => Agree(v, m)
  BY <1>3, <1>8 DEF Agree
<1> HIDE DEF d, m
<1> QED
  BY <1>4, <1>5, <1>9, <1>10

(* What the ensemble makes of what three providers can answer.             *)
LEMMA ClassifyFew ==
    ASSUME NEW v \in Seq(Int), Len(v) = 0 \/ Len(v) = 1
    PROVE  /\ classify(v) \in EnsembleResult
           /\ classify(v).responded = Len(v)
           /\ classify(v).status # "ok"
<1>1. CASE Len(v) = 0
  BY <1>1 DEF classify, EnsembleResult, Statuses
<1>2. CASE Len(v) = 1
  <2>1. v[1] \in Int
    BY <1>2, ReadingsTyped
  <2>2. Len(v) # 0
    BY <1>2
  <2>3. classify(v) = [status |-> "degraded", ghi2 |-> 2 * v[1], responded |-> 1]
    BY <1>2, <2>2 DEF classify
  <2> QED
    BY <1>2, <2>1, <2>3 DEF EnsembleResult, Statuses
<1> QED
  BY <1>1, <1>2

LEMMA ClassifyTyped ==
    ASSUME NEW v \in Seq(Int), Len(v) <= 3
    PROVE  /\ classify(v) \in EnsembleResult
           /\ classify(v).responded = Len(v)
           /\ classify(v).status = "ok" =>
                 /\ Len(v) >= 2
                 /\ classify(v).ghi2 >= 0 => Agree(v, classify(v).ghi2)
<1>1. Len(v) = 0 \/ Len(v) = 1 \/ Len(v) = 2 \/ Len(v) = 3
  <2>1. Len(v) \in Nat /\ Len(v) <= 3
    BY ReadingsTyped
  <2>2. \A n \in Nat : n <= 3 => n = 0 \/ n = 1 \/ n = 2 \/ n = 3
    OBVIOUS
  <2> QED
    BY <2>1, <2>2, Zenon
<1>2. CASE Len(v) = 0 \/ Len(v) = 1
  BY <1>2, ClassifyFew
<1>3. CASE Len(v) = 2
  BY <1>3, ClassifyPair
<1>4. CASE Len(v) = 3
  BY <1>4, ClassifyTriple
<1> QED
  BY <1>1, <1>2, <1>3, <1>4

-----------------------------------------------------------------------------
(***************************************************************************)
(* Weather.                                                                *)
(***************************************************************************)
(* What a series is made of.                                               *)
LEMMA SeriesEntry ==
    ASSUME NEW Hour, NEW series \in Seq(Hour), NEW i \in DOMAIN series
    PROVE  series[i] \in Hour
  OBVIOUS

LEMMA SeriesHead ==
    ASSUME NEW Hour, NEW series \in Seq(Hour), series # <<>>
    PROVE  1 \in DOMAIN series
  OBVIOUS

(* The entries of a body; its readable hours are numbers.                  *)
LEMMA BodyTyped ==
    ASSUME NEW b \in Body
    PROVE  LET hours == [time : Nat \cup {Unreadable}, ghi : Int \cup {Missing}]
           IN  /\ b.series \in Seq(hours)
               /\ \A i \in DOMAIN b.series : b.series[i] \in hours
               /\ \A i \in Readable(b.series) : b.series[i].time \in Nat
<1> DEFINE hours == [time : Nat \cup {Unreadable}, ghi : Int \cup {Missing}]
<1>1. b.series \in Seq(hours)
  BY DEF Body
<1>2. \A i \in DOMAIN b.series : b.series[i] \in hours
  <2> HIDE DEF hours
  <2> QED
    BY <1>1, SeriesEntry
<1>3. \A h \in hours : h.time # Unreadable => h.time \in Nat
  OBVIOUS
<1> QED
  BY <1>1, <1>2, <1>3 DEF Readable

(* What the scan of a body's series finds.                                 *)
LEMMA ClosestOfBody ==
    ASSUME NEW b \in Body, NEW ts \in Nat
    PROVE  LET s == b.series
           IN  /\ Readable(s) = {} => Closest(s, ts) = 0
               /\ Readable(s) # {} =>
                     /\ Closest(s, ts) \in Readable(s)
                     /\ \A j \in Readable(s) :
                           Distance(s[Closest(s, ts)].time, ts) <= Distance(s[j].time, ts)
<1> DEFINE hours == [time : Nat \cup {Unreadable}, ghi : Int \cup {Missing}]
<1>1. b.series \in Seq(hours) /\ \A i \in Readable(b.series) : b.series[i].time \in Nat
  BY BodyTyped
<1> HIDE DEF hours
<1> QED
  BY <1>1, ClosestIsNearest

(* A body with a point in it: the point is a reading of the nearest hour.  *)
LEMMA PointIsReading ==
    ASSUME NEW p \in Providers, NEW b \in Body, NEW ts \in Nat, IsPoint(p, b, ts)
    PROVE  /\ Point(p, b, ts).ghi \in Int
           /\ Readable(b.series) # {} =>
                 Point(p, b, ts).time = b.series[Closest(b.series, ts)].time
<1> DEFINE i == Closest(b.series, ts)
<1>1. \A j \in DOMAIN b.series :
         b.series[j] \in [time : Nat \cup {Unreadable}, ghi : Int \cup {Missing}]
  BY BodyTyped
<1>2. ASSUME NEW j \in DOMAIN b.series, NEW refused, Missing \in refused,
             Point(p, b, ts) = PointOf(b.series[j], refused)
      PROVE  /\ Point(p, b, ts).ghi \in Int
             /\ Point(p, b, ts).time = b.series[j].time
  <2>1. b.series[j] \in [time : Nat \cup {Unreadable}, ghi : Int \cup {Missing}]
    BY <1>1
  <2>2. b.series[j].ghi \notin refused
    BY <1>2 DEF IsPoint, PointOf
  <2> QED
    BY <1>2, <2>1, <2>2 DEF PointOf
<1>3. b.series # <<>> /\ 1 \in DOMAIN b.series
  <2>1. (b.series = <<>>) => i = 0
    BY ClosestOfBody DEF Readable
  <2>2. b.series # <<>>
    <3> HIDE DEF i
    <3>1. i = Closest(b.series, ts)
      BY DEF i
    <3> QED
      BY <2>1, <3>1 DEF IsPoint, Point, Providers, OpenMeteoPoint, NASAPowerPoint, PVGISPoint
  <2> QED
    BY <2>2, SeriesHead DEF Body
<1>4. \E refused :
         /\ Missing \in refused
         /\ \/ i # 0 /\ Point(p, b, ts) = PointOf(b.series[i], refused)
            \/ i = 0 /\ Point(p, b, ts) = PointOf(b.series[1], refused)
  <2> HIDE DEF i
  <2>0. i = Closest(b.series, ts)
    BY DEF i
  <2>1. CASE p = "open-meteo"
    BY <1>3, <2>0, <2>1 DEF IsPoint, Point, OpenMeteoPoint
  <2>2. CASE p = "nasa-power"
    BY <1>3, <2>0, <2>2 DEF IsPoint, Point, NASAPowerPoint
  <2>3. CASE p = "pvgis"
    BY <1>3, <2>0, <2>3 DEF IsPoint, Point, PVGISPoint
  <2> QED
    BY <2>1, <2>2, <2>3 DEF Providers
<1>5. /\ Readable(b.series) = {} => i = 0
      /\ Readable(b.series) # {} => i \in DOMAIN b.series
  BY ClosestOfBody DEF Readable
<1>6. 0 \notin DOMAIN b.series
  BY DEF Body
<1> HIDE DEF i
<1>7. CASE Readable(b.series) # {}
  <2>1. i \in DOMAIN b.series /\ i # 0
    BY <1>5, <1>6, <1>7
  <2> QED
    BY <1>2, <1>4, <2>1 DEF i
<1>8. CASE Readable(b.series) = {}
  BY <1>2, <1>3, <1>4, <1>5, <1>8
<1> QED
  BY <1>7, <1>8

(* A call is suspended, failed, or holds a body.                           *)
LEMMA CallsTyped ==
    /\ \A phase \in InFlight \cup {"idle"} : At(phase) \in Call /\ At(phase).at = phase
    /\ \A code \in Codes : Failed(code) \in Call /\ Failed(code).at = "failed"
    /\ \A p \in Providers : \A b \in Bodies[p] :
          Answered(b) \in Call /\ Answered(b).at = "answered" /\ Answered(b).body = b
<1>1. \A phase \in InFlight \cup {"idle"} : At(phase) \in Call /\ At(phase).at = phase
  BY DEF Call, At
<1>2. \A code \in Codes : Failed(code) \in Call /\ Failed(code).at = "failed"
  BY DEF Call, Failed
<1>3. ASSUME NEW p \in Providers, NEW b \in Bodies[p]
      PROVE  Answered(b) \in Call /\ Answered(b).at = "answered" /\ Answered(b).body = b
  <2>1. Answered(b) \in Call
    <3> DEFINE answers(q) == {Answered(x) : x \in Bodies[q]}
    <3>1. Answered(b) \in answers(p)
      OBVIOUS
    <3>2. answers(p) \in {answers(q) : q \in Providers}
      OBVIOUS
    <3> HIDE DEF answers
    <3>3. Answered(b) \in UNION {answers(q) : q \in Providers}
      BY <3>1, <3>2
    <3> QED
      BY <3>3 DEF Call, answers
  <2> QED
    BY <2>1 DEF Answered
<1> QED
  BY <1>1, <1>2, <1>3

(* The other way: what an answered call holds.                             *)
LEMMA AnsweredBody ==
    ASSUME WeatherTypeOK, NEW p \in Providers, calls[p].at = "answered"
    PROVE  calls[p].body \in Body /\ target \in Nat
<1>1. calls[p] \in Call
  BY DEF WeatherTypeOK
<1>2. PICK q \in Providers : \E b \in Bodies[q] : calls[p] = Answered(b)
  <2>1. calls[p] \notin {At(phase) : phase \in InFlight \cup {"idle"}}
    BY DEF At, InFlight
  <2>2. calls[p] \notin {Failed(code) : code \in Codes}
    BY DEF Failed
  <2> QED
    BY <1>1, <2>1, <2>2 DEF Call
<1>3. calls[p].body \in Bodies[q]
  BY <1>2 DEF Answered
<1> QED
  BY <1>3, WeatherAssumption DEF WeatherTypeOK

(* The points of a settled fetch: one reading of each service that         *)
(* answered.                                                               *)
LEMMA ReadingTyped ==
    ASSUME WeatherTypeOK, NEW p \in Providers
    PROVE  /\ Reading(p) \in Seq(Int)
           /\ Len(Reading(p)) = IF calls[p].at = "answered" THEN 1 ELSE 0
<1>1. CASE calls[p].at = "answered"
  <2>1. calls[p].body \in Body /\ target \in Nat /\ IsPoint(p, calls[p].body, target)
    BY <1>1, AnsweredBody DEF WeatherTypeOK
  <2>2. Point(p, calls[p].body, target).ghi \in Int
    BY <2>1, PointIsReading
  <2>3. Reading(p) = <<Point(p, calls[p].body, target).ghi>>
    BY <1>1 DEF Reading
  <2> QED
    BY <1>1, <2>2, <2>3
<1>2. CASE calls[p].at # "answered"
  BY <1>2 DEF Reading
<1> QED
  BY <1>1, <1>2

LEMMA CountProviders ==
    ASSUME NEW S, S \subseteq Providers
    PROVE  Cardinality(S) = (IF "open-meteo" \in S THEN 1 ELSE 0)
                                + (IF "nasa-power" \in S THEN 1 ELSE 0)
                                + (IF "pvgis" \in S THEN 1 ELSE 0)
<1> DEFINE T == S \ {"pvgis"}
           U == T \ {"nasa-power"}
           none == U \ {"open-meteo"}
<1>1. IsFiniteSet(Providers)
  <2>1. IsFiniteSet({"pvgis"})
    BY FS_Singleton
  <2>2. IsFiniteSet({"pvgis"} \cup {"nasa-power"})
    BY <2>1, FS_AddElement
  <2>3. IsFiniteSet(({"pvgis"} \cup {"nasa-power"}) \cup {"open-meteo"})
    BY <2>2, FS_AddElement
  <2>4. Providers = ({"pvgis"} \cup {"nasa-power"}) \cup {"open-meteo"}
    BY DEF Providers
  <2> QED
    BY <2>3, <2>4
<1>2. none = {} /\ ("nasa-power" \in T <=> "nasa-power" \in S)
                /\ ("open-meteo" \in U <=> "open-meteo" \in S)
  <2>1. \A p \in S : p = "open-meteo" \/ p = "nasa-power" \/ p = "pvgis"
    BY DEF Providers
  <2> QED
    BY <2>1
<1>3. IsFiniteSet(S)
  BY <1>1, FS_Subset
<1>4. IsFiniteSet(T) /\ Cardinality(S) = Cardinality(T) + (IF "pvgis" \in S THEN 1 ELSE 0)
  BY <1>3, CountStep
<1>5. /\ IsFiniteSet(U)
      /\ Cardinality(T) = Cardinality(U) + (IF "nasa-power" \in T THEN 1 ELSE 0)
  <2> HIDE DEF T
  <2> QED
    BY <1>4, CountStep
<1>6. Cardinality(U) = Cardinality(none) + (IF "open-meteo" \in U THEN 1 ELSE 0)
  <2> HIDE DEF U
  <2> QED
    BY <1>5, CountStep
<1>7. Cardinality(none) = 0
  BY <1>2, FS_EmptySet
<1> HIDE DEF T, U, none
<1> QED
  BY <1>2, <1>4, <1>5, <1>6, <1>7

LEMMA Joined ==
    ASSUME NEW a \in Seq(Int), NEW b \in Seq(Int)
    PROVE  a \o b \in Seq(Int) /\ Len(a \o b) = Len(a) + Len(b)
  OBVIOUS

LEMMA PointsTyped ==
    ASSUME WeatherTypeOK
    PROVE  /\ Points \in Seq(Int)
           /\ Len(Points) <= 3
           /\ Len(Points) = Cardinality({p \in Providers : calls[p].at = "answered"})
<1> DEFINE answered == {p \in Providers : calls[p].at = "answered"}
           om == Reading("open-meteo")
           np == Reading("nasa-power")
           pv == Reading("pvgis")
<1>1. /\ om \in Seq(Int) /\ Len(om) = IF "open-meteo" \in answered THEN 1 ELSE 0
      /\ np \in Seq(Int) /\ Len(np) = IF "nasa-power" \in answered THEN 1 ELSE 0
      /\ pv \in Seq(Int) /\ Len(pv) = IF "pvgis" \in answered THEN 1 ELSE 0
  BY ReadingTyped DEF Providers
<1>2. answered \subseteq Providers
  OBVIOUS
<1>3. Points = om \o np \o pv
  BY DEF Points
<1> HIDE DEF om, np, pv, answered
<1>4. om \o np \in Seq(Int) /\ Len(om \o np) = Len(om) + Len(np)
  BY <1>1, Joined, Zenon
<1>5. Points \in Seq(Int) /\ Len(Points) = Len(om) + Len(np) + Len(pv)
  <2>1. /\ (om \o np) \o pv \in Seq(Int)
        /\ Len((om \o np) \o pv) = Len(om \o np) + Len(pv)
    BY <1>1, <1>4, Joined, Zenon
  <2> QED
    BY <1>3, <1>4, <2>1, Zenon
<1>6. Len(Points) = Cardinality(answered) /\ Len(Points) <= 3
  BY <1>1, <1>2, <1>5, CountProviders
<1> QED
  BY <1>5, <1>6 DEF answered

(* The outcome of one step of one fetch.                                   *)
LEMMA SettleTyped ==
    ASSUME WeatherTypeOK, NEW p \in Providers, NEW call \in Call, NEW health \in BOOLEAN,
           calls[p] # Idle, Settle(p, call, health),
           call.at = "answered" => IsPoint(p, call.body, target)
    PROVE  WeatherTypeOK'
<1>1. /\ calls' = [calls EXCEPT ![p] = call]
      /\ healthy' = [healthy EXCEPT ![p] = health]
      /\ UNCHANGED <<target, fetching, late, result>>
  BY DEF Settle
<1>2. fetching
  BY DEF WeatherTypeOK
<1>3. calls' \in [Providers -> Call] /\ healthy' \in [Providers -> BOOLEAN]
  BY <1>1 DEF WeatherTypeOK
<1>4. ASSUME NEW q \in Providers, calls'[q].at = "answered"
      PROVE  IsPoint(q, calls'[q].body, target)
  BY <1>1, <1>4 DEF WeatherTypeOK
<1> QED
  BY <1>1, <1>2, <1>3, <1>4 DEF WeatherTypeOK, IsPoint

(* Each fetch step, whatever its provider.                                 *)
LEMMA FetchStepTyped ==
    ASSUME WeatherTypeOK, NEW p \in Providers,
           FetchStep(p) \/ \E b \in Bodies[p] : ReadBody(p, b)
    PROVE  WeatherTypeOK'
<1>1. healthy[p] \in BOOLEAN
  BY DEF WeatherTypeOK
<1>2. \A phase \in InFlight : calls[p].at = phase => calls[p] # Idle
  BY DEF InFlight, Idle, At
<1>3. ASSUME NEW phase \in InFlight, NEW health \in BOOLEAN, calls[p].at \in InFlight,
             Settle(p, At(phase), health)
      PROVE  WeatherTypeOK'
  BY <1>2, <1>3, CallsTyped, SettleTyped DEF InFlight
<1>4. ASSUME NEW code \in Codes, NEW health \in BOOLEAN, calls[p].at \in InFlight,
             Settle(p, Failed(code), health)
      PROVE  WeatherTypeOK'
  BY <1>2, <1>4, CallsTyped, SettleTyped
<1>5. CASE TimesOut(p) \/ ConnectionFails(p)
  <2>1. /\ calls[p].at \in InFlight
        /\ \E health \in BOOLEAN : Settle(p, Failed("network"), health)
    BY <1>1, <1>5 DEF TimesOut, ConnectionFails, InFlight
  <2> QED
    BY <1>4, <2>1 DEF Codes
<1>6. CASE ServerError(p)
  <2>1. /\ calls[p].at \in InFlight
        /\ \/ Settle(p, At("pause"), healthy[p])
           \/ Settle(p, Failed("network"), FALSE)
    BY <1>6 DEF ServerError, InFlight
  <2> QED
    BY <1>1, <1>3, <1>4, <2>1 DEF Codes, InFlight
<1>7. CASE Retry(p)
  <2>1. calls[p].at \in InFlight /\ Settle(p, At("retry"), healthy[p])
    BY <1>7 DEF Retry, InFlight
  <2> QED
    BY <1>1, <1>3, <2>1 DEF InFlight
<1>8. CASE ClientError(p)
  <2>1. /\ calls[p].at \in InFlight
        /\ \E code \in Codes, health \in BOOLEAN : Settle(p, Failed(code), health)
    BY <1>1, <1>8 DEF ClientError, InFlight, Codes
  <2> QED
    BY <1>4, <2>1
<1>9. CASE HeadersArrive(p)
  <2>1. calls[p].at \in InFlight /\ Settle(p, At("body"), healthy[p])
    BY <1>9 DEF HeadersArrive, InFlight
  <2> QED
    BY <1>1, <1>3, <2>1 DEF InFlight
<1>10. ASSUME NEW b \in Bodies[p], ReadBody(p, b)
       PROVE  WeatherTypeOK'
  <2>1. calls[p].at = "body" /\ calls[p] # Idle
    BY <1>2, <1>10 DEF ReadBody, InFlight
  <2>2. CASE IsPoint(p, b, target)
    <3>1. Settle(p, Answered(b), TRUE)
      BY <1>10, <2>2 DEF ReadBody
    <3>2. Answered(b) \in Call /\ Answered(b).body = b
      BY CallsTyped
    <3> QED
      BY <2>1, <2>2, <3>1, <3>2, SettleTyped
  <2>3. CASE ~IsPoint(p, b, target)
    <3>1. Settle(p, Failed("malformed"), healthy[p])
      BY <1>10, <2>3 DEF ReadBody
    <3> QED
      BY <1>1, <1>4, <2>1, <3>1 DEF Codes, InFlight
  <2> QED
    BY <2>2, <2>3
<1> QED
  BY <1>5, <1>6, <1>7, <1>8, <1>9, <1>10 DEF FetchStep

(* Types are kept by every step.                                           *)
LEMMA WeatherStep == WeatherTypeOK /\ [WeatherNext]_weatherVars => WeatherTypeOK'
<1> SUFFICES ASSUME WeatherTypeOK, [WeatherNext]_weatherVars PROVE WeatherTypeOK'
  OBVIOUS
<1>1. ASSUME NEW ts \in Hours, EnsembleFetch(ts)
      PROVE  WeatherTypeOK'
  <2>1. /\ target' = ts /\ fetching' = TRUE /\ UNCHANGED <<late, healthy>>
        /\ result' = NoResult
        /\ calls' = [p \in Providers |-> IF ts = 0 THEN Failed("malformed")
                                         ELSE At("request")]
    BY <1>1 DEF EnsembleFetch
  <2>2. /\ Failed("malformed") \in Call /\ Failed("malformed").at # "answered"
        /\ At("request") \in Call /\ At("request").at # "answered"
    BY CallsTyped DEF Codes, InFlight
  <2>3. /\ calls' \in [Providers -> Call]
        /\ \A p \in Providers : calls'[p].at # "answered"
    BY <2>1, <2>2
  <2> QED
    BY <2>1, <2>3 DEF WeatherTypeOK
<1>2. CASE OpenMeteoFetch \/ NASAPowerFetch \/ PVGISFetch
  BY <1>2, FetchStepTyped DEF OpenMeteoFetch, NASAPowerFetch, PVGISFetch, Providers
<1>3. CASE Return \/ Abandon
  <2>1. /\ fetching' = FALSE /\ calls' = [p \in Providers |-> Idle]
        /\ late' \subseteq Providers /\ UNCHANGED <<target, healthy>>
    BY <1>3 DEF Return, Abandon, WeatherTypeOK
  <2>4. result' \in EnsembleResult \cup {NoResult}
    <3>1. classify(Points) \in EnsembleResult
      BY PointsTyped, ClassifyTyped
    <3> QED
      BY <1>3, <3>1 DEF Return, Abandon, WeatherTypeOK
  <2>2. Idle \in Call /\ Idle.at # "answered"
    BY CallsTyped DEF Idle
  <2>3. /\ calls' \in [Providers -> Call]
        /\ \A p \in Providers : calls'[p] = Idle /\ calls'[p].at # "answered"
    BY <2>1, <2>2
  <2> QED
    BY <2>1, <2>3, <2>4 DEF WeatherTypeOK
<1>4. ASSUME NEW p \in Providers, LateAnswer(p)
      PROVE  WeatherTypeOK'
  <2>1. /\ late' \subseteq Providers /\ healthy' \in [Providers -> BOOLEAN]
        /\ UNCHANGED <<target, fetching, calls, result>>
    BY <1>4 DEF LateAnswer, WeatherTypeOK
  <2> QED
    BY <2>1 DEF WeatherTypeOK, IsPoint
<1>5. CASE UNCHANGED weatherVars
  BY <1>5 DEF weatherVars, WeatherTypeOK, IsPoint
<1> QED
  BY <1>1, <1>2, <1>3, <1>4, <1>5 DEF WeatherNext

(* Types.  An answered fetch holds a body with a point in it until the     *)
(* ensemble returns, whatever late answers of an abandoned one do.         *)
THEOREM WeatherTypeCorrect == WeatherSpec => []WeatherTypeOK
<1>1. WeatherInit => WeatherTypeOK
  <2> SUFFICES ASSUME WeatherInit PROVE WeatherTypeOK
    OBVIOUS
  <2>1. Idle \in Call /\ Idle.at # "answered"
    BY CallsTyped DEF Idle
  <2>2. /\ calls \in [Providers -> Call]
        /\ \A p \in Providers : calls[p] = Idle /\ calls[p].at # "answered"
    BY <2>1 DEF WeatherInit
  <2> QED
    BY <2>2 DEF WeatherInit, WeatherTypeOK
<1> QED
  BY <1>1, WeatherStep, PTL DEF WeatherSpec

(* The loops over a series, which keep the best entry met so far, end with *)
(* the readable hour nearest to the one asked for: for series of any       *)
(* length, order and content (findClosestPoint).                           *)
THEOREM NearestHourIsUsed == WeatherSpec => []PointsAreNearest
<1>1. WeatherTypeOK => PointsAreNearest
  <2> SUFFICES ASSUME WeatherTypeOK, NEW p \in Providers, calls[p].at = "answered",
                      Readable(calls[p].body.series) # {}
               PROVE  LET s == calls[p].body.series
                          used == Point(p, calls[p].body, target)
                      IN  /\ used.time # Unreadable
                          /\ \A i \in Readable(s) :
                                Distance(used.time, target) <= Distance(s[i].time, target)
    BY DEF PointsAreNearest
  <2>1. calls[p].body \in Body /\ target \in Nat
    BY AnsweredBody
  <2>2. IsPoint(p, calls[p].body, target)
    BY DEF WeatherTypeOK
  <2> DEFINE s == calls[p].body.series
  <2>3. Point(p, calls[p].body, target).time = s[Closest(s, target)].time
    BY <2>1, <2>2, PointIsReading
  <2>4. /\ Closest(s, target) \in Readable(s)
        /\ \A j \in Readable(s) :
              Distance(s[Closest(s, target)].time, target) <= Distance(s[j].time, target)
    BY <2>1, ClosestOfBody
  <2> QED
    BY <2>3, <2>4 DEF Readable
<1> QED
  BY <1>1, WeatherTypeCorrect, PTL

(* "ok" means that the sources agree (classify), whatever the services     *)
(* send, unless their median is negative: two or three readings whose      *)
(* spread is bounded by their median.  Of three, none decides alone,       *)
(* whatever the status and the sign; a failed service is not counted.      *)
THEOREM OkIsAgreement == WeatherSpec => []OkMeansAgreement
<1>1. WeatherTypeOK => OkMeansAgreement
  <2> SUFFICES ASSUME WeatherTypeOK PROVE OkMeansAgreement
    OBVIOUS
  <2> DEFINE r == classify(Points)
             n == Cardinality({p \in Providers : calls[p].at = "answered"})
             others(i) == {2 * Points[j] : j \in (1..3) \ {i}}
  <2>1. Points \in Seq(Int) /\ Len(Points) <= 3 /\ Len(Points) = n
    BY PointsTyped
  <2>2. /\ r.responded = n
        /\ r.status = "ok" => n >= 2 /\ (r.ghi2 >= 0 => Agree(Points, r.ghi2))
    <3> HIDE DEF n
    <3> QED
      BY <2>1, ClassifyTyped
  <2>3. ASSUME n = 3, NEW i \in 1..3
        PROVE  (\E v \in others(i) : v <= r.ghi2) /\ (\E v \in others(i) : r.ghi2 <= v)
    <3>1. Len(Points) = 3
      BY <2>1, <2>3
    <3>2. /\ \E j \in (1..3) \ {i} : 2 * Points[j] <= r.ghi2
          /\ \E j \in (1..3) \ {i} : r.ghi2 <= 2 * Points[j]
      BY <2>1, <3>1, ClassifyTriple
    <3> HIDE DEF r
    <3> QED
      BY <3>2
  <2> QED
    BY <2>2, <2>3 DEF OkMeansAgreement
<1> QED
  BY <1>1, WeatherTypeCorrect, PTL

-----------------------------------------------------------------------------
(***************************************************************************)
(* Validation.                                                             *)
(***************************************************************************)
LEMMA FlagsTyped == \A s, w, z, d : evaluateAnomaly(s, w, z, d) \subseteq Flags
  BY DEF evaluateAnomaly

LEMMA ScoreTyped ==
    \A rows, s, today : computeEnergyZScore(rows, s, today) \in {Null, "inside", "outlier"}
  BY DEF computeEnergyZScore, Score

LEMMA DriftTyped == \A rows, d, today : detectDrift(rows, d, today) \in BOOLEAN
<1>1. ASSUME NEW recent, NEW baseline, NEW spreadOf
      PROVE  MeansDiffer(recent, baseline, spreadOf) \in BOOLEAN
  <2> DEFINE nr == Size(recent)
             nb == Size(baseline)
             n  == Size(spreadOf)
             d  == nb * Total(recent) - nr * Total(baseline)
             a  == nr > 0
             b  == nb > 0
             c  == n > 1
             e  == Variance(spreadOf) # 0
             f  == d * d * n * (n - 1)
                      > DRIFT_THRESHOLD_STD * DRIFT_THRESHOLD_STD * nr * nr * nb * nb
                            * Variance(spreadOf)
  <2>1. MeansDiffer(recent, baseline, spreadOf) = (/\ a /\ b /\ c /\ e /\ f)
    BY Zenon DEF MeansDiffer
  <2> HIDE DEF a, b, c, e, f
  <2>2. (/\ a /\ b /\ c /\ e /\ f) \in BOOLEAN
    BY Zenon
  <2> QED
    BY <2>1, <2>2, Zenon
<1> QED
  BY <1>1, Zenon DEF detectDrift

(* What Persist stores of a call whose three promises are settled.         *)
LEMMA InsertTyped ==
    ASSUME ValidationTypeOK, NoAnswer \notin {running, ensemble, zscore, drift}, Insert
    PROVE  \E row \in Row : row.call = started /\ history' = Append(history, row)
<1> DEFINE row == [call |-> started, deviceId |-> running.deviceId, energy |-> running.energy,
                   status |-> ensemble.status, submittedAt |-> day,
                   flags |-> evaluateAnomaly(running, ensemble, zscore, drift)]
<1>1. running \in Submissions /\ ensemble \in EnsembleResult
  BY DEF ValidationTypeOK
<1>2. running.deviceId \in DeviceIds /\ running.energy \in Nat
  BY <1>1, ValidationAssumption
<1>3. ensemble.status \in Statuses
  BY <1>1 DEF EnsembleResult
<1>4. started \in Nat /\ day \in Nat
  BY ValidationAssumption DEF ValidationTypeOK
<1>5. row \in Row
  BY <1>2, <1>3, <1>4, FlagsTyped DEF Row
<1>6. history' = Append(history, row)
  BY DEF Insert
<1> QED
  BY <1>5, <1>6

(* A history with one more row.                                            *)
LEMMA Appended ==
    ASSUME NEW R, NEW s \in Seq(R), NEW row \in R
    PROVE  /\ Append(s, row) \in Seq(R)
           /\ Len(s) \in Nat
           /\ DOMAIN s = 1..Len(s)
           /\ DOMAIN Append(s, row) = 1..(Len(s) + 1)
           /\ \A i \in 1..Len(s) : Append(s, row)[i] = s[i]
           /\ Append(s, row)[Len(s) + 1] = row
  OBVIOUS

LEMMA PersistCases ==
    ASSUME ValidationTypeOK, Persist
    PROVE  /\ running' = NoAnswer /\ ensemble' = NoAnswer /\ zscore' = NoAnswer
           /\ drift' = NoAnswer /\ UNCHANGED <<day, started>>
           /\ running # NoAnswer
           /\ \/ UNCHANGED history /\ UNCHANGED returned
              \/ /\ \E row \in Row : row.call = started /\ history' = Append(history, row)
                 /\ returned' = returned \/ returned' = returned \cup {started}
<1>1. NoAnswer \notin {running, ensemble, zscore, drift} /\ Leave
  BY DEF Persist
<1>2. \/ UNCHANGED history /\ UNCHANGED returned
      \/ Insert /\ (returned' = returned \/ returned' = returned \cup {started})
  BY DEF Persist
<1> QED
  BY <1>1, <1>2, InsertTyped DEF Leave

(* The inductive invariant.  A call's number is its own: rows and outcomes *)
(* carry numbers that were given out, each at most one row, and the call   *)
(* under way has neither.  The types alone are not inductive: that a call  *)
(* which returns has a number of 1 or more needs the last conjunct.        *)
CallInv ==
    /\ \A i, j \in DOMAIN history :
          history[i].call = history[j].call /\ history[i].call >= 1 => i = j
    /\ \A i \in DOMAIN history : history[i].call <= started
    /\ \A call \in returned : \E i \in DOMAIN history : history[i].call = call
    /\ running # NoAnswer =>
          /\ started >= 1 /\ started \notin returned
          /\ \A i \in DOMAIN history : history[i].call # started

ValidationInv == ValidationTypeOK /\ CallInv

(* Types are kept by every step.                                           *)
LEMMA ValidationTypeStep ==
    ValidationInv /\ [ValidationNext]_validationVars => ValidationTypeOK'
<1> SUFFICES ASSUME ValidationTypeOK, CallInv, [ValidationNext]_validationVars
             PROVE  ValidationTypeOK'
  BY DEF ValidationInv
<1> USE ValidationAssumption
<1>1. ASSUME NEW s \in Submissions, process(s)
      PROVE  ValidationTypeOK'
  <2>1. returned \subseteq 1..(started + 1) /\ started + 1 \in 0..MaxCalls
    BY <1>1 DEF process, ValidationTypeOK
  <2>2. running = NoAnswer /\ \A p \in {ensemble, zscore, drift} : p = NoAnswer
    BY <1>1 DEF process, ValidationTypeOK
  <2>3. \A p \in {ensemble, zscore, drift}' : p = NoAnswer
    BY <1>1, <2>2 DEF process, promises
  <2> QED
    BY <1>1, <2>1, <2>3 DEF process, promises, ValidationTypeOK
<1>2. CASE EnsembleAnswers
  <2>1. ensemble' \in EnsembleResult
    BY <1>2, ClassifyTyped DEF EnsembleAnswers
  <2> QED
    BY <1>2, <2>1 DEF EnsembleAnswers, ValidationTypeOK
<1>3. CASE ZScoreAnswers
  <2>1. zscore' \in {Null, "inside", "outlier"}
    BY <1>3, ScoreTyped DEF ZScoreAnswers
  <2> QED
    BY <1>3, <2>1 DEF ZScoreAnswers, ValidationTypeOK
<1>4. CASE DriftAnswers
  <2>1. drift' \in BOOLEAN
    BY <1>4, DriftTyped DEF DriftAnswers
  <2> QED
    BY <1>4, <2>1 DEF DriftAnswers, ValidationTypeOK
<1>5. CASE QueryFails
  BY <1>5 DEF QueryFails, Leave, ValidationTypeOK
<1>6. CASE Persist
  <2>1. history' \in Seq(Row) /\ returned' \subseteq 1..started
    <3>1. started \in 1..started
      <4>1. started \in Nat /\ started >= 1
        BY <1>6, PersistCases DEF CallInv, ValidationTypeOK
      <4> QED
        BY <4>1
    <3>2. history \in Seq(Row) /\ returned \subseteq 1..started
      BY DEF ValidationTypeOK
    <3>3. \A row \in Row : Append(history, row) \in Seq(Row)
      BY <3>2, Appended
    <3>4. \/ history' = history /\ returned' = returned
          \/ /\ \E row \in Row : history' = Append(history, row)
             /\ returned' = returned \/ returned' = returned \cup {started}
      BY <1>6, PersistCases
    <3> QED
      BY <3>1, <3>2, <3>3, <3>4
  <2> QED
    BY <1>6, <2>1, PersistCases DEF ValidationTypeOK
<1>7. CASE NextDay
  BY <1>7 DEF NextDay, promises, ValidationTypeOK
<1>8. CASE UNCHANGED validationVars
  BY <1>8 DEF validationVars, promises, ValidationTypeOK
<1> QED
  BY <1>1, <1>2, <1>3, <1>4, <1>5, <1>6, <1>7, <1>8 DEF ValidationNext

(* Rows and numbers.  A row keeps its call; the new one is the only one of *)
(* its own.                                                                *)
LEMMA HistoryTyped ==
    ASSUME ValidationTypeOK
    PROVE  /\ Len(history) \in Nat /\ DOMAIN history = 1..Len(history)
           /\ \A i \in DOMAIN history : history[i] \in Row /\ history[i].call \in Nat
           /\ started \in Nat /\ returned \subseteq Nat
<1>1. history \in Seq(Row)
  BY DEF ValidationTypeOK
<1>2. /\ Len(history) \in Nat /\ DOMAIN history = 1..Len(history)
      /\ \A i \in DOMAIN history : history[i] \in Row
  BY <1>1
<1>3. \A r \in Row : r.call \in Nat
  BY DEF Row
<1>4. started \in Nat /\ returned \subseteq Nat
  BY ValidationAssumption DEF ValidationTypeOK
<1> QED
  BY <1>2, <1>3, <1>4

LEMMA CallStep == ValidationInv /\ [ValidationNext]_validationVars => CallInv'
<1> SUFFICES ASSUME ValidationTypeOK, CallInv, [ValidationNext]_validationVars
             PROVE  CallInv'
  BY DEF ValidationInv
<1>0. /\ Len(history) \in Nat /\ DOMAIN history = 1..Len(history)
      /\ \A i \in DOMAIN history : history[i] \in Row /\ history[i].call \in Nat
      /\ started \in Nat /\ returned \subseteq Nat
  BY HistoryTyped
<1>1. ASSUME NEW s \in Submissions, process(s)
      PROVE  CallInv'
  <2>1. /\ started' = started + 1 /\ UNCHANGED <<history, returned>>
    BY <1>1 DEF process
  <2>2. \A i \in DOMAIN history :
           history[i].call <= started + 1 /\ history[i].call # started + 1
    BY <1>0 DEF CallInv
  <2>3. started + 1 \notin returned /\ started + 1 >= 1
    BY <1>0 DEF CallInv, ValidationTypeOK
  <2> QED
    BY <2>1, <2>2, <2>3 DEF CallInv
<1>2. ASSUME UNCHANGED <<history, returned, started>>,
             running' = running \/ running' = NoAnswer
      PROVE  CallInv'
  BY <1>2 DEF CallInv
<1>3. CASE EnsembleAnswers \/ ZScoreAnswers \/ DriftAnswers
  BY <1>2, <1>3 DEF EnsembleAnswers, ZScoreAnswers, DriftAnswers
<1>4. CASE QueryFails
  BY <1>2, <1>4 DEF QueryFails, Leave
<1>5. CASE Persist
  <2>1. running' = NoAnswer /\ started' = started /\ running # NoAnswer
    BY <1>5, PersistCases
  <2>2. CASE UNCHANGED <<history, returned>>
    BY <1>2, <2>1, <2>2
  <2>3. ASSUME NEW row \in Row, row.call = started, history' = Append(history, row),
               returned' = returned \/ returned' = returned \cup {started}
        PROVE  CallInv'
    <3> DEFINE n == Len(history)
    <3>1. /\ DOMAIN history' = 1..(n + 1) /\ n \in Nat
          /\ \A i \in 1..n : history'[i] = history[i]
          /\ history'[n + 1] = row
      BY <2>3, Appended DEF ValidationTypeOK
    <3>2. \A i \in 1..(n + 1) : i \in 1..n \/ i = n + 1
      BY <3>1
    <3>3. \A i \in 1..n : history[i].call # started /\ history[i].call <= started
      BY <1>0, <2>1 DEF CallInv
    <3>4. \A i, j \in 1..n : history[i].call = history[j].call /\ history[i].call >= 1 => i = j
      BY <1>0 DEF CallInv
    <3>5. \A call \in returned : \E i \in 1..n : history[i].call = call
      BY <1>0 DEF CallInv
    <3>6. \A i \in 1..n : i \in 1..(n + 1)
      BY <3>1
    <3>7. n + 1 \in 1..(n + 1)
      BY <3>1
    <3>8. DOMAIN history = 1..n
      BY <1>0
    <3> HIDE DEF n
    <3>9. \A i, j \in DOMAIN history' :
             history'[i].call = history'[j].call /\ history'[i].call >= 1 => i = j
      BY <2>3, <3>1, <3>2, <3>3, <3>4
    <3>10. \A i \in DOMAIN history' : history'[i].call <= started
      BY <1>0, <2>3, <3>1, <3>2, <3>3
    <3>11. \A call \in returned' : \E i \in DOMAIN history' : history'[i].call = call
      BY <2>3, <3>1, <3>5, <3>6, <3>7
    <3> QED
      BY <2>1, <3>9, <3>10, <3>11 DEF CallInv
  <2> QED
    BY <1>5, <2>2, <2>3, PersistCases
<1>6. CASE NextDay
  BY <1>2, <1>6 DEF NextDay
<1>7. CASE UNCHANGED validationVars
  BY <1>2, <1>7 DEF validationVars
<1> QED
  BY <1>1, <1>3, <1>4, <1>5, <1>6, <1>7 DEF ValidationNext

THEOREM ValidationInvariant == ValidationSpec => []ValidationInv
<1>1. ValidationInit => ValidationInv
  <2> SUFFICES ASSUME ValidationInit PROVE ValidationTypeOK /\ CallInv
    BY DEF ValidationInv
  <2>1. history \in Seq(Row) /\ \A i \in DOMAIN history : history[i].call = 0
    BY ValidationAssumption DEF ValidationInit
  <2>2. ValidationTypeOK
    BY <2>1, ValidationAssumption DEF ValidationInit, ValidationTypeOK
  <2>3. CallInv
    BY <2>1 DEF ValidationInit, CallInv
  <2> QED
    BY <2>2, <2>3
<1>2. ValidationInv /\ [ValidationNext]_validationVars => ValidationInv'
  BY ValidationTypeStep, CallStep DEF ValidationInv
<1> QED
  BY <1>1, <1>2, PTL DEF ValidationSpec

(* Types of the pipeline's state, for any submissions, readings of at most *)
(* three providers, and histories.                                         *)
THEOREM ValidationTypeCorrect == ValidationSpec => []ValidationTypeOK
  BY ValidationInvariant, PTL DEF ValidationInv

(* A call of process that returned an outcome has stored its row, and no   *)
(* call ever stores two (persistReading), whichever query or insert fails. *)
THEOREM ReturnedIsStored == ValidationSpec => []ReturnedMeansStored
<1>1. ValidationInv => ReturnedMeansStored
  <2> SUFFICES ASSUME ValidationTypeOK, CallInv, NEW call \in 1..started
               PROVE  /\ Cardinality(RowsOf(call)) <= 1
                      /\ call \in returned => RowsOf(call) # {}
    BY DEF ValidationInv, ReturnedMeansStored
  <2>1. call >= 1
    OBVIOUS
  <2>2. \A i, j \in RowsOf(call) : i = j
    BY <2>1 DEF RowsOf, CallInv
  <2>3. CASE RowsOf(call) = {}
    <3>1. call \notin returned
      BY <2>3 DEF CallInv, RowsOf
    <3> QED
      BY <2>3, <3>1, FS_EmptySet
  <2>4. CASE RowsOf(call) # {}
    <3>1. PICK i : RowsOf(call) = {i}
      BY <2>2, <2>4
    <3> QED
      BY <2>4, <3>1, FS_Singleton
  <2> QED
    BY <2>3, <2>4
<1> QED
  BY <1>1, ValidationInvariant, PTL

-----------------------------------------------------------------------------
(***************************************************************************)
(* Statistics.  A sum does not see how its terms are indexed; it splits    *)
(* over a part of the indices and the rest; and the squares of n terms add *)
(* up to an n-th of the square of their sum or more.                       *)
(***************************************************************************)
LEMMA SumMapped ==
    ASSUME NEW S, IsFiniteSet(S), NEW b, NEW f, NEW g,
           \A x \in S : f[x] \in Int /\ g[b[x]] = f[x],
           \A x, y \in S : b[x] = b[y] => x = y
    PROVE  /\ IsFiniteSet({b[x] : x \in S})
           /\ Cardinality({b[x] : x \in S}) = Cardinality(S)
           /\ SumOn(g, {b[x] : x \in S}) = SumOn(f, S)
<1> DEFINE img(U) == {b[x] : x \in U}
           Good(U) == /\ IsFiniteSet(img(U))
                      /\ Cardinality(img(U)) = Cardinality(U)
                      /\ SumOn(g, img(U)) = SumOn(f, U)
           Bad == {U \in SUBSET S : ~Good(U)}
<1> SUFFICES ASSUME Bad # {} PROVE FALSE
  OBVIOUS
<1>1. PICK T \in Bad : \A U \in Bad : ~(Cardinality(U) < Cardinality(T))
  <2>1. Bad \subseteq SUBSET S
    OBVIOUS
  <2> HIDE DEF Bad
  <2> QED
    BY <2>1, SmallestExists
<1>2. T \in SUBSET S /\ IsFiniteSet(T) /\ ~Good(T)
  BY FS_Subset
<1>3. CASE T = {}
  <2>1. img(T) = {}
    BY <1>3
  <2> QED
    BY <1>2, <1>3, <2>1, FS_EmptySet, SumFirst
<1>4. CASE T # {}
  <2>1. PICK e \in T : TRUE
    BY <1>4
  <2> DEFINE U == T \ {e}
  <2>2. U \in SUBSET S /\ Cardinality(U) < Cardinality(T)
    BY <1>2, Smaller
  <2>3. Good(U)
    BY <1>1, <2>2
  <2>4. img(T) = img(U) \cup {b[e]} /\ b[e] \notin img(U)
    BY <1>2
  <2>5. IsFiniteSet(img(T)) /\ Cardinality(img(T)) = Cardinality(img(U)) + 1
    <3>1. IsFiniteSet(img(U))
      BY <2>3
    <3> DEFINE A == img(U)
               B == img(T)
               y == b[e]
    <3>2. IsFiniteSet(A) /\ B = A \cup {y} /\ y \notin A
      BY <2>4, <3>1
    <3> HIDE DEF A, B, y
    <3>3. IsFiniteSet(A \cup {y}) /\ Cardinality(A \cup {y}) = Cardinality(A) + 1
      BY <3>2, FS_AddElement
    <3>4. IsFiniteSet(B) /\ Cardinality(B) = Cardinality(A) + 1
      BY <3>2, <3>3
    <3> QED
      BY <3>4 DEF A, B
  <2>6. Cardinality(T) = Cardinality(U) + 1
    BY <1>2, CountStep
  <2>7. SumOn(f, T) = f[e] + SumOn(f, U)
    BY <1>2, SumStep
  <2>8. SumOn(g, img(T)) = g[b[e]] + SumOn(g, img(T) \ {b[e]})
    <3>1. \A y \in img(T) : g[y] \in Int
      BY <1>2
    <3>2. b[e] \in img(T)
      OBVIOUS
    <3> HIDE DEF img
    <3> QED
      BY <2>5, <3>1, <3>2, SumStep
  <2>9. img(T) \ {b[e]} = img(U)
    BY <2>4
  <2>10. g[b[e]] = f[e]
    BY <1>2
  <2> HIDE DEF img, U
  <2> QED
    BY <1>2, <2>3, <2>5, <2>6, <2>7, <2>8, <2>9, <2>10
<1> QED
  BY <1>3, <1>4

LEMMA SumSame ==
    ASSUME NEW S, IsFiniteSet(S), NEW f, NEW g, \A x \in S : f[x] \in Int /\ g[x] = f[x]
    PROVE  SumOn(g, S) = SumOn(f, S)
<1> DEFINE b == [x \in S |-> x]
<1>1. {b[x] : x \in S} = S
  OBVIOUS
<1>2. /\ \A x \in S : f[x] \in Int /\ g[b[x]] = f[x]
      /\ \A x, y \in S : b[x] = b[y] => x = y
  OBVIOUS
<1>3. SumOn(g, {b[x] : x \in S}) = SumOn(f, S)
  <2> HIDE DEF b
  <2> QED
    BY <1>2, SumMapped
<1> QED
  BY <1>1, <1>3

LEMMA SumSplit ==
    ASSUME NEW S, IsFiniteSet(S), NEW f, \A x \in S : f[x] \in Int, NEW R, R \subseteq S
    PROVE  /\ SumOn(f, S) = SumOn(f, R) + SumOn(f, S \ R)
           /\ Cardinality(S) = Cardinality(R) + Cardinality(S \ R)
<1> DEFINE Good(U) == /\ SumOn(f, S) = SumOn(f, U) + SumOn(f, S \ U)
                      /\ Cardinality(S) = Cardinality(U) + Cardinality(S \ U)
           Bad == {U \in SUBSET S : ~Good(U)}
<1> SUFFICES ASSUME Bad # {} PROVE FALSE
  OBVIOUS
<1>1. PICK T \in Bad : \A U \in Bad : ~(Cardinality(U) < Cardinality(T))
  <2>1. Bad \subseteq SUBSET S
    OBVIOUS
  <2> HIDE DEF Bad
  <2> QED
    BY <2>1, SmallestExists
<1>2. T \in SUBSET S /\ IsFiniteSet(T) /\ ~Good(T)
  BY FS_Subset
<1>3. CASE T = {}
  <2>1. S \ T = S /\ SumOn(f, S) \in Int /\ Cardinality(S) \in Nat
    BY <1>3, SumTyped, FS_CardinalityType
  <2>2. SumOn(f, T) = 0 /\ Cardinality(T) = 0
    BY <1>2, <1>3, SumFirst, FS_EmptySet
  <2>3. Good(T)
    BY <2>1, <2>2
  <2> QED
    BY <1>2, <2>3
<1>4. CASE T # {}
  <2>1. PICK e \in T : TRUE
    BY <1>4
  <2> DEFINE U == T \ {e}
             C == S \ T
             D == S \ U
  <2>2. U \in SUBSET S /\ Cardinality(U) < Cardinality(T)
    BY <1>2, Smaller
  <2>3. Good(U)
    BY <1>1, <2>2
  <2>4. D \ {e} = C /\ e \in D /\ D \subseteq S
    BY <1>2
  <2>5. IsFiniteSet(U) /\ IsFiniteSet(C) /\ IsFiniteSet(D)
    BY <1>2, FS_Subset
  <2>6. SumOn(f, T) = f[e] + SumOn(f, U) /\ Cardinality(T) = Cardinality(U) + 1
    <3>1. \A x \in T : f[x] \in Int
      BY <1>2
    <3>2. SumOn(f, T) = f[e] + SumOn(f, U)
      BY <1>2, <3>1, SumStep
    <3>3. Cardinality(T) = Cardinality(U) + 1
      BY <1>2, CountStep
    <3> QED
      BY <3>2, <3>3
  <2>7. SumOn(f, D) = f[e] + SumOn(f, C) /\ Cardinality(D) = Cardinality(C) + 1
    <3>1. \A x \in D : f[x] \in Int
      BY <2>4
    <3> HIDE DEF D
    <3>2. SumOn(f, D) = f[e] + SumOn(f, D \ {e})
      BY <2>4, <2>5, <3>1, SumStep
    <3>3. Cardinality(D) = Cardinality(D \ {e}) + 1
      BY <2>4, <2>5, CountStep
    <3> QED
      BY <2>4, <3>2, <3>3
  <2>8. /\ f[e] \in Int /\ SumOn(f, U) \in Int /\ SumOn(f, C) \in Int
        /\ Cardinality(U) \in Nat /\ Cardinality(C) \in Nat
    <3>1. (\A x \in U : f[x] \in Int) /\ (\A x \in C : f[x] \in Int)
      BY <1>2
    <3> HIDE DEF C, D, U
    <3> QED
      BY <1>2, <2>5, <3>1, SumTyped, FS_CardinalityType
  <2>9. /\ SumOn(f, S) = SumOn(f, U) + SumOn(f, D)
        /\ Cardinality(S) = Cardinality(U) + Cardinality(D)
    BY <2>3
  <2>10. ~(/\ SumOn(f, S) = SumOn(f, T) + SumOn(f, C)
           /\ Cardinality(S) = Cardinality(T) + Cardinality(C))
    BY <1>2
  <2> HIDE DEF U, C, D
  <2> QED
    BY <2>6, <2>7, <2>8, <2>9, <2>10
<1> QED
  BY <1>3, <1>4

(* Arithmetic of the induction step of the next lemma.                     *)
LEMMA SquareAdded ==
    ASSUME NEW n \in Nat, NEW q \in Int, NEW s \in Int, NEW x \in Int, n * q >= s * s,
           n = 0 => q = 0 /\ s = 0
    PROVE  (n + 1) * (x * x + q) >= (x + s) * (x + s)
<1> DEFINE k == q + n * (x * x) - 2 * (s * x)
<1>1. (n + 1) * (x * x + q) - (x + s) * (x + s) = (n * q - s * s) + k
  OBVIOUS
<1>2. k >= 0
  <2>1. CASE n = 0
    BY <2>1
  <2>2. CASE n # 0
    <3>1. n * k = (n * q - s * s) + (s - n * x) * (s - n * x)
      OBVIOUS
    <3>2. (s - n * x) * (s - n * x) >= 0
      <4>1. \A z \in Int : z * z >= 0
        OBVIOUS
      <4>2. s - n * x \in Int
        OBVIOUS
      <4> QED
        BY <4>1, <4>2
    <3>3. n * k >= 0
      <4> DEFINE w == (s - n * x) * (s - n * x)
                 u == n * q
                 v == s * s
      <4>1. u \in Int /\ v \in Int /\ w \in Int /\ u >= v /\ w >= 0 /\ n * k = (u - v) + w
        BY <3>1, <3>2
      <4> HIDE DEF u, v, w, k
      <4> QED
        BY <4>1
    <3>4. k \in Int
      OBVIOUS
    <3> HIDE DEF k
    <3>5. \A a \in Nat, c \in Int : a # 0 /\ c < 0 => a * c < 0
      OBVIOUS
    <3> QED
      BY <2>2, <3>3, <3>4, <3>5
  <2> QED
    BY <2>1, <2>2
<1> DEFINE l == (n + 1) * (x * x + q)
           r == (x + s) * (x + s)
           u == n * q
           v == s * s
<1>3. /\ l \in Int /\ r \in Int /\ u \in Int /\ v \in Int /\ k \in Int
      /\ u >= v /\ l - r = (u - v) + k
  BY <1>1
<1> HIDE DEF l, r, u, v, k
<1>4. l >= r
  BY <1>2, <1>3
<1> QED
  BY <1>4 DEF l, r

LEMMA SquaresOutweigh ==
    ASSUME NEW S, IsFiniteSet(S), NEW f, NEW q,
           \A x \in S : f[x] \in Int /\ q[x] = f[x] * f[x]
    PROVE  Cardinality(S) * SumOn(q, S) >= SumOn(f, S) * SumOn(f, S)
<1> DEFINE Good(U) == Cardinality(U) * SumOn(q, U) >= SumOn(f, U) * SumOn(f, U)
           Bad == {U \in SUBSET S : ~Good(U)}
<1> SUFFICES ASSUME Bad # {} PROVE FALSE
  OBVIOUS
<1>1. PICK T \in Bad : \A U \in Bad : ~(Cardinality(U) < Cardinality(T))
  <2>1. Bad \subseteq SUBSET S
    OBVIOUS
  <2> HIDE DEF Bad
  <2> QED
    BY <2>1, SmallestExists
<1>2. T \in SUBSET S /\ IsFiniteSet(T) /\ ~Good(T)
  BY FS_Subset
<1>3. \A x \in T : f[x] \in Int /\ q[x] = f[x] * f[x] /\ q[x] \in Int
  BY <1>2
<1>4. CASE T = {}
  <2>1. SumOn(f, T) = 0 /\ SumOn(q, T) = 0 /\ Cardinality(T) = 0
    BY <1>2, <1>4, SumFirst, FS_EmptySet
  <2> QED
    BY <1>2, <2>1
<1>5. CASE T # {}
  <2>1. PICK e \in T : TRUE
    BY <1>5
  <2> DEFINE U == T \ {e}
             n == Cardinality(U)
             s == SumOn(f, U)
             p == SumOn(q, U)
             x == f[e]
  <2>2. U \in SUBSET S /\ Cardinality(U) < Cardinality(T) /\ IsFiniteSet(U)
    BY <1>2, Smaller
  <2>3. n * p >= s * s
    <3>1. Good(U)
      BY <1>1, <2>2
    <3> QED
      BY <3>1
  <2>4. SumOn(f, T) = x + s /\ SumOn(q, T) = x * x + p /\ Cardinality(T) = n + 1
    <3>1. q[e] = x * x
      BY <1>3
    <3>2. /\ IsFiniteSet(T)
          /\ \A y \in T : f[y] \in Int
          /\ \A y \in T : q[y] \in Int
      BY <1>2, <1>3
    <3> HIDE DEF Good, Bad, n, s, p, x
    <3>3. SumOn(f, T) = f[e] + SumOn(f, U)
      BY <3>2, SumStep
    <3>4. SumOn(q, T) = q[e] + SumOn(q, U)
      BY <3>2, SumStep
    <3>5. Cardinality(T) = Cardinality(U) + 1
      BY <3>2, CountStep
    <3> QED
      BY <3>1, <3>3, <3>4, <3>5 DEF n, s, p, x
  <2>5. n \in Nat /\ s \in Int /\ p \in Int /\ x \in Int
    <3>1. \A y \in U : f[y] \in Int /\ q[y] \in Int
      BY <1>3
    <3> HIDE DEF U
    <3> QED
      BY <1>3, <2>2, <3>1, SumTyped, FS_CardinalityType
  <2>6. n = 0 => p = 0 /\ s = 0
    <3>1. n = 0 => U = {}
      BY <2>2, FS_EmptySet
    <3> HIDE DEF U
    <3> QED
      BY <2>2, <3>1, SumFirst
  <2>7. ~((n + 1) * (x * x + p) >= (x + s) * (x + s))
    <3>1. ~(Cardinality(T) * SumOn(q, T) >= SumOn(f, T) * SumOn(f, T))
      BY <1>2
    <3> HIDE DEF n, s, p, x
    <3> QED
      BY <2>4, <3>1
  <2> HIDE DEF n, s, p, x, U
  <2> QED
    BY <2>3, <2>5, <2>6, <2>7, SquareAdded
<1> QED
  BY <1>4, <1>5

(* The deviation of the whole is at least what the parts' means differ by: *)
(* the arithmetic, for parts of a and b terms.                             *)
LEMMA BetweenParts ==
    ASSUME NEW a \in Nat, NEW b \in Nat, NEW p \in Int, NEW q \in Int,
           NEW s \in Int, NEW t \in Int, a * p >= s * s, b * q >= t * t
    PROVE  (a * b) * ((a + b) * (p + q) - (s + t) * (s + t))
               >= (b * s - a * t) * (b * s - a * t)
<1> DEFINE k == (a + b) * b
           l == (a + b) * a
           x == a * p - s * s
           y == b * q - t * t
           lhs == (a * b) * ((a + b) * (p + q) - (s + t) * (s + t))
           rhs == (b * s - a * t) * (b * s - a * t)
<1>1. lhs - rhs = k * x + l * y
  OBVIOUS
<1>2. k \in Nat /\ l \in Nat /\ lhs \in Int /\ rhs \in Int
  OBVIOUS
<1>3. x \in Nat /\ y \in Nat
  <2> DEFINE u == a * p
             v == s * s
             w == b * q
             z == t * t
  <2>1. u \in Int /\ v \in Int /\ w \in Int /\ z \in Int /\ u >= v /\ w >= z
    OBVIOUS
  <2> HIDE DEF u, v, w, z
  <2>2. u - v \in Nat /\ w - z \in Nat
    BY <2>1
  <2> QED
    BY <2>2 DEF u, v, w, z
<1> HIDE DEF k, l, x, y, lhs, rhs
<1>4. \A m, n \in Nat : m * n \in Nat
  OBVIOUS
<1>5. k * x \in Nat /\ l * y \in Nat
  BY <1>2, <1>3, <1>4
<1>6. lhs >= rhs
  BY <1>1, <1>2, <1>5
<1> QED
  BY <1>6 DEF lhs, rhs

(* ... and what detectDrift's threshold then says of their sizes.          *)
LEMMA Lopsided ==
    ASSUME NEW a \in Nat, NEW b \in Nat, NEW v \in Int, NEW d \in Int, a > 0, b > 0,
           (a * b) * v >= d * d,
           d * d * (a + b) * ((a + b) - 1) > 2 * 2 * a * a * b * b * v
    PROVE  (a - b) * (a - b) > a + b
<1> DEFINE c == a * b
           e == d * d
           n == (a + b) * ((a + b) - 1)
           w == c * v
<1>1. c \in Nat /\ e \in Nat /\ n \in Int /\ w \in Int /\ w >= e
  <2>1. \A z \in Int : z * z \in Int /\ z * z >= 0
    OBVIOUS
  <2> QED
    BY <2>1
<1>2. e * n > 4 * (c * w)
  <2>1. d * d * (a + b) * ((a + b) - 1) = e * n
    OBVIOUS
  <2>2. 2 * 2 * a * a * b * b * v = 4 * (c * w)
    OBVIOUS
  <2> QED
    BY <2>1, <2>2
<1>3. (a - b) * (a - b) = n - 4 * c + (a + b)
  OBVIOUS
<1>4. n > 4 * c
  <2> HIDE DEF c, e, n, w
  <2>1. c * w >= c * e
    <3>1. w - e \in Nat
      BY <1>1
    <3>2. \A i, j \in Nat : i * j \in Nat
      OBVIOUS
    <3>3. c * (w - e) \in Nat
      BY <1>1, <3>1, <3>2
    <3>4. c * (w - e) = c * w - c * e
      BY <1>1
    <3>5. c * w \in Int /\ c * e \in Int
      BY <1>1
    <3> DEFINE f == c * w
               g == c * e
               h == c * (w - e)
    <3>6. f \in Int /\ g \in Int /\ h \in Nat /\ h = f - g
      BY <3>3, <3>4, <3>5
    <3> HIDE DEF f, g, h
    <3>7. f >= g
      BY <3>6
    <3> QED
      BY <3>7 DEF f, g
  <2>2. e * (n - 4 * c) > 0
    <3> DEFINE f == c * w
               g == c * e
               h == e * n
    <3>1. f \in Int /\ g \in Int /\ h \in Int /\ h > 4 * f /\ f >= g
      BY <1>1, <1>2, <2>1
    <3>2. e * (n - 4 * c) = h - 4 * g
      BY <1>1
    <3> HIDE DEF f, g, h
    <3> QED
      BY <3>1, <3>2
  <2>3. \A i \in Nat, j \in Int : i * j > 0 => j > 0
    <3>1. \A i, j \in Nat : i * (-j) <= 0
      <4>1. \A i, j \in Nat : i * j >= 0 /\ i * (-j) = -(i * j)
        OBVIOUS
      <4> QED
        BY <4>1
    <3>2. ASSUME NEW i \in Nat, NEW j \in Int, i * j > 0, ~(j > 0)
          PROVE  FALSE
      <4>1. -j \in Nat /\ -(-j) = j
        BY <3>2
      <4>2. i * (-(-j)) <= 0
        BY <3>1, <4>1
      <4>3. i * j <= 0
        BY <4>1, <4>2
      <4>4. i * j \in Int
        OBVIOUS
      <4> QED
        BY <3>2, <4>3, <4>4
    <3> QED
      BY <3>2
  <2>4. n - 4 * c \in Int
    BY <1>1
  <2>5. n - 4 * c > 0
    BY <1>1, <2>2, <2>3, <2>4
  <2> QED
    BY <1>1, <2>5
<1> DEFINE square == (a - b) * (a - b)
<1>5. square \in Int /\ square = n - 4 * c + (a + b)
  BY <1>3
<1> HIDE DEF c, e, n, w, square
<1>6. square > a + b
  BY <1>1, <1>4, <1>5
<1> QED
  BY <1>6 DEF square

(* The statistics of some rows of a history, over functions of all rows.   *)
EnergyOf(rows) == [i \in DOMAIN rows |-> rows[i].energy]
SquareOf(rows) == [i \in DOMAIN rows |-> rows[i].energy * rows[i].energy]

LEMMA RowsTyped ==
    ASSUME NEW rows \in Seq(Row)
    PROVE  /\ Len(rows) \in Nat /\ DOMAIN rows = 1..Len(rows)
           /\ IsFiniteSet(DOMAIN rows)
           /\ \A i \in DOMAIN rows :
                 /\ EnergyOf(rows)[i] \in Nat
                 /\ EnergyOf(rows)[i] = rows[i].energy
                 /\ SquareOf(rows)[i] = EnergyOf(rows)[i] * EnergyOf(rows)[i]
<1>1. Len(rows) \in Nat /\ DOMAIN rows = 1..Len(rows) /\ \A i \in DOMAIN rows : rows[i] \in Row
  OBVIOUS
<1>2. \A r \in Row : r.energy \in Nat
  BY DEF Row
<1>3. IsFiniteSet(DOMAIN rows)
  BY <1>1, PositionsFinite
<1> QED
  BY <1>1, <1>2, <1>3 DEF EnergyOf, SquareOf

LEMMA Statistics ==
    ASSUME NEW rows \in Seq(Row), NEW I, I \subseteq DOMAIN rows
    PROVE  /\ Size(Energies(rows, I)) = Cardinality(I)
           /\ Total(Energies(rows, I)) = SumOn(EnergyOf(rows), I)
           /\ Variance(Energies(rows, I)) =
                 Cardinality(I) * SumOn(SquareOf(rows), I)
                     - SumOn(EnergyOf(rows), I) * SumOn(EnergyOf(rows), I)
<1> DEFINE e == Energies(rows, I)
           f == EnergyOf(rows)
           q == SquareOf(rows)
           sq == [i \in DOMAIN e |-> e[i] * e[i]]
<1>1. DOMAIN e = I /\ DOMAIN sq = I /\ \A i \in I : e[i] = rows[i].energy
  BY DEF Energies
<1>2. IsFiniteSet(I) /\ \A i \in I : f[i] \in Nat /\ e[i] = f[i] /\ q[i] = f[i] * f[i]
  BY <1>1, RowsTyped, FS_Subset
<1>3. \A i \in I : sq[i] = q[i] /\ q[i] \in Int /\ f[i] \in Int
  BY <1>1, <1>2
<1>4. Size(e) = Cardinality(I)
  BY <1>1 DEF Size
<1>5. Variance(e) = Size(e) * Total(sq) - Total(e) * Total(e)
  BY DEF Variance
<1> HIDE DEF e, f, q, sq
<1>6. Total(e) = SumOn(f, I)
  <2>1. Total(e) = SumOn(e, I)
    BY <1>1, TotalIsSum
  <2>2. \A i \in I : f[i] \in Int /\ e[i] = f[i]
    BY <1>2
  <2> QED
    BY <1>2, <2>1, <2>2, SumSame
<1>7. Total(sq) = SumOn(q, I)
  <2>1. Total(sq) = SumOn(sq, I)
    BY <1>1, TotalIsSum
  <2>2. \A i \in I : q[i] \in Int /\ sq[i] = q[i]
    BY <1>3
  <2> QED
    BY <1>2, <2>1, <2>2, SumSame
<1>8. Variance(e) = Cardinality(I) * SumOn(q, I) - SumOn(f, I) * SumOn(f, I)
  BY <1>4, <1>5, <1>6, <1>7
<1> QED
  BY <1>4, <1>6, <1>8 DEF e, f, q

(* detectDrift's flag needs a history that is lopsided, whatever the       *)
(* readings: the deviation of the whole window grows with the gap between  *)
(* the two means, and like parts never outgrow it.                         *)
THEOREM DriftIsLopsided == ValidationSpec => []DriftNeedsLopsidedHistory
<1>1. ValidationTypeOK => DriftNeedsLopsidedHistory
  <2> SUFFICES ASSUME ValidationTypeOK, NEW dev \in DeviceIds, detectDrift(history, dev, day)
               PROVE  LET mine == Recorded(history, dev, day)
                          r == Cardinality({i \in mine : Within(history[i], RECENT_DAYS, day)})
                          b == Cardinality(mine) - r
                      IN  (r - b) * (r - b) > r + b
    BY DEF DriftNeedsLopsidedHistory
  <2> DEFINE mine == Recorded(history, dev, day)
             recent == {i \in mine : Within(history[i], RECENT_DAYS, day)}
             rest == mine \ recent
             f == EnergyOf(history)
             q == SquareOf(history)
             a == Cardinality(recent)
             b == Cardinality(rest)
             s == SumOn(f, recent)
             t == SumOn(f, rest)
             x == SumOn(q, recent)
             y == SumOn(q, rest)
             v == (a + b) * (x + y) - (s + t) * (s + t)
             d == b * s - a * t
  <2>1. history \in Seq(Row)
    BY DEF ValidationTypeOK
  <2>2. mine \subseteq DOMAIN history /\ recent \subseteq mine /\ rest \subseteq mine
    BY DEF Recorded
  <2>3. IsFiniteSet(mine) /\ IsFiniteSet(recent) /\ IsFiniteSet(rest)
    BY <2>1, <2>2, RowsTyped, FS_Subset
  <2>4. \A i \in mine : f[i] \in Int /\ q[i] \in Int /\ q[i] = f[i] * f[i]
    <3>1. \A i \in DOMAIN history : f[i] \in Nat /\ q[i] = f[i] * f[i]
      BY <2>1, RowsTyped
    <3> HIDE DEF f, q, mine
    <3> QED
      BY <2>2, <3>1
  <2>5. MeansDiffer(Energies(history, recent), Energies(history, rest),
                    Energies(history, mine))
    BY DEF detectDrift
  <2>6. /\ Cardinality(mine) = a + b
        /\ SumOn(f, mine) = s + t
        /\ SumOn(q, mine) = x + y
    <3> HIDE DEF f, q, mine, recent
    <3>1. /\ SumOn(f, mine) = SumOn(f, recent) + SumOn(f, mine \ recent)
          /\ Cardinality(mine) = Cardinality(recent) + Cardinality(mine \ recent)
      BY <2>2, <2>3, <2>4, SumSplit
    <3>2. SumOn(q, mine) = SumOn(q, recent) + SumOn(q, mine \ recent)
      BY <2>2, <2>3, <2>4, SumSplit
    <3> QED
      BY <3>1, <3>2
  <2>7. a \in Nat /\ b \in Nat /\ s \in Int /\ t \in Int /\ x \in Int /\ y \in Int
    <3> HIDE DEF f, q, mine, recent, rest
    <3> QED
      BY <2>2, <2>3, <2>4, SumTyped, FS_CardinalityType
  <2>8. a * x >= s * s /\ b * y >= t * t
    <3> HIDE DEF f, q, mine, recent, rest
    <3> QED
      BY <2>2, <2>3, <2>4, SquaresOutweigh
  <2>9. /\ Size(Energies(history, recent)) = a /\ Total(Energies(history, recent)) = s
        /\ Size(Energies(history, rest)) = b /\ Total(Energies(history, rest)) = t
        /\ Size(Energies(history, mine)) = a + b /\ Variance(Energies(history, mine)) = v
    <3> HIDE DEF mine, recent, rest
    <3>1. /\ recent \subseteq DOMAIN history /\ rest \subseteq DOMAIN history
          /\ mine \subseteq DOMAIN history
      BY <2>2
    <3> QED
      BY <2>1, <2>6, <3>1, Statistics
  <2>10. /\ a > 0 /\ b > 0
         /\ d * d * (a + b) * ((a + b) - 1) > 2 * 2 * a * a * b * b * v
    <3> HIDE DEF a, b, s, t, v, mine, recent, rest
    <3> QED
      BY <2>5, <2>9 DEF MeansDiffer, DRIFT_THRESHOLD_STD
  <2>11. (a * b) * v >= d * d
    <3> HIDE DEF a, b, s, t, x, y
    <3> QED
      BY <2>7, <2>8, BetweenParts
  <2>12. (a - b) * (a - b) > a + b
    <3>1. v \in Int /\ d \in Int
      BY <2>7
    <3> HIDE DEF a, b, v, d
    <3> QED
      BY <2>7, <2>10, <2>11, <3>1, Lopsided
  <2>13. Cardinality(mine) - a = b
    BY <2>6, <2>7
  <2> QED
    BY <2>12, <2>13
<1> QED
  BY <1>1, ValidationTypeCorrect, PTL

(* The history without its i-th row, row for row.                          *)
LEMMA WithoutRow ==
    ASSUME NEW rows \in Seq(Row), NEW i \in DOMAIN rows
    PROVE  LET w == [j \in 1..(Len(rows) - 1) |-> IF j < i THEN rows[j] ELSE rows[j + 1]]
               b == [j \in DOMAIN w |-> IF j < i THEN j ELSE j + 1]
           IN  /\ w \in Seq(Row) /\ DOMAIN w = 1..(Len(rows) - 1)
               /\ \A j \in DOMAIN w : b[j] \in DOMAIN rows \ {i} /\ w[j] = rows[b[j]]
               /\ \A j, k \in DOMAIN w : b[j] = b[k] => j = k
               /\ \A k \in DOMAIN rows \ {i} : \E j \in DOMAIN w : b[j] = k
<1> DEFINE n == Len(rows)
           w == [j \in 1..(n - 1) |-> IF j < i THEN rows[j] ELSE rows[j + 1]]
           b == [j \in DOMAIN w |-> IF j < i THEN j ELSE j + 1]
<1>1. n \in Nat /\ DOMAIN rows = 1..n /\ \A j \in 1..n : rows[j] \in Row
  BY RowsTyped
<1>2. i \in 1..n /\ n - 1 \in Nat
  BY <1>1
<1>3. DOMAIN w = 1..(n - 1)
  OBVIOUS
<1>4. \A j \in 1..(n - 1) : j \in 1..n /\ j + 1 \in 1..n
  BY <1>1
<1>5. w \in Seq(Row)
  <2>1. \A j \in 1..(n - 1) : w[j] \in Row
    BY <1>1, <1>4
  <2>2. w \in [1..(n - 1) -> Row]
    BY <2>1
  <2> HIDE DEF w, n
  <2> QED
    BY <1>2, <2>2
<1>6. \A j \in DOMAIN w : b[j] \in DOMAIN rows \ {i} /\ w[j] = rows[b[j]]
  BY <1>1, <1>2, <1>4
<1>7. \A j, k \in DOMAIN w : b[j] = b[k] => j = k
  BY <1>1, <1>2
<1>8. ASSUME NEW k \in DOMAIN rows \ {i} PROVE \E j \in DOMAIN w : b[j] = k
  <2>1. k \in 1..n /\ k # i
    BY <1>1
  <2>2. CASE k < i
    <3>1. k \in DOMAIN w /\ b[k] = k
      BY <1>1, <1>2, <2>1, <2>2
    <3> QED
      BY <3>1
  <2>3. CASE ~(k < i)
    <3>1. k - 1 \in DOMAIN w /\ b[k - 1] = k
      BY <1>1, <1>2, <2>1, <2>3
    <3> QED
      BY <3>1
  <2> QED
    BY <2>2, <2>3
<1> QED
  BY <1>3, <1>5, <1>6, <1>7, <1>8

(* A row that the quality filter rejects has no part in any z-score        *)
(* (computeEnergyZScore): without it, every score is what it was.          *)
THEOREM ScoreIsFiltered == ValidationSpec => []ScoreIgnoresUntrusted
<1>1. ValidationTypeOK => ScoreIgnoresUntrusted
  <2> SUFFICES ASSUME ValidationTypeOK, NEW i \in DOMAIN history, ~TrustedRow(history[i]),
                      NEW sub \in Submissions
               PROVE  computeEnergyZScore(Without(i), sub, day)
                          = computeEnergyZScore(history, sub, day)
    BY DEF ScoreIgnoresUntrusted
  <2> DEFINE w == Without(i)
             b == [j \in DOMAIN w |-> IF j < i THEN j ELSE j + 1]
             counts(row) == /\ row.deviceId = sub.deviceId
                            /\ Within(row, WINDOW_DAYS, day)
                            /\ TrustedRow(row)
             J == {j \in DOMAIN w : counts(w[j])}
             K == {k \in DOMAIN history : counts(history[k])}
  <2>1. history \in Seq(Row)
    BY DEF ValidationTypeOK
  <2>2. /\ w \in Seq(Row)
        /\ \A j \in DOMAIN w : b[j] \in DOMAIN history \ {i} /\ w[j] = history[b[j]]
        /\ \A j, k \in DOMAIN w : b[j] = b[k] => j = k
        /\ \A k \in DOMAIN history \ {i} : \E j \in DOMAIN w : b[j] = k
    BY <2>1, WithoutRow DEF Without
  <2>3. J \subseteq DOMAIN w /\ K \subseteq DOMAIN history
    OBVIOUS
  <2>4. {b[j] : j \in J} = K
    <3>1. ~counts(history[i])
      OBVIOUS
    <3> HIDE DEF w, b, counts
    <3>2. \A j \in J : b[j] \in K
      BY <2>2
    <3>3. \A k \in K : \E j \in J : b[j] = k
      BY <2>2, <3>1
    <3> QED
      BY <3>2, <3>3
  <2>5. /\ computeEnergyZScore(w, sub, day) = Score(sub.energy, Energies(w, J))
        /\ computeEnergyZScore(history, sub, day) = Score(sub.energy, Energies(history, K))
    <3>1. /\ {j \in Recorded(w, sub.deviceId, day) : TrustedRow(w[j])} = J
          /\ {k \in Recorded(history, sub.deviceId, day) : TrustedRow(history[k])} = K
      <4> HIDE DEF w
      <4> QED
        BY DEF Recorded
    <3> HIDE DEF w, J, K
    <3> QED
      BY <3>1 DEF computeEnergyZScore
  <2>6. /\ IsFiniteSet(J)
        /\ \A j \in J : /\ EnergyOf(w)[j] \in Int /\ SquareOf(w)[j] \in Int
                        /\ EnergyOf(history)[b[j]] = EnergyOf(w)[j]
                        /\ SquareOf(history)[b[j]] = SquareOf(w)[j]
    <3> HIDE DEF w, b, counts
    <3>1. IsFiniteSet(J)
      BY <2>2, RowsTyped, FS_Subset
    <3>2. ASSUME NEW j \in J
          PROVE  /\ EnergyOf(w)[j] \in Int /\ SquareOf(w)[j] \in Int
                 /\ EnergyOf(history)[b[j]] = EnergyOf(w)[j]
                 /\ SquareOf(history)[b[j]] = SquareOf(w)[j]
      <4>1. j \in DOMAIN w /\ b[j] \in DOMAIN history /\ w[j] = history[b[j]]
        BY <2>2
      <4>2. /\ EnergyOf(w)[j] \in Nat /\ EnergyOf(w)[j] = w[j].energy
            /\ SquareOf(w)[j] = EnergyOf(w)[j] * EnergyOf(w)[j]
        BY <2>2, <4>1, RowsTyped
      <4>3. /\ EnergyOf(history)[b[j]] = history[b[j]].energy
            /\ SquareOf(history)[b[j]] = EnergyOf(history)[b[j]] * EnergyOf(history)[b[j]]
        BY <2>1, <4>1, RowsTyped
      <4> QED
        BY <4>1, <4>2, <4>3
    <3> QED
      BY <3>1, <3>2
  <2>7. /\ Cardinality(K) = Cardinality(J)
        /\ SumOn(EnergyOf(history), K) = SumOn(EnergyOf(w), J)
        /\ SumOn(SquareOf(history), K) = SumOn(SquareOf(w), J)
    <3>1. \A j, k \in J : b[j] = b[k] => j = k
      BY <2>2
    <3> HIDE DEF w, b, J, K
    <3> QED
      BY <2>4, <2>6, <3>1, SumMapped
  <2>8. /\ Size(Energies(w, J)) = Size(Energies(history, K))
        /\ Total(Energies(w, J)) = Total(Energies(history, K))
        /\ Variance(Energies(w, J)) = Variance(Energies(history, K))
    <3> HIDE DEF w, J, K
    <3> QED
      BY <2>1, <2>2, <2>3, <2>7, Statistics
  <2> HIDE DEF w, J, K
  <2> QED
    BY <2>5, <2>8 DEF Score, w
<1> QED
  BY <1>1, ValidationTypeCorrect, PTL
=============================================================================
