--------------------------- MODULE AnalyticsProofs ---------------------------
(***************************************************************************)
(* The reports agree, and a timeline lists its days and counts its runs as *)
(* it should.  Both speak of sums over sets of any size: the lemmas on     *)
(* sums come first, then the table, the days, the counts and the reports.  *)
(***************************************************************************)
EXTENDS Analytics, SequenceTheorems, FiniteSetTheorems, WellFoundedInduction,
        TLAPS

-----------------------------------------------------------------------------
(* Sums *)

\* The least-number principle, by which the sums of the reports are followed.
LEMMA Least ==
    ASSUME NEW T, T \subseteq Nat, T # {}
    PROVE  \E x \in T : \A y \in T : x <= y
<1>1. PICK R : R = OpToRel(<, Nat)
  OBVIOUS
<1>2. IsWellFoundedOn(R, Nat)
  BY <1>1, NatLessThanWellFounded
<1>3. R = {p \in Nat \X Nat : p[1] < p[2]}
  BY <1>1 DEF OpToRel
<1>4. PICK x \in T : \A y \in T : ~ (<<y, x>> \in R)
  BY <1>2, WFMin
<1>5. ASSUME NEW y \in T PROVE x <= y
  <2>1. <<y, x>> \in Nat \X Nat /\ <<y, x>>[1] = y /\ <<y, x>>[2] = x
    OBVIOUS
  <2>2. ~ (y < x)
    BY <1>3, <1>4, <2>1, Zenon
  <2>. QED BY <2>2
<1>. QED BY <1>5

\* A set of finite sets that is not empty has one of least size.
LEMMA Smallest ==
    ASSUME NEW T, T # {}, \A S \in T : IsFiniteSet(S)
    PROVE  \E S \in T : \A U \in T : Cardinality(S) <= Cardinality(U)
<1> DEFINE N == {Cardinality(S) : S \in T}
<1>1. N \subseteq Nat /\ N # {}
  BY FS_CardinalityType
<1>2. PICK n \in N : \A m \in N : n <= m
  BY <1>1, Least
<1>. QED BY <1>2

LEMMA FiniteImage ==
    ASSUME NEW S, IsFiniteSet(S), NEW f, NEW T, T = {f[x] : x \in S}
    PROVE  IsFiniteSet(T)
<1>1. PICK g : g = [x \in S |-> f[x]]
  OBVIOUS
<1>2. g \in Surjection(S, T)
  BY <1>1 DEF Surjection, Range
<1>. QED BY <1>2, FS_Surjection

\* How SumFunction adds up f: sum[S] is the sum over the elements of S.
SumOf(f, sum, S) ==
    IF S = {} THEN 0
    ELSE LET x == CHOOSE x \in S : TRUE IN f[x] + sum[S \ {x}]
AddsUp(f, sum) == sum = [S \in SUBSET DOMAIN f |-> SumOf(f, sum, S)]

LEMMA SumUnfolds ==
    ASSUME NEW f
    PROVE  SumFunction(f) = (CHOOSE sum : AddsUp(f, sum))[DOMAIN f]
  BY DEF SumFunction, SumFunctionOnSet, FoldFunctionOnSet, MapThenFoldSet, AddsUp, SumOf

LEMMA SumExists ==
    ASSUME NEW f, IsFiniteSet(DOMAIN f)
    PROVE  \E sum : AddsUp(f, sum)
<1> DEFINE Sets == SUBSET DOMAIN f
           Good(sum, n) == /\ sum = [S \in Sets |-> sum[S]]
                           /\ \A S \in Sets : Cardinality(S) <= n => sum[S] = SumOf(f, sum, S)
           T == {n \in Nat : ~ \E sum : Good(sum, n)}
<1>1. \A S \in Sets : IsFiniteSet(S) /\ Cardinality(S) \in Nat
                      /\ Cardinality(S) <= Cardinality(DOMAIN f)
  BY FS_Subset, FS_CardinalityType
<1>2. \A S \in Sets : S # {} =>
        LET R == S \ {CHOOSE x \in S : TRUE}
        IN  R \in Sets /\ Cardinality(R) = Cardinality(S) - 1
  BY <1>1, FS_RemoveElement
<1>3. T = {}
  <2> SUFFICES ASSUME T # {} PROVE FALSE
    OBVIOUS
  <2>1. PICK n \in T : \A m \in T : n <= m
    <3>1. T \subseteq Nat
      OBVIOUS
    <3> HIDE DEF T
    <3>. QED BY <3>1, Least
  <2>2. CASE n = 0
    <3> DEFINE sum == [S \in Sets |-> 0]
    <3>1. \A S \in Sets : Cardinality(S) <= 0 => S = {}
      BY <1>1, FS_EmptySet
    <3>2. Good(sum, 0)
      BY <3>1 DEF SumOf
    <3>. QED BY <2>1, <2>2, <3>2
  <2>3. CASE n # 0
    <3>1. n - 1 \in Nat /\ n - 1 \notin T
      <4>1. n \in Nat
        OBVIOUS
      <4> HIDE DEF T
      <4>. QED BY <2>1, <2>3, <4>1
    <3>2. PICK g : Good(g, n - 1)
      BY <3>1
    <3> DEFINE h == [S \in Sets |-> IF Cardinality(S) <= n - 1 THEN g[S]
                                                            ELSE SumOf(f, g, S)]
    <3>3. \A S \in Sets : Cardinality(S) <= n => SumOf(f, h, S) = SumOf(f, g, S)
      <4> SUFFICES ASSUME NEW S \in Sets, Cardinality(S) <= n, S # {}
                   PROVE  SumOf(f, h, S) = SumOf(f, g, S)
        BY DEF SumOf
      <4> DEFINE R == S \ {CHOOSE x \in S : TRUE}
      <4>1. R \in Sets /\ Cardinality(R) <= n - 1
        BY <1>1, <1>2
      <4>2. h[R] = g[R]
        BY <4>1
      <4>. QED BY <4>2 DEF SumOf
    <3>4. \A S \in Sets : Cardinality(S) <= n => h[S] = SumOf(f, g, S)
      BY <3>2
    <3>5. Good(h, n)
      BY <3>3, <3>4
    <3>. QED BY <2>1, <3>5
  <2>. QED BY <2>2, <2>3
<1>4. PICK sum : Good(sum, Cardinality(DOMAIN f))
  BY <1>3, FS_CardinalityType
<1>5. AddsUp(f, sum)
  <2>1. \A S \in Sets : sum[S] = SumOf(f, sum, S)
    BY <1>1, <1>4
  <2>. QED BY <1>4, <2>1 DEF AddsUp
<1>. QED BY <1>5

\* A sum can be followed through the subsets of the domain.
Follows(f, sum, D) ==
    /\ SumFunction(f) = sum[D]
    /\ \A S \in SUBSET D : \/ S = {} /\ sum[S] = 0
                           \/ \E x \in S : sum[S] = f[x] + sum[S \ {x}]

LEMMA SumFollows ==
    ASSUME NEW f, NEW D, DOMAIN f = D, IsFiniteSet(D)
    PROVE  \E sum : Follows(f, sum, D)
<1>1. PICK sum : AddsUp(f, sum) /\ SumFunction(f) = sum[DOMAIN f]
  BY SumExists, SumUnfolds
<1>2. \A S \in SUBSET DOMAIN f : sum[S] = SumOf(f, sum, S)
  BY <1>1 DEF AddsUp
<1>3. ASSUME NEW S \in SUBSET DOMAIN f, S # {}
      PROVE  \E x \in S : sum[S] = f[x] + sum[S \ {x}]
  <2> DEFINE x == CHOOSE x \in S : TRUE
  <2>1. x \in S
    BY <1>3
  <2>2. sum[S] = f[x] + sum[S \ {x}]
    BY <1>2, <1>3 DEF SumOf
  <2>. QED BY <2>1, <2>2
<1>4. sum[{}] = 0
  BY <1>2 DEF SumOf
<1>. QED BY <1>1, <1>3, <1>4 DEF Follows

\* The sum of the sizes of sets that have nothing in common is the size of
\* their union.
InParts(f, P, D) ==
    /\ IsFiniteSet(D)
    /\ \A x \in D : IsFiniteSet(P[x])
    /\ \A x, y \in D : x # y => P[x] \cap P[y] = {}
    /\ f = [x \in D |-> Cardinality(P[x])]

Together(P, D) == UNION {P[x] : x \in D}

LEMMA SumOfParts ==
    ASSUME NEW f, NEW P, NEW D, InParts(f, P, D)
    PROVE  IsFiniteSet(Together(P, D)) /\ SumFunction(f) = Cardinality(Together(P, D))
<1>. USE DEF InParts, Together
<1> DEFINE U(S) == UNION {P[x] : x \in S}
           Right(sum, S) == IsFiniteSet(U(S)) /\ sum[S] = Cardinality(U(S))
<1>1. DOMAIN f = D
  OBVIOUS
<1>2. PICK sum : Follows(f, sum, D)
  BY <1>1, SumFollows
<1> DEFINE T == {S \in SUBSET D : ~ Right(sum, S)}
<1>3. T = {}
  <2> SUFFICES ASSUME T # {} PROVE FALSE
    OBVIOUS
  <2>1. \A S \in SUBSET D : IsFiniteSet(S) /\ Cardinality(S) \in Nat
    BY FS_Subset, FS_CardinalityType
  <2>2. PICK S \in T : \A R \in T : Cardinality(S) <= Cardinality(R)
    <3>1. \A S \in T : IsFiniteSet(S)
      BY <2>1
    <3> HIDE DEF T
    <3>. QED BY <3>1, Smallest
  <2>3. S \in SUBSET D /\ ~ Right(sum, S)
    OBVIOUS
  <2>4. CASE S = {} /\ sum[S] = 0
    <3>1. U(S) = {}
      BY <2>4
    <3>. QED BY <2>3, <2>4, <3>1, FS_EmptySet
  <2>5. CASE \E x \in S : sum[S] = f[x] + sum[S \ {x}]
    <3>1. PICK x \in S : sum[S] = f[x] + sum[S \ {x}]
      BY <2>5
    <3> DEFINE R == S \ {x}
    <3>2. R \in SUBSET D /\ Cardinality(R) < Cardinality(S)
      <4>1. IsFiniteSet(S) /\ Cardinality(S) \in Nat
        BY <2>1, <2>3
      <4>2. Cardinality(R) = Cardinality(S) - 1
        BY <4>1, <3>1, FS_RemoveElement
      <4>. QED BY <2>3, <4>1, <4>2
    <3>3. Right(sum, R)
      <4>1. R \notin T
        <5>1. Cardinality(R) \in Nat /\ Cardinality(S) \in Nat
          BY <2>1, <2>3, <3>2
        <5> HIDE DEF T, R
        <5>. QED BY <2>2, <3>2, <5>1
      <4>. QED BY <3>2, <4>1
    <3>4. U(S) = U(R) \union P[x] /\ U(R) \cap P[x] = {} /\ IsFiniteSet(P[x])
      <4>1. \A y \in R : P[y] \cap P[x] = {}
        BY <2>3, <3>1
      <4>. QED BY <2>3, <3>1, <4>1
    <3>5. f[x] = Cardinality(P[x]) /\ f[x] \in Nat
      BY <2>3, <3>4, FS_CardinalityType
    <3> HIDE DEF R
    <3>6. /\ IsFiniteSet(U(S))
          /\ Cardinality(U(S)) = Cardinality(U(R)) + f[x]
      <4> HIDE DEF U
      <4>1. /\ IsFiniteSet(U(R) \union P[x])
            /\ Cardinality(U(R) \union P[x]) =
                  Cardinality(U(R)) + Cardinality(P[x]) - Cardinality(U(R) \cap P[x])
        BY <3>3, <3>4, FS_Union
      <4>2. Cardinality(U(R)) \in Nat /\ Cardinality(P[x]) \in Nat
        BY <3>3, <3>4, FS_CardinalityType
      <4>3. Cardinality(U(R) \intersect P[x]) = 0
        BY <3>4, FS_EmptySet
      <4>4. Cardinality(U(R) \union P[x]) = Cardinality(U(R)) + Cardinality(P[x])
        BY ONLY <4>1, <4>2, <4>3
      <4>. QED BY <3>4, <3>5, <4>1, <4>4
    <3>7. Cardinality(U(R)) \in Nat
      BY <3>3, FS_CardinalityType
    <3>. QED BY <2>3, <3>1, <3>3, <3>5, <3>6, <3>7 DEF R
  <2>. QED BY <1>2, <2>3, <2>4, <2>5 DEF Follows
<1>4. Right(sum, D)
  BY <1>3
<1>. QED BY <1>2, <1>4 DEF Follows

\* A sum lies between the bounds of what is added up, as often as there is
\* something to add.
LEMMA SumBetween ==
    ASSUME NEW f, IsFiniteSet(DOMAIN f), NEW low \in Int, NEW high \in Int,
           \A x \in DOMAIN f : f[x] \in low..high
    PROVE  /\ SumFunction(f) \in Int
           /\ low * Cardinality(DOMAIN f) <= SumFunction(f)
           /\ SumFunction(f) <= high * Cardinality(DOMAIN f)
<1> DEFINE D == DOMAIN f
           Right(sum, S) == /\ sum[S] \in Int
                            /\ low * Cardinality(S) <= sum[S]
                            /\ sum[S] <= high * Cardinality(S)
<1>1. PICK sum : Follows(f, sum, D)
  BY SumFollows
<1> HIDE DEF D
<1> DEFINE T == {S \in SUBSET D : ~ Right(sum, S)}
<1>2. T = {}
  <2> SUFFICES ASSUME T # {} PROVE FALSE
    OBVIOUS
  <2>1. \A S \in SUBSET D : IsFiniteSet(S) /\ Cardinality(S) \in Nat
    BY FS_Subset, FS_CardinalityType DEF D
  <2>2. PICK S \in T : \A R \in T : Cardinality(S) <= Cardinality(R)
    <3>1. \A S \in T : IsFiniteSet(S)
      BY <2>1
    <3> HIDE DEF T
    <3>. QED BY <3>1, Smallest
  <2>3. S \in SUBSET D /\ ~ Right(sum, S) /\ Cardinality(S) \in Nat
    BY <2>1
  <2>4. CASE S = {} /\ sum[S] = 0
    BY <2>3, <2>4, FS_EmptySet
  <2>5. CASE \E x \in S : sum[S] = f[x] + sum[S \ {x}]
    <3>1. PICK x \in S : sum[S] = f[x] + sum[S \ {x}]
      BY <2>5
    <3> DEFINE R == S \ {x}
    <3>2. R \in SUBSET D /\ Cardinality(R) = Cardinality(S) - 1
      BY <2>1, <2>3, FS_RemoveElement
    <3>3. Cardinality(R) \in Nat
      BY <2>1, <3>2
    <3>4. Right(sum, R)
      <4>1. R \notin T
        <5> HIDE DEF T, R
        <5>. QED BY <2>2, <2>3, <3>2, <3>3
      <4>. QED BY <3>2, <4>1
    <3>5. f[x] \in Int /\ low <= f[x] /\ f[x] <= high
      BY <2>3 DEF D
    <3>6. \A m, n, s, k \in Int :
             /\ m * (n - 1) <= s /\ m <= k => m * n <= k + s
             /\ s <= m * (n - 1) /\ k <= m => k + s <= m * n
      <4> SUFFICES ASSUME NEW m \in Int, NEW n \in Int, NEW s \in Int, NEW k \in Int
                   PROVE  /\ m * (n - 1) <= s /\ m <= k => m * n <= k + s
                          /\ s <= m * (n - 1) /\ k <= m => k + s <= m * n
        OBVIOUS
      <4>1. m * (n - 1) = m * n - m /\ m * n \in Int
        OBVIOUS
      <4>. QED BY <4>1
    <3>7. Right(sum, S)
      <4>1. sum[R] \in Int /\ low * (Cardinality(S) - 1) <= sum[R]
            /\ sum[R] <= high * (Cardinality(S) - 1)
        BY <3>2, <3>4
      <4>2. sum[S] = f[x] + sum[R]
        BY <3>1
      <4> HIDE DEF R
      <4>3. low * Cardinality(S) <= sum[S] /\ sum[S] <= high * Cardinality(S)
        BY ONLY <2>3, <3>5, <3>6, <4>1, <4>2
      <4>. QED BY <3>5, <4>1, <4>2, <4>3
    <3>. QED BY <2>3, <3>7
  <2>. QED BY <1>1, <2>3, <2>4, <2>5 DEF Follows
<1>3. Right(sum, D)
  BY <1>2
<1>. QED BY <1>1, <1>3 DEF D, Follows

-----------------------------------------------------------------------------
(* The table *)

\* No run starts in the future, and one that has ended has a duration.
Timely == \A i \in DOMAIN history :
              /\ history[i].at <= time
              /\ history[i].status # "running" => history[i].duration # NoTime

TableInv == AnalyticsTypeOK /\ Timely

LEMMA HistoryIs ==
    ASSUME AnalyticsTypeOK
    PROVE  /\ Len(history) \in Nat /\ DOMAIN history = 1..Len(history)
           /\ IsFiniteSet(DOMAIN history)
           /\ \A i \in DOMAIN history : history[i] \in Execution
<1>1. history \in Seq(Execution)
  BY DEF AnalyticsTypeOK
<1>2. Len(history) \in Nat /\ DOMAIN history = 1..Len(history)
  BY <1>1, LenProperties
<1>3. \A i \in DOMAIN history : history[i] \in Execution
  BY <1>1, <1>2, ElementOfSeq
<1>4. IsFiniteSet(1..Len(history))
  BY <1>2, FS_Interval
<1>. QED BY <1>2, <1>3, <1>4

\* A query sees rows of the table.
LEMMA QuerySees ==
    ASSUME AnalyticsTypeOK, NEW mine
    PROVE  /\ RowIds(mine) \subseteq 1..MaxHistory
           /\ {<<i, history[i]>> : i \in RowIds(mine)}
                  \subseteq (1..MaxHistory) \X Execution
<1>1. /\ Len(history) <= MaxHistory /\ MaxHistory \in Nat
      /\ Len(history) \in Nat /\ DOMAIN history = 1..Len(history)
  BY HistoryIs, AnalyticsAssumption DEF AnalyticsTypeOK
<1>2. RowIds(mine) \subseteq DOMAIN history
  BY DEF RowIds
<1>3. DOMAIN history \subseteq 1..MaxHistory
  BY <1>1
<1>. QED BY <1>2, <1>3, HistoryIs

LEMMA StartKeepsTable ==
    ASSUME TableInv, NEW j \in AllJobs, RunStarts(j)
    PROVE  TableInv'
<1> DEFINE e == [job |-> j, at |-> time, status |-> "running",
                 duration |-> NoTime]
           n == Len(history)
<1>1. /\ history' = Append(history, e) /\ n < MaxHistory
      /\ UNCHANGED <<time, existing, report>>
  BY DEF RunStarts
<1>2. time \in 0..MaxTime /\ history \in Seq(Execution) /\ n \in Nat
  BY HistoryIs DEF TableInv, AnalyticsTypeOK
<1>3. e \in Execution
  BY <1>2 DEF Execution, Statuses
<1>4. /\ history' \in Seq(Execution) /\ Len(history') = n + 1
      /\ \A i \in 1..n : history'[i] = history[i]
      /\ history'[n + 1] = e
  BY <1>1, <1>2, <1>3, AppendProperties
<1>5. DOMAIN history' = 1..(n + 1) /\ DOMAIN history = 1..n
  BY <1>2, <1>4, LenProperties
<1> HIDE DEF n
<1>6. Len(history') <= MaxHistory
  BY <1>1, <1>2, <1>4, AnalyticsAssumption
<1>7. AnalyticsTypeOK'
  BY <1>1, <1>4, <1>6 DEF TableInv, AnalyticsTypeOK
<1>8. e.at = time /\ e.status = "running" /\ time <= time
  BY <1>2
<1>9. \A i \in DOMAIN history' : i \in DOMAIN history \/ history'[i] = e
  BY <1>2, <1>4, <1>5
<1>10. Timely'
  BY <1>1, <1>4, <1>5, <1>8, <1>9 DEF TableInv, Timely
<1>. QED BY <1>7, <1>10 DEF TableInv

LEMMA EndKeepsTable ==
    ASSUME TableInv, NEW i \in DOMAIN history, NEW s \in Statuses \ {"running"},
           RunEndsAs(i, s)
    PROVE  TableInv'
<1> DEFINE e == [history[i] EXCEPT !.status = s,
                                   !.duration = time - history[i].at]
<1>1. history' = [history EXCEPT ![i] = e] /\ UNCHANGED <<time, existing, report>>
  BY DEF RunEndsAs
<1>2. /\ time \in 0..MaxTime /\ history \in Seq(Execution)
      /\ history[i] \in Execution /\ history[i].at <= time
  BY HistoryIs DEF TableInv, AnalyticsTypeOK, Timely
<1>3. time - history[i].at \in 0..MaxTime
  <2>1. history[i].at \in 0..MaxTime
    BY <1>2 DEF Execution
  <2>. QED BY <1>2, <2>1, AnalyticsAssumption
<1>4. e \in Execution /\ e.at = history[i].at /\ e.duration # NoTime
  <2>1. e \in Execution
    BY <1>2, <1>3 DEF Execution
  <2>2. e.duration = time - history[i].at /\ e.at = history[i].at
    BY <1>2 DEF Execution
  <2>3. NoTime \notin 0..MaxTime
    BY AnalyticsAssumption DEF NoTime
  <2>. QED BY <1>3, <2>1, <2>2, <2>3
<1> HIDE DEF e
<1>5. /\ history' \in Seq(Execution) /\ Len(history') = Len(history)
      /\ DOMAIN history' = DOMAIN history
  BY <1>1, <1>2, <1>4, ExceptSeq
<1>6. \A k \in DOMAIN history :
         history'[k] = IF k = i THEN e ELSE history[k]
  BY <1>1
<1>7. AnalyticsTypeOK'
  BY <1>1, <1>5 DEF TableInv, AnalyticsTypeOK
<1>8. Timely'
  BY <1>1, <1>2, <1>4, <1>5, <1>6 DEF TableInv, Timely
<1>. QED BY <1>7, <1>8 DEF TableInv

LEMMA ReportKeepsTable ==
    ASSUME TableInv, UNCHANGED <<time, existing, history>>,
           \/ \E days \in Spans : \E mine : TimelineQuery(mine, days)
           \/ TimelineDay \/ TimelineAnswer
    PROVE  TableInv'
<1> DEFINE Fields == {"at", "days", "left", "asked", "list", "seen"}
<1>1. DOMAIN NoReport = Fields /\ NoReport.seen = {}
  BY DEF NoReport
<1>2. CASE \E days \in Spans : \E mine : TimelineQuery(mine, days)
  <2>1. PICK days, mine : TimelineQuery(mine, days)
    BY <1>2
  <2>2. /\ DOMAIN report' = Fields
        /\ report'.seen \subseteq {<<i, history[i]>> : i \in RowIds(mine)}
    BY <2>1 DEF TimelineQuery
  <2>3. report'.seen \subseteq (1..MaxHistory) \X Execution
    BY <2>2, QuerySees DEF TableInv
  <2>. QED BY <1>1, <2>2, <2>3 DEF TableInv, AnalyticsTypeOK, Timely
<1>3. CASE TimelineDay
  <2>1. DOMAIN report' = DOMAIN report /\ report'.seen = report.seen
    BY <1>1, <1>3 DEF TimelineDay, TableInv, AnalyticsTypeOK
  <2>. QED BY <2>1 DEF TableInv, AnalyticsTypeOK, Timely
<1>4. CASE TimelineAnswer
  BY <1>1, <1>4 DEF TimelineAnswer, TableInv, AnalyticsTypeOK, Timely
<1>. QED BY <1>2, <1>3, <1>4

LEMMA TableInvHolds == AnalyticsSpec => []TableInv
<1>1. AnalyticsInit => TableInv
  <2>1. <<>> \in Seq(Execution) /\ Len(<<>>) = 0 /\ DOMAIN <<>> = {}
    BY EmptySeq
  <2>. QED BY <2>1, AnalyticsAssumption
       DEF AnalyticsInit, TableInv, AnalyticsTypeOK, Timely, NoReport
<1>2. TableInv /\ [AnalyticsNext]_analyticsVars => TableInv'
  <2> SUFFICES ASSUME TableInv, [AnalyticsNext]_analyticsVars PROVE TableInv'
    OBVIOUS
  <2>1. CASE \E j \in AllJobs : RunStarts(j)
    BY <2>1, StartKeepsTable
  <2>2. CASE \E i \in DOMAIN history, s \in Statuses \ {"running"} : RunEndsAs(i, s)
    BY <2>2, EndKeepsTable
  <2>3. CASE \/ \E days \in Spans :
                   \/ TimelineQuery(MyJobs, days)
                   \/ \E j \in MyJobs \cap existing : TimelineQuery({j}, days)
             \/ TimelineDay \/ TimelineAnswer
    <3>1. UNCHANGED <<time, existing, history>>
      BY <2>3 DEF TimelineQuery, TimelineDay, TimelineAnswer
    <3>. QED BY <2>3, <3>1, ReportKeepsTable
  <2>4. CASE \/ \E j \in AllJobs : JobDeleted(j)
             \/ TimePasses \/ UNCHANGED analyticsVars
    <3>1. /\ history' = history /\ report' = report /\ existing' \subseteq existing
          /\ time' \in 0..MaxTime /\ time <= time' /\ time \in Nat
      <4>1. time \in 0..MaxTime /\ MaxTime \in Nat
        BY AnalyticsAssumption DEF TableInv, AnalyticsTypeOK
      <4>2. time' = time \/ (time < MaxTime /\ time' = time + 1)
        BY <2>4 DEF JobDeleted, TimePasses, analyticsVars
      <4>3. history' = history /\ report' = report /\ existing' \subseteq existing
        BY <2>4 DEF JobDeleted, TimePasses, analyticsVars
      <4>. QED BY <4>1, <4>2, <4>3
    <3>2. AnalyticsTypeOK'
      BY <3>1 DEF TableInv, AnalyticsTypeOK
    <3>3. \A i \in DOMAIN history : history[i].at \in Nat
      BY HistoryIs, AnalyticsAssumption DEF TableInv, Execution
    <3>4. \A a \in Nat : a <= time => a <= time'
      BY <3>1, AnalyticsAssumption
    <3>5. Timely'
      BY <3>1, <3>3, <3>4 DEF TableInv, Timely
    <3>. QED BY <3>2, <3>5 DEF TableInv
  <2>. QED BY <2>1, <2>2, <2>3, <2>4 DEF AnalyticsNext
<1>. QED BY <1>1, <1>2, PTL DEF AnalyticsSpec

\* The clock, the table and the report keep their types.
THEOREM AnalyticsTypes == AnalyticsSpec => []AnalyticsTypeOK
<1>1. TableInv => AnalyticsTypeOK
  BY DEF TableInv
<1>. QED BY <1>1, TableInvHolds, PTL

-----------------------------------------------------------------------------
(* Timelines *)

\* The whole number of days between two times is that between their days.
LEMMA DaysBack ==
    ASSUME NEW t \in Int, NEW k \in Int
    PROVE  DayOf(t - k * Day) = DayOf(t) - k
<1>1. \A d \in Nat \ {0} : (t - k * d) \div d = t \div d - k
  OBVIOUS
<1>. QED BY <1>1, AnalyticsAssumption DEF DayOf

LEMMA DayIsInt ==
    ASSUME NEW t \in Int
    PROVE  DayOf(t) \in Int
<1>1. \A d \in Nat \ {0} : t \div d \in Int
  OBVIOUS
<1>. QED BY <1>1, AnalyticsAssumption DEF DayOf

LEMMA DaysInOrder ==
    ASSUME NEW s \in Int, NEW t \in Int, s <= t
    PROVE  DayOf(s) <= DayOf(t)
<1>1. \A d \in Nat \ {0} : s \div d <= t \div d
  <2> SUFFICES ASSUME NEW d \in Nat \ {0} PROVE s \div d <= t \div d
    OBVIOUS
  <2>1. \A x \in Int : x \div d \in Int /\ d * (x \div d) <= x /\ x < d * (x \div d) + d
    OBVIOUS
  <2>2. \A p, q \in Int : d * p < d * q + d => p <= q
    OBVIOUS
  <2>3. PICK p \in Int, q \in Int : p = s \div d /\ q = t \div d
    BY <2>1
  <2>4. d * p \in Int /\ d * q \in Int /\ d * p <= s /\ t < d * q + d
    BY <2>1, <2>3
  <2>5. d * p < d * q + d
    BY <2>4
  <2>. QED BY <2>2, <2>3, <2>5
<1>. QED BY <1>1, AnalyticsAssumption DEF DayOf

\* The entries that can stand in the list of the report.
Entries ==
    [date : Int, count : [Shown -> {Cardinality(s) : s \in SUBSET report.seen}]]

\* What the k-th date listed is, whatever the clock has done meanwhile.
Dated(k) ==
    /\ DayOf(report.asked) - (report.days + 1 - k) <= report.list[k].date
    /\ report.list[k].date <= DayOf(time) - (report.days + 1 - k)

Listing ==
    /\ report.days \in Nat /\ report.left \in Nat
    /\ report.asked \in Nat /\ report.asked <= time
    /\ report.list \in Seq(Entries)
    /\ report.at = "days" => Len(report.list) + report.left = report.days
    /\ report.at = "done" => Len(report.list) = report.days + 1
    /\ \A k \in 1..Len(report.list) : Dated(k)
    /\ \A i, k \in 1..Len(report.list) :
          i < k => report.list[i].date < report.list[k].date

DaysInv ==
    /\ time \in Nat
    /\ DOMAIN report = {"at", "days", "left", "asked", "list", "seen"}
    /\ report.at \in {"idle", "days", "done"}
    /\ report.at # "idle" => Listing

LEMMA NoReportIs ==
    /\ DOMAIN NoReport = {"at", "days", "left", "asked", "list", "seen"}
    /\ NoReport.at = "idle"
  BY DEF NoReport

LEMMA QueryStep ==
    ASSUME DaysInv, NEW jobs, NEW days \in Spans, TimelineQuery(jobs, days)
    PROVE  DaysInv'
<1>1. days \in Nat /\ time \in Nat /\ time' = time
  BY AnalyticsAssumption DEF DaysInv, TimelineQuery
<1>2. PICK seen :
         report' = [at |-> "days", days |-> days, left |-> days, asked |-> time,
                    list |-> <<>>, seen |-> seen]
  BY DEF TimelineQuery
<1>3. /\ DOMAIN report' = {"at", "days", "left", "asked", "list", "seen"}
      /\ report'.at = "days" /\ report'.days = days /\ report'.left = days
      /\ report'.asked = time /\ report'.list = <<>>
  BY <1>2
<1>4. <<>> \in Seq(Entries') /\ Len(<<>>) = 0
  BY EmptySeq
<1>5. Listing'
  BY <1>1, <1>3, <1>4 DEF Listing
<1>. QED BY <1>1, <1>3, <1>5 DEF DaysInv

\* A later day is listed, also when midnight has passed since the last.
LEMMA DayStep ==
    ASSUME DaysInv, TimelineDay
    PROVE  DaysInv'
<1> DEFINE n == Len(report.list)
           d == DayOf(time - report.left * Day)
           counts == [s \in Shown |-> Cardinality({r \in report.seen :
                        DayOf(r[2].at) = d /\ r[2].status = s})]
           entry == [date |-> d, count |-> counts]
           left == IF report.left = 0 THEN 0 ELSE report.left - 1
           at == IF report.left = LastOffset THEN "done" ELSE report.at
<1>1. /\ report.at = "days" /\ Listing /\ time \in Nat /\ time' = time
      /\ DOMAIN report = {"at", "days", "left", "asked", "list", "seen"}
  BY DEF DaysInv, TimelineDay
<1>2. report' = [report EXCEPT !.list = Append(report.list, entry),
                               !.left = left, !.at = at]
  BY DEF TimelineDay
<1>3. /\ report.days \in Nat /\ report.left \in Nat /\ n \in Nat
      /\ n + report.left = report.days /\ report.list \in Seq(Entries)
      /\ report.asked \in Nat /\ report.asked <= time
  BY <1>1, LenProperties DEF Listing
<1>4. d \in Int /\ d = DayOf(time) - report.left /\ DayOf(time) \in Int
      /\ DayOf(report.asked) \in Int /\ DayOf(report.asked) <= DayOf(time)
  <2>1. time \in Int /\ report.left \in Int /\ report.asked \in Int
    BY <1>1, <1>3
  <2>2. d = DayOf(time) - report.left
    BY <2>1, DaysBack
  <2>3. DayOf(time) \in Int /\ DayOf(report.asked) \in Int
    BY <2>1, DayIsInt
  <2>4. DayOf(report.asked) <= DayOf(time)
    BY <1>3, <2>1, DaysInOrder
  <2> HIDE DEF d
  <2>. QED BY <2>1, <2>2, <2>3, <2>4
<1>5. entry \in Entries /\ entry.date = d
  <2>1. ASSUME NEW s \in Shown
        PROVE  counts[s] \in {Cardinality(x) : x \in SUBSET report.seen}
    OBVIOUS
  <2>2. counts \in [Shown -> {Cardinality(x) : x \in SUBSET report.seen}]
    BY <2>1
  <2> HIDE DEF counts, d
  <2>. QED BY <1>4, <2>2 DEF Entries
<1> HIDE DEF entry, d, counts
<1> DEFINE list == Append(report.list, entry)
<1>6. /\ list \in Seq(Entries) /\ Len(list) = n + 1 /\ list[n + 1] = entry
      /\ \A k \in 1..n : list[k] = report.list[k] /\ list[k] \in Entries
  BY <1>3, <1>5, AppendProperties, ElementOfSeq
<1>7. /\ left \in Nat /\ at \in {"days", "done"}
      /\ at = "days" => left = report.left - 1
      /\ at = "done" => report.left = 0
  BY <1>1, <1>3 DEF LastOffset
<1> HIDE DEF list, left, at
<1>8. /\ DOMAIN report' = {"at", "days", "left", "asked", "list", "seen"}
      /\ report'.at = at /\ report'.days = report.days /\ report'.left = left
      /\ report'.asked = report.asked /\ report'.list = list
      /\ report'.seen = report.seen
  BY <1>1, <1>2 DEF list
<1>9. \A k \in 1..n : /\ report.list[k].date \in Int
                      /\ Dated(k)
  <2>1. \A k \in 1..n : report.list[k] \in Entries
    BY <1>3, ElementOfSeq
  <2>. QED BY <1>1, <2>1 DEF Listing, Entries
<1> HIDE DEF n
<1>10. ASSUME NEW k \in 1..(n + 1) PROVE Dated(k)'
  <2>1. CASE k \in 1..n
    BY <1>1, <1>6, <1>8, <1>9, <2>1 DEF Dated
  <2>2. CASE k = n + 1
    <3>1. report.days + 1 - (n + 1) = report.left
      BY <1>3
    <3>2. list[k].date = d
      BY <1>5, <1>6, <2>2
    <3>3. DayOf(report.asked) - report.left <= d /\ d <= DayOf(time) - report.left
      BY <1>3, <1>4
    <3>. QED BY <1>1, <1>8, <2>2, <3>1, <3>2, <3>3 DEF Dated
  <2>. QED BY <1>3, <2>1, <2>2
<1>11. ASSUME NEW i \in 1..(n + 1), NEW k \in 1..(n + 1), i < k
       PROVE  list[i].date < list[k].date
  <2>1. CASE k \in 1..n
    <3>1. i \in 1..n
      BY <1>3, <1>11, <2>1
    <3>2. report.list[i].date < report.list[k].date
      BY <1>1, <1>11, <2>1, <3>1 DEF Listing, n
    <3>. QED BY <1>6, <2>1, <3>1, <3>2
  <2>2. CASE k = n + 1
    <3>1. i \in 1..n /\ report.days + 1 - i >= report.left + 1
      BY <1>3, <1>11, <2>2
    <3>2. report.list[i].date <= DayOf(time) - (report.days + 1 - i)
          /\ report.list[i].date \in Int
      BY <1>9, <3>1 DEF Dated
    <3>3. report.list[i].date < d
      <4>1. \A x, t, m, l \in Int : x <= t - m /\ m >= l + 1 => x < t - l
        OBVIOUS
      <4>2. report.days + 1 - i \in Int /\ report.left \in Int
        BY <1>3, <3>1
      <4>. QED BY ONLY <1>4, <3>1, <3>2, <4>1, <4>2
    <3>. QED BY <1>5, <1>6, <2>2, <3>1, <3>3
  <2>. QED BY <1>3, <2>1, <2>2
<1>12. Listing'
  <2>1. Entries' = Entries
    BY <1>8 DEF Entries
  <2>2. /\ Len(list) = n + 1 /\ (at = "days" => (n + 1) + left = report.days)
        /\ (at = "done" => n + 1 = report.days + 1) /\ (n + 1) - 1 = n
    <3>1. at = "days" => (n + 1) + left = report.days
      BY <1>3, <1>7
    <3>2. at = "done" => n + 1 = report.days + 1
      BY <1>3, <1>7
    <3>. QED BY <1>3, <1>6, <3>1, <3>2
  <2>. QED BY <1>1, <1>3, <1>6, <1>7, <1>8, <1>10, <1>11, <2>1, <2>2 DEF Listing
<1>. QED BY <1>1, <1>7, <1>8, <1>12 DEF DaysInv

LEMMA ClockStep ==
    ASSUME DaysInv, report' = report, time' \in Nat, time <= time'
    PROVE  DaysInv'
<1>1. CASE report.at = "idle"
  BY <1>1 DEF DaysInv
<1>2. CASE report.at # "idle"
  <2>1. Listing /\ time \in Nat
    BY <1>2 DEF DaysInv
  <2>2. report.list \in Seq(Entries) /\ report.asked \in Nat /\ report.days \in Nat
        /\ Len(report.list) \in Nat
    BY <2>1, LenProperties DEF Listing
  <2>3. DayOf(time) \in Int /\ DayOf(time') \in Int /\ DayOf(time) <= DayOf(time')
    <3>1. time \in Int /\ time' \in Int
      BY <2>1
    <3>. QED BY <3>1, DayIsInt, DaysInOrder
  <2>4. ASSUME NEW k \in 1..Len(report.list) PROVE Dated(k)'
    <3>1. Dated(k) /\ report.list[k].date \in Int
      <4>1. report.list[k] \in Entries
        BY <2>2, ElementOfSeq
      <4>. QED BY <2>1, <4>1 DEF Listing, Entries
    <3>2. report.list[k].date <= DayOf(time') - (report.days + 1 - k)
      <4>1. report.list[k].date <= DayOf(time) - (report.days + 1 - k)
        BY <3>1 DEF Dated
      <4>2. k \in Int
        OBVIOUS
      <4>3. \A x, p, q, n, i \in Int :
               x <= p - (n + 1 - i) /\ p <= q => x <= q - (n + 1 - i)
        OBVIOUS
      <4>4. report.days \in Int
        BY <2>2
      <4>. QED BY ONLY <2>3, <3>1, <4>1, <4>2, <4>3, <4>4
    <3>. QED BY <3>1, <3>2 DEF Dated, DayOf
  <2>5. Entries' = Entries /\ report.asked <= time'
    BY <2>1, <2>2 DEF Entries, Listing
  <2>6. Listing'
    BY <2>1, <2>2, <2>4, <2>5 DEF Listing
  <2>. QED BY <2>6 DEF DaysInv
<1>. QED BY <1>1, <1>2

LEMMA DaysInvHolds == AnalyticsSpec => []DaysInv
<1>1. AnalyticsInit => DaysInv
  BY NoReportIs DEF AnalyticsInit, DaysInv
<1>2. DaysInv /\ [AnalyticsNext]_analyticsVars => DaysInv'
  <2> SUFFICES ASSUME DaysInv, [AnalyticsNext]_analyticsVars PROVE DaysInv'
    OBVIOUS
  <2>1. time \in Nat
    BY DEF DaysInv
  <2>2. CASE \/ \E j \in AllJobs : RunStarts(j) \/ JobDeleted(j)
             \/ \E i \in DOMAIN history, s \in Statuses \ {"running"} : RunEndsAs(i, s)
             \/ UNCHANGED analyticsVars \/ TimePasses
    <3>1. report' = report /\ (time' = time \/ time' = time + 1)
      BY <2>2 DEF RunStarts, JobDeleted, RunEndsAs, analyticsVars, TimePasses
    <3>. QED BY <2>1, <3>1, ClockStep
  <2>3. CASE \E days \in Spans, jobs \in {MyJobs} \union {{j} : j \in MyJobs \cap existing} :
                TimelineQuery(jobs, days)
    BY <2>3, QueryStep
  <2>4. CASE TimelineDay
    BY <2>4, DayStep
  <2>5. CASE TimelineAnswer
    BY <2>1, <2>5, NoReportIs DEF TimelineAnswer, DaysInv
  <2>. QED BY <2>2, <2>3, <2>4, <2>5 DEF AnalyticsNext
<1>. QED BY <1>1, <1>2, PTL DEF AnalyticsSpec

\* On the day the list was asked for, its dates are those asked for.
LEMMA DatesToday ==
    ASSUME DaysInv, report.at # "idle", DayOf(time) = DayOf(report.asked),
           NEW k \in 1..Len(report.list)
    PROVE  report.list[k].date = DayOf(report.asked) - (report.days + 1 - k)
<1>1. /\ report.asked \in Int /\ report.days \in Int /\ k \in Int
      /\ report.list \in Seq(Entries) /\ Dated(k)
  BY DEF DaysInv, Listing
<1>2. report.list[k].date \in Int
  <2>1. report.list[k] \in Entries
    BY <1>1, ElementOfSeq
  <2>. QED BY <2>1 DEF Entries
<1>3. DayOf(report.asked) \in Int
  BY <1>1, DayIsInt
<1>4. \A D, c, i, x \in Int :
         D - (c + 1 - i) <= x /\ x <= D - (c + 1 - i) => x = D - (c + 1 - i)
  OBVIOUS
<1>5. DayOf(report.asked) - (report.days + 1 - k) <= report.list[k].date
      /\ report.list[k].date <= DayOf(report.asked) - (report.days + 1 - k)
  BY <1>1 DEF Dated
<1>. QED BY ONLY <1>1, <1>2, <1>3, <1>4, <1>5

\* A timeline lists each of its days once, in order and up to today
\* (get_timeline and get_job_timeline), also when midnight passes meanwhile.
THEOREM DaysHold == AnalyticsSpec => []DaysListed
<1>1. DaysInv => DaysListed
  <2> SUFFICES ASSUME DaysInv, report.at = "done" PROVE DaysListed
    BY DEF DaysListed
  <2> DEFINE n == Len(report.list)
  <2>1. /\ Listing /\ time \in Nat /\ report.days \in Nat /\ n = report.days + 1
        /\ report.asked \in Nat /\ report.list \in Seq(Entries) /\ n \in Nat
    BY LenProperties DEF DaysInv, Listing
  <2>2. DayOf(time) \in Int /\ DayOf(report.asked) \in Int
    <3>1. time \in Int /\ report.asked \in Int
      BY <2>1
    <3>. QED BY <3>1, DayIsInt
  <2>3. \A k \in 1..n : Dated(k) /\ report.list[k].date \in Int
    <3>1. \A k \in 1..n : report.list[k] \in Entries
      BY <2>1, ElementOfSeq
    <3>. QED BY <2>1, <3>1 DEF Listing, Entries
  <2>4. ASSUME NEW k \in 1..(n - 1)
        PROVE  report.list[k].date < report.list[k + 1].date
    <3>1. k \in 1..n /\ k + 1 \in 1..n /\ k < k + 1
      BY <2>1
    <3>. QED BY <2>1, <3>1 DEF Listing
  <2> HIDE DEF n
  <2>5. report.list[n].date \in DayOf(report.asked)..DayOf(time)
    <3>1. n \in 1..n /\ report.days + 1 - n = 0
      BY <2>1
    <3>2. Dated(n) /\ report.list[n].date \in Int
      BY <2>3, <3>1
    <3>. QED BY <2>2, <3>1, <3>2 DEF Dated
  <2>6. ASSUME DayOf(time) = DayOf(report.asked), NEW k \in 1..(n - 1)
        PROVE  report.list[k + 1].date = report.list[k].date + 1
    <3>1. k \in 1..n /\ k + 1 \in 1..n /\ k \in Int
      BY <2>1
    <3>2. /\ report.list[k].date = DayOf(report.asked) - (report.days + 1 - k)
          /\ report.list[k + 1].date = DayOf(report.asked) - (report.days + 1 - (k + 1))
      BY <2>6, <3>1, DatesToday DEF n
    <3>3. \A D, c, i \in Int : D - (c + 1 - (i + 1)) = D - (c + 1 - i) + 1
      OBVIOUS
    <3>4. report.days \in Int
      BY <2>1
    <3>5. DayOf(report.asked) - (report.days + 1 - (k + 1))
             = DayOf(report.asked) - (report.days + 1 - k) + 1
      BY ONLY <2>2, <3>1, <3>3, <3>4
    <3>. QED BY ONLY <3>2, <3>5
  <2>. QED BY <2>1, <2>4, <2>5, <2>6 DEF DaysListed, n
<1>. QED BY <1>1, DaysInvHolds, PTL

-----------------------------------------------------------------------------
(* What a timeline counts *)

Counted(seen, d, s) == {r \in seen : DayOf(r[2].at) = d /\ r[2].status = s}

\* The runs seen began on the days asked for, and those of a day are counted.
Counting ==
    /\ IsFiniteSet(report.seen)
    /\ \A r \in report.seen :
          /\ r[2].at \in Int
          /\ report.asked - report.days * Day <= r[2].at
          /\ r[2].at <= report.asked
    /\ \A k \in 1..Len(report.list) :
          report.list[k].count =
             [s \in Shown |-> Cardinality(Counted(report.seen, report.list[k].date, s))]

CountInv == report.at # "idle" => Counting

LEMMA QueryCounts ==
    ASSUME TableInv, DaysInv, NEW mine, NEW days \in Spans,
           TimelineQuery(mine, days)
    PROVE  CountInv'
<1> DEFINE ids == {i \in RowIds(mine) : history[i].at >= time - days * Day}
           seen == {<<i, history[i]>> : i \in ids}
<1>1. report' = [at |-> "days", days |-> days, left |-> days, asked |-> time,
                 list |-> <<>>, seen |-> seen]
  BY DEF TimelineQuery
<1>2. /\ report'.days = days /\ report'.asked = time /\ report'.list = <<>>
      /\ report'.seen = seen
  BY <1>1
<1>3. ids \subseteq DOMAIN history
  BY DEF RowIds
<1>4. IsFiniteSet(seen)
  <2>1. IsFiniteSet(ids)
    BY <1>3, HistoryIs, FS_Subset DEF TableInv
  <2> HIDE DEF ids
  <2>2. PICK f : f = [i \in ids |-> <<i, history[i]>>]
    OBVIOUS
  <2>3. seen = {f[i] : i \in ids}
    BY <2>2
  <2>. QED BY <2>1, <2>3, FiniteImage
<1>5. ASSUME NEW r \in seen
      PROVE  r[2].at \in Int /\ time - days * Day <= r[2].at /\ r[2].at <= time
  <2>1. PICK i \in ids : r = <<i, history[i]>>
    OBVIOUS
  <2>2. r[2] = history[i] /\ history[i].at >= time - days * Day
    BY <2>1
  <2>3. history[i] \in Execution /\ history[i].at <= time
    BY <1>3, HistoryIs DEF TableInv, Timely
  <2>4. history[i].at \in Int
    BY <2>3, AnalyticsAssumption DEF Execution
  <2>5. time - days * Day \in Int
    BY AnalyticsAssumption DEF DaysInv
  <2> HIDE DEF ids
  <2>. QED BY ONLY <2>2, <2>3, <2>4, <2>5
<1> HIDE DEF seen
<1>6. Len(<<>>) = 0
  BY EmptySeq
<1>. QED BY <1>2, <1>4, <1>5, <1>6 DEF CountInv, Counting

LEMMA DayCounts ==
    ASSUME DaysInv, CountInv, TimelineDay
    PROVE  CountInv'
<1> DEFINE n == Len(report.list)
           d == DayOf(time - report.left * Day)
           entry == [date |-> d, count |-> [s \in Shown |-> Cardinality(Counted(report.seen, d, s))]]
<1>1. /\ report.at = "days" /\ Listing /\ Counting
      /\ DOMAIN report = {"at", "days", "left", "asked", "list", "seen"}
  BY DEF DaysInv, CountInv, TimelineDay
<1>2. /\ report'.list = Append(report.list, entry)
      /\ report'.seen = report.seen /\ report'.asked = report.asked
      /\ report'.days = report.days
  BY <1>1 DEF TimelineDay, Counted
<1>3. report.list \in Seq(Entries) /\ n \in Nat
  BY <1>1, LenProperties DEF Listing
<1>4. entry \in Entries
  <2>1. d \in Int
    <3>1. time \in Int /\ report.left \in Int
      BY <1>1 DEF DaysInv, Listing
    <3>2. time - report.left * Day \in Int
      BY <3>1, AnalyticsAssumption
    <3>. QED BY <3>2, DayIsInt
  <2>2. [s \in Shown |-> Cardinality(Counted(report.seen, d, s))]
           \in [Shown -> {Cardinality(x) : x \in SUBSET report.seen}]
    BY DEF Counted
  <2> HIDE DEF d
  <2>. QED BY <2>1, <2>2 DEF Entries
<1>5. entry.count = [s \in Shown |-> Cardinality(Counted(report.seen, entry.date, s))]
  OBVIOUS
<1> HIDE DEF entry
<1>6. /\ Len(report'.list) = n + 1 /\ report'.list[n + 1] = entry
      /\ \A k \in 1..n : report'.list[k] = report.list[k]
  BY <1>2, <1>3, <1>4, AppendProperties
<1>7. \A k \in 1..(n + 1) : k \in 1..n \/ k = n + 1
  BY <1>3
<1> HIDE DEF n
<1>9. ASSUME NEW k \in 1..(n + 1)
      PROVE  report'.list[k].count =
                [s \in Shown |-> Cardinality(Counted(report'.seen, report'.list[k].date, s))]
  <2>1. CASE k \in 1..n
    BY <1>1, <1>2, <1>6, <2>1 DEF Counting, n
  <2>2. CASE k = n + 1
    BY <1>5, <1>2, <1>6, <2>2
  <2>. QED BY <1>7, <2>1, <2>2
<1>. QED BY <1>1, <1>2, <1>6, <1>9 DEF CountInv, Counting

LEMMA CountInvHolds == AnalyticsSpec => [](TableInv /\ DaysInv /\ CountInv)
<1>1. AnalyticsInit => CountInv
  BY NoReportIs DEF AnalyticsInit, CountInv
<1>2. TableInv /\ DaysInv /\ CountInv /\ [AnalyticsNext]_analyticsVars => CountInv'
  <2> SUFFICES ASSUME TableInv, DaysInv, CountInv,
                      [AnalyticsNext]_analyticsVars
               PROVE  CountInv'
    OBVIOUS
  <2>1. CASE \/ \E j \in AllJobs : RunStarts(j) \/ JobDeleted(j)
             \/ \E i \in DOMAIN history, s \in Statuses \ {"running"} : RunEndsAs(i, s)
             \/ UNCHANGED analyticsVars \/ TimePasses
    <3>1. report' = report
      BY <2>1 DEF RunStarts, JobDeleted, RunEndsAs, analyticsVars, TimePasses
    <3>. QED BY <3>1 DEF CountInv, Counting, Counted, DayOf
  <2>2. CASE \E days \in Spans, mine \in {MyJobs} \union {{j} : j \in MyJobs \cap existing} :
                TimelineQuery(mine, days)
    BY <2>2, QueryCounts
  <2>3. CASE TimelineDay
    BY <2>3, DayCounts
  <2>4. CASE TimelineAnswer
    BY <2>4, NoReportIs DEF TimelineAnswer, CountInv
  <2>. QED BY <2>1, <2>2, <2>3, <2>4 DEF AnalyticsNext
<1>. QED BY <1>1, <1>2, TableInvHolds, DaysInvHolds, PTL DEF AnalyticsSpec
\* A day's entry counts the runs of that day that are shown.
LEMMA DayTotal ==
    ASSUME DaysInv, CountInv, report.at # "idle",
           NEW k \in 1..Len(report.list), NEW runs,
           runs = {r \in report.seen : /\ DayOf(r[2].at) = report.list[k].date
                                       /\ r[2].status \in Shown}
    PROVE  /\ IsFiniteSet(runs)
           /\ SumFunction(report.list[k].count) = Cardinality(runs)
<1>1. Counting
  BY DEF CountInv
<1>2. PICK P : P = [s \in Shown |-> Counted(report.seen, report.list[k].date, s)]
  OBVIOUS
<1>3. report.list[k].count = [s \in Shown |-> Cardinality(P[s])]
  BY <1>1, <1>2 DEF Counting
<1>4. IsFiniteSet(Shown)
  <2>1. Shown = {"running", "success", "failure"}
    BY DEF Shown, Statuses
  <2>2. IsFiniteSet({"running", "success", "failure"})
    <3>1. IsFiniteSet({} \union {"running"} \union {"success"} \union {"failure"})
      BY FS_EmptySet, FS_AddElement
    <3>2. {"running", "success", "failure"} =
             {} \union {"running"} \union {"success"} \union {"failure"}
      OBVIOUS
    <3>. QED BY <3>1, <3>2
  <2>. QED BY <2>1, <2>2
<1>5. \A s \in Shown : IsFiniteSet(P[s])
  <2>1. \A s \in Shown : P[s] \subseteq report.seen
    BY <1>2 DEF Counted
  <2>. QED BY <1>1, <2>1, FS_Subset DEF Counting
<1>6. \A s, t \in Shown : s # t => P[s] \cap P[t] = {}
  BY <1>2 DEF Counted
<1>7. Together(P, Shown) = runs
  BY <1>2 DEF Together, Counted
<1>8. InParts(report.list[k].count, P, Shown)
  BY <1>3, <1>4, <1>5, <1>6 DEF InParts
<1>. QED BY <1>7, <1>8, SumOfParts

\* A run seen is of one of the days asked for.
LEMMA SeenOnDay ==
    ASSUME DaysInv, CountInv, report.at # "idle",
           DayOf(time) = DayOf(report.asked),
           Len(report.list) = report.days + 1, NEW r \in report.seen
    PROVE  \E k \in 1..Len(report.list) : DayOf(r[2].at) = report.list[k].date
<1> DEFINE t == r[2].at
           k == DayOf(t) - DayOf(report.asked) + report.days + 1
<1>1. /\ report.asked \in Int /\ report.days \in Int /\ t \in Int
      /\ report.asked - report.days * Day <= t /\ t <= report.asked
  BY DEF CountInv, Counting, DaysInv, Listing
<1> HIDE DEF t
<1>2. report.asked - report.days * Day \in Int
  BY <1>1, AnalyticsAssumption
<1>3. /\ DayOf(report.asked) - report.days <= DayOf(t)
      /\ DayOf(t) <= DayOf(report.asked)
  BY <1>1, <1>2, DaysInOrder, DaysBack
<1>4. DayOf(t) \in Int /\ DayOf(report.asked) \in Int
  BY <1>1, DayIsInt
<1>5. \A a, b, c \in Int :
         /\ a - c <= b /\ b <= a =>
            /\ b - a + c + 1 \in 1..(c + 1)
            /\ a - (c + 1 - (b - a + c + 1)) = b
  OBVIOUS
<1>6. k \in 1..Len(report.list)
      /\ DayOf(report.asked) - (report.days + 1 - k) = DayOf(t)
  <2>1. /\ DayOf(t) - DayOf(report.asked) + report.days + 1 \in 1..(report.days + 1)
        /\ DayOf(report.asked) - (report.days + 1
             - (DayOf(t) - DayOf(report.asked) + report.days + 1)) = DayOf(t)
    BY ONLY <1>1, <1>3, <1>4, <1>5
  <2>2. k = DayOf(t) - DayOf(report.asked) + report.days + 1
    OBVIOUS
  <2> HIDE DEF k
  <2>. QED BY ONLY <2>1, <2>2, Len(report.list) = report.days + 1
<1> HIDE DEF k
<1>7. report.list[k].date = DayOf(t)
  <2>1. report.list[k].date = DayOf(report.asked) - (report.days + 1 - k)
    BY <1>6, DatesToday
  <2>. QED BY ONLY <1>6, <2>1
<1>. QED BY <1>6, <1>7 DEF t

\* A run that the timeline's query returned is counted on one of the days listed
\* and on no other, unless midnight passes meanwhile (get_timeline and
\* get_job_timeline).
THEOREM CountHolds == AnalyticsSpec => []CountedOnce
<1>1. TableInv /\ DaysInv /\ CountInv => CountedOnce
  <2> SUFFICES ASSUME DaysInv, CountInv, report.at = "done" PROVE CountedOnce
    BY DEF CountedOnce
  <2> DEFINE shown == {r \in report.seen : r[2].status \in Shown}
             n == Len(report.list)
             f == [k \in DOMAIN report.list |-> SumFunction(report.list[k].count)]
             Q == [k \in 1..n |->
                     {r \in report.seen : /\ DayOf(r[2].at) = report.list[k].date
                                          /\ r[2].status \in Shown}]
             all == Together(Q, 1..n)
  <2>1. /\ Listing /\ Counting /\ n \in Nat /\ n = report.days + 1
        /\ DOMAIN report.list = 1..n /\ report.list \in Seq(Entries)
    BY LenProperties DEF DaysInv, CountInv, Listing
  <2>2. \A k \in 1..n : /\ IsFiniteSet(Q[k])
                        /\ SumFunction(report.list[k].count) = Cardinality(Q[k])
    BY DayTotal
  <2>3. f = [k \in 1..n |-> Cardinality(Q[k])]
    BY <2>1, <2>2
  <2>4. \A i, k \in 1..n : i # k => Q[i] \cap Q[k] = {}
    <3>1. \A i \in 1..n : report.list[i].date \in Int
      <4>1. \A i \in 1..n : report.list[i] \in Entries
        BY <2>1, ElementOfSeq
      <4>. QED BY <4>1 DEF Entries
    <3>2. \A i, k \in 1..n : i < k => report.list[i].date < report.list[k].date
      BY <2>1 DEF Listing
    <3>3. \A i, k \in 1..n : i # k => report.list[i].date # report.list[k].date
      <4>1. \A i, k \in 1..n : i # k => i < k \/ k < i
        BY <2>1
      <4> HIDE DEF n
      <4>. QED BY <3>1, <3>2, <4>1
    <3>. QED BY <3>3
  <2>5. IsFiniteSet(1..n)
    BY <2>1, FS_Interval
  <2>6. all \subseteq shown /\ IsFiniteSet(shown)
    <3>1. shown \subseteq report.seen /\ IsFiniteSet(report.seen)
      BY <2>1 DEF Counting
    <3>2. all \subseteq shown
      BY DEF Together
    <3>. QED BY <3>1, <3>2, FS_Subset
  <2>7. DayOf(time) = DayOf(report.asked) => all = shown
    <3> SUFFICES ASSUME DayOf(time) = DayOf(report.asked), NEW r \in shown
                 PROVE  r \in all
      BY <2>6
    <3>1. PICK k \in 1..n : DayOf(r[2].at) = report.list[k].date
      BY <2>1, SeenOnDay
    <3>2. r \in Q[k]
      BY <3>1
    <3>. QED BY <3>2 DEF Together
  <2> HIDE DEF Q, f, n
  <2>8. SumFunction(f) = Cardinality(all)
    <3>1. InParts(f, Q, 1..n)
      BY <2>2, <2>3, <2>4, <2>5 DEF InParts
    <3>. QED BY <3>1, SumOfParts
  <2> HIDE DEF all
  <2>9. Cardinality(all) <= Cardinality(shown)
    BY <2>6, FS_Subset
  <2>. QED BY <2>7, <2>8, <2>9 DEF CountedOnce, f
<1>. QED BY <1>1, CountInvHolds, PTL
-----------------------------------------------------------------------------
(* Reports *)

\* A set of times that is not empty has a first and a last.
LEMMA Extremes ==
    ASSUME NEW N \in Nat, NEW T \in SUBSET (0..N), T # {}
    PROVE  /\ Min(T) \in T /\ Max(T) \in T
           /\ \A y \in T : Min(T) <= y /\ y <= Max(T)
<1>1. \E x \in T : \A y \in T : x <= y
  <2>1. T \subseteq Nat
    OBVIOUS
  <2>. QED BY <2>1, Least
<1>2. \E x \in T : \A y \in T : x >= y
  <2> DEFINE M == {N - y : y \in T}
  <2>1. M \subseteq Nat /\ M # {}
    <3>1. \A y \in T : N - y \in Nat
      OBVIOUS
    <3>. QED BY <3>1
  <2>2. PICK m \in M : \A k \in M : m <= k
    BY <2>1, Least
  <2>3. PICK x \in T : m = N - x
    OBVIOUS
  <2>4. \A y \in T : x >= y
    <3>1. \A y \in T : N - x <= N - y
      BY <2>2, <2>3
    <3>. QED BY <3>1
  <2>. QED BY <2>4
<1>. QED BY <1>1, <1>2 DEF Min, Max

\* What every job's own page says, summed over the jobs that have runs, is what
\* the page of all of them says.
LEMMA ByJob ==
    ASSUME TableInv, NEW J \in SUBSET (MyJobs \cap existing),
           \A i \in RowIds(MyJobs) : history[i].job \in J, NEW some
    PROVE  SumFunction([j \in J |-> Cardinality(RowIds({j}) \cap some)]) =
              Cardinality(RowIds(MyJobs) \cap some)
<1>1. PICK P : P = [j \in J |-> RowIds({j}) \cap some]
  OBVIOUS
<1>2. PICK f : f = [j \in J |-> Cardinality(RowIds({j}) \cap some)]
  OBVIOUS
<1>3. IsFiniteSet(J)
  BY AnalyticsAssumption, FS_Subset
<1>4. \A j \in J : IsFiniteSet(P[j])
  <2>1. \A j \in J : P[j] \subseteq DOMAIN history
    BY <1>1 DEF RowIds
  <2>. QED BY <2>1, HistoryIs, FS_Subset DEF TableInv
<1>5. \A j, k \in J : j # k => P[j] \cap P[k] = {}
  BY <1>1 DEF RowIds
<1>6. Together(P, J) = RowIds(MyJobs) \cap some
  BY <1>1 DEF Together, RowIds
<1>7. InParts(f, P, J)
  BY <1>1, <1>2, <1>3, <1>4, <1>5 DEF InParts
<1>. QED BY <1>2, <1>6, <1>7, SumOfParts

\* A job's average lies between its shortest and its longest run.
LEMMA AverageBetween ==
    ASSUME TableInv, NEW j
    PROVE  LET t == JobStats(j) IN
              /\ t.avg[1] >= t.min * t.avg[2] /\ t.avg[1] <= t.max * t.avg[2]
<1> DEFINE ids == RowIds({j})
           timed == {history[i].duration : i \in Timed(ids)}
           max == IF timed = {} THEN 0 ELSE Max(timed)
           min == IF timed = {} THEN 0 ELSE Min(timed)
<1>1. PICK f : f = [i \in Timed(ids) |-> history[i].duration]
  OBVIOUS
<1>2. Timed(ids) \subseteq DOMAIN history
  BY DEF Timed, RowIds
<1>3. IsFiniteSet(DOMAIN f) /\ DOMAIN f = Timed(ids)
  BY <1>1, <1>2, HistoryIs, FS_Subset DEF TableInv
<1>4. timed \in SUBSET (0..MaxTime)
  <2>1. \A i \in Timed(ids) : history[i].duration \in 0..MaxTime
    BY <1>2, HistoryIs DEF TableInv, Timed, Execution
  <2>. QED BY <2>1
<1>5. \A i \in Timed(ids) : f[i] \in timed
  BY <1>1
<1> HIDE DEF timed
<1>6. /\ min \in Int /\ max \in Int
      /\ \A i \in DOMAIN f : f[i] \in min..max
  <2>1. CASE timed = {}
    BY <1>3, <1>5, <2>1
  <2>2. CASE timed # {}
    <3>1. /\ Min(timed) \in timed /\ Max(timed) \in timed
          /\ \A y \in timed : Min(timed) <= y /\ y <= Max(timed)
      BY <1>4, <2>2, AnalyticsAssumption, Extremes
    <3>2. \A y \in timed : y \in Int
      BY <1>4, AnalyticsAssumption
    <3>. QED BY <1>3, <1>5, <2>2, <3>1, <3>2
  <2>. QED BY <2>1, <2>2
<1> HIDE DEF min, max
<1>7. /\ SumFunction(f) \in Int
      /\ min * Cardinality(Timed(ids)) <= SumFunction(f)
      /\ SumFunction(f) <= max * Cardinality(Timed(ids))
  BY <1>3, <1>6, SumBetween
<1>8. Cardinality(Timed(ids)) \in Nat
  BY <1>3, FS_CardinalityType
<1>9. /\ JobStats(j).avg[1] = SumFunction(f)
      /\ JobStats(j).avg[2] = Cardinality(Timed(ids))
      /\ JobStats(j).min = min /\ JobStats(j).max = max
  BY <1>1 DEF JobStats, Durations, min, max, timed
<1> HIDE DEF ids
<1>10. min * Cardinality(Timed(ids)) \in Int /\ max * Cardinality(Timed(ids)) \in Int
  BY <1>6, <1>8
<1>. QED BY <1>7, <1>9, <1>10

\* A trend of one is the last run, if it has ended.
LEMMA TrendEnds ==
    ASSUME TableInv, NEW j,
           LET t == JobStats(j)
           IN  t.last # 0 /\ history[t.last].status # "running"
    PROVE  Trend(j, 1) = {JobStats(j).last}
<1> DEFINE ids == RowIds({j})
           last == JobStats(j).last
           timed == Timed(ids)
           later(i) == {k \in timed : k > i}
<1>1. last = IF ids = {} THEN 0 ELSE Max(ids)
  BY DEF JobStats
<1>2. /\ ids # {} /\ last = Max(ids) /\ history[last].status # "running"
  BY <1>1
<1>3. /\ ids \subseteq DOMAIN history /\ Len(history) \in Nat
      /\ DOMAIN history = 1..Len(history)
  BY HistoryIs DEF RowIds, TableInv
<1>4. last \in ids /\ \A i \in ids : i <= last
  <2> HIDE DEF ids
  <2>1. ids \in SUBSET (0..Len(history))
    BY <1>3
  <2>. QED BY <1>2, <1>3, <2>1, Extremes
<1>5. last \in timed /\ timed \subseteq ids
  BY <1>2, <1>3, <1>4 DEF TableInv, Timely, Timed
<1> HIDE DEF timed, last, ids
<1>6. \A i \in timed : i \in Int
  BY <1>3, <1>5
<1>7. \A i \in timed : IsFiniteSet(later(i))
  <2>1. IsFiniteSet(timed)
    BY <1>3, <1>5, HistoryIs, FS_Subset DEF TableInv
  <2>2. \A i \in timed : later(i) \in SUBSET timed
    OBVIOUS
  <2> HIDE DEF later
  <2>. QED BY <2>1, <2>2, FS_Subset
<1>8. later(last) = {}
  BY <1>4, <1>5, <1>6
<1>9. \A i \in timed : i # last => later(i) # {}
  BY <1>4, <1>5, <1>6
<1>10. \A i \in timed : Cardinality(later(i)) < 1 <=> i = last
  <2> SUFFICES ASSUME NEW i \in timed
               PROVE  Cardinality(later(i)) < 1 <=> i = last
    OBVIOUS
  <2>1. Cardinality(later(i)) \in Nat /\ (Cardinality(later(i)) = 0 <=> later(i) = {})
    <3> HIDE DEF later
    <3>. QED BY <1>7, FS_CardinalityType, FS_EmptySet
  <2>2. i = last <=> later(i) = {}
    <3> HIDE DEF later
    <3>. QED BY <1>8, <1>9
  <2> HIDE DEF later
  <2>. QED BY <2>1, <2>2
<1>11. Trend(j, 1) = {i \in timed : Cardinality(later(i)) < 1}
  BY DEF Trend, timed, ids
<1> HIDE DEF later
<1>. QED BY <1>5, <1>10, <1>11 DEF last

\* Every run of the heatmap is in the header, and in one bucket.
LEMMA HeatmapWithin ==
    ASSUME TableInv, NEW days
    PROVE  SumFunction(Heatmap(days)) <= Cardinality(RowIds(MyJobs))
<1> DEFINE ids == {i \in RowIds(MyJobs) : history[i].at >= time - days * Day}
           bucket(i) == <<history[i].at % Day, DayOf(history[i].at) % 7>>
           buckets == {bucket(i) : i \in ids}
<1>1. PICK P : P = [b \in buckets |-> {i \in ids : bucket(i) = b}]
  OBVIOUS
<1>2. IsFiniteSet(RowIds(MyJobs)) /\ IsFiniteSet(ids)
  <2>1. RowIds(MyJobs) \subseteq DOMAIN history /\ ids \subseteq RowIds(MyJobs)
    BY DEF RowIds
  <2> HIDE DEF ids
  <2>. QED BY <2>1, HistoryIs, FS_Subset DEF TableInv
<1>3. IsFiniteSet(buckets)
  <2>1. PICK f : f = [i \in ids |-> bucket(i)]
    OBVIOUS
  <2>2. buckets = {f[i] : i \in ids}
    BY <2>1
  <2> HIDE DEF buckets, ids
  <2>. QED BY <1>2, <2>2, FiniteImage
<1>4. \A b \in buckets : IsFiniteSet(P[b])
  <2>1. \A b \in buckets : P[b] \subseteq ids
    BY <1>1
  <2> HIDE DEF buckets, ids
  <2>. QED BY <1>2, <2>1, FS_Subset
<1>5. \A a, b \in buckets : a # b => P[a] \cap P[b] = {}
  <2> HIDE DEF buckets, ids, bucket
  <2>. QED BY <1>1
<1>6. InParts(Heatmap(days), P, buckets)
  <2>1. Heatmap(days) = [b \in buckets |-> Cardinality({i \in ids : bucket(i) = b})]
    BY DEF Heatmap
  <2> HIDE DEF buckets, ids, bucket
  <2>2. Heatmap(days) = [b \in buckets |-> Cardinality(P[b])]
    BY <1>1, <2>1
  <2>. QED BY <1>3, <1>4, <1>5, <2>2 DEF InParts
<1>7. Together(P, buckets) \subseteq RowIds(MyJobs)
  <2>1. \A b \in buckets : P[b] \subseteq RowIds(MyJobs)
    BY <1>1
  <2>. QED BY <2>1 DEF Together
<1> HIDE DEF buckets
<1>8. SumFunction(Heatmap(days)) = Cardinality(Together(P, buckets))
  BY <1>6, SumOfParts
<1>. QED BY <1>2, <1>7, <1>8, FS_Subset

LEMMA SumsAgree ==
    ASSUME TableInv
    PROVE  LET o == Overview
               b == Breakdown
               my == MyJobs \cap existing
               stats == [j \in my |-> JobStats(j)]
           IN  /\ o.total = SumFunction([j \in DOMAIN b |-> b[j].total])
               /\ o.total = SumFunction([j \in my |-> stats[j].total])
               /\ \A s \in Shown :
                     o.count[s] = SumFunction([j \in DOMAIN b |-> b[j].count[s]])
               /\ \A n \in 1..2 :
                     o.success_rate[n] =
                        SumFunction([j \in my |-> stats[j].success_rate[n]])
<1> DEFINE o == Overview
           b == Breakdown
           my == MyJobs \cap existing
           stats == [j \in my |-> JobStats(j)]
           J == {history[i].job : i \in RowIds(MyJobs)}
           all == RowIds(MyJobs)
           Shows(s) == {i \in DOMAIN history : history[i].status = s}
           Ended == Shows("success") \union Shows("failure")
<1>1. /\ J \in SUBSET my /\ \A i \in all : history[i].job \in J
      /\ my \in SUBSET my /\ \A i \in all : history[i].job \in my
  BY DEF RowIds
<1>2. \A mine : /\ RowIds(mine) \cap DOMAIN history = RowIds(mine)
                /\ \A s : With(RowIds(mine), s) = RowIds(mine) \cap Shows(s)
                /\ With(RowIds(mine), "success") \union With(RowIds(mine), "failure") =
                      RowIds(mine) \cap Ended
  BY DEF RowIds, With
<1>3. /\ o.total = Cardinality(all)
      /\ \A s \in Shown : o.count[s] = Cardinality(With(all, s))
      /\ o.success_rate = Rate(all)
  BY DEF Overview
<1>4. /\ DOMAIN b = J
      /\ \A j \in J : /\ b[j].total = Cardinality(RowIds({j}))
                      /\ \A s \in Shown :
                            b[j].count[s] = Cardinality(With(RowIds({j}), s))
  BY DEF Breakdown
<1>5. \A j \in my : /\ stats[j].total = Cardinality(RowIds({j}))
                    /\ stats[j].success_rate = Rate(RowIds({j}))
  BY DEF JobStats
<1> HIDE DEF o, b, stats, J, all, my, Shows, Ended
<1>6. o.total = SumFunction([j \in DOMAIN b |-> b[j].total])
  <2>1. [j \in DOMAIN b |-> b[j].total] =
           [j \in J |-> Cardinality(RowIds({j}) \cap DOMAIN history)]
    BY <1>2, <1>4
  <2>. QED BY <1>1, <1>2, <1>3, <2>1, ByJob DEF all, my
<1>7. o.total = SumFunction([j \in my |-> stats[j].total])
  <2>1. [j \in my |-> stats[j].total] =
           [j \in my |-> Cardinality(RowIds({j}) \cap DOMAIN history)]
    BY <1>2, <1>5
  <2>. QED BY <1>1, <1>2, <1>3, <2>1, ByJob DEF all, my
<1>8. ASSUME NEW s \in Shown
      PROVE  o.count[s] = SumFunction([j \in DOMAIN b |-> b[j].count[s]])
  <2>1. [j \in DOMAIN b |-> b[j].count[s]] =
           [j \in J |-> Cardinality(RowIds({j}) \cap Shows(s))]
    BY <1>2, <1>4
  <2>. QED BY <1>1, <1>2, <1>3, <2>1, ByJob DEF all, my
<1>9. \A mine : /\ Rate(RowIds(mine))[1] = Cardinality(RowIds(mine) \cap Shows("success"))
                /\ Rate(RowIds(mine))[2] = Cardinality(RowIds(mine) \cap Ended)
  BY <1>2 DEF Rate
<1>10. ASSUME NEW j \in my
       PROVE  /\ stats[j].success_rate[1] =
                    Cardinality(RowIds({j}) \cap Shows("success"))
              /\ stats[j].success_rate[2] = Cardinality(RowIds({j}) \cap Ended)
  BY <1>5, <1>9
<1>11. o.success_rate[1] = SumFunction([j \in my |-> stats[j].success_rate[1]])
  <2>1. [j \in my |-> stats[j].success_rate[1]] =
           [j \in my |-> Cardinality(RowIds({j}) \cap Shows("success"))]
    BY ONLY <1>10
  <2>2. SumFunction([j \in my |->
                        Cardinality(RowIds({j}) \cap Shows("success"))]) =
           Cardinality(all \cap Shows("success"))
    BY <1>1, ByJob DEF all, my
  <2>3. o.success_rate[1] = Cardinality(all \cap Shows("success"))
    BY <1>3, <1>9 DEF all
  <2>. QED BY ONLY <2>1, <2>2, <2>3
<1>12. o.success_rate[2] = SumFunction([j \in my |-> stats[j].success_rate[2]])
  <2>1. [j \in my |-> stats[j].success_rate[2]] =
           [j \in my |-> Cardinality(RowIds({j}) \cap Ended)]
    BY ONLY <1>10
  <2>2. SumFunction([j \in my |-> Cardinality(RowIds({j}) \cap Ended)]) =
           Cardinality(all \cap Ended)
    BY <1>1, ByJob DEF all, my
  <2>3. o.success_rate[2] = Cardinality(all \cap Ended)
    BY <1>3, <1>9 DEF all
  <2>. QED BY ONLY <2>1, <2>2, <2>3
<1>13. \A n \in 1..2 : n = 1 \/ n = 2
  OBVIOUS
<1>. QED BY <1>6, <1>7, <1>8, <1>11, <1>12, <1>13 DEF o, b, stats, my

\* The reports tell one story (get_overview_stats, get_per_job_breakdown,
\* get_job_stats, get_heatmap_data, get_duration_trend): the header is the sum
\* of the jobs' own figures, the heatmap holds no more runs than it, a job's
\* average lies between its extremes, and its trend ends with its last run.
THEOREM ReportsHold == AnalyticsSpec => []ReportsAgree
<1>1. TableInv => ReportsAgree
  <2> SUFFICES ASSUME TableInv PROVE ReportsAgree
    OBVIOUS
  <2>1. \A days \in Spans : SumFunction(Heatmap(days)) <= Overview.total
    BY HeatmapWithin DEF Overview
  <2>2. ASSUME NEW j \in MyJobs \cap existing
        PROVE  LET t == JobStats(j) IN
                  /\ t.avg[1] >= t.min * t.avg[2] /\ t.avg[1] <= t.max * t.avg[2]
                  /\ (t.last # 0 /\ history[t.last].status # "running") =>
                        Trend(j, 1) = {t.last}
    BY AverageBetween, TrendEnds
  <2>. QED BY <2>1, <2>2, SumsAgree DEF ReportsAgree
<1>. QED BY <1>1, TableInvHolds, PTL
=============================================================================
