----------------------------- MODULE RecordsProofs -----------------------------
(***************************************************************************)
(* What is true of the records of runs, for any number of jobs and lines:  *)
(* the starts that dependencies cause (Dag) and the log that is kept       *)
(* (LogOutput), and the types of all the parts of MCRuns.                  *)
(***************************************************************************)
EXTENDS MCRuns, ScriptRunsProofs, AnalyticsProofs

(* Dag *)

\* The rows whose success has been followed up for j.
Followed(j) ==
    {i \in DOMAIN table : /\ table[i].status = "success"
                          /\ table[i].job \in Needs[j]
                          /\ j \notin table[i].left}

\* What a row says is what its thread does, and a scan looks at dependents.
Ended(i) ==
    /\ table[i].at \in {"wait", "run"} => table[i].status = "running"
    /\ table[i].at = "scan" => table[i].status = "success"
    /\ table[i].at \in {"wait", "run", "done"} => table[i].left = {}
    /\ \A j \in table[i].left : table[i].job \in Needs[j]

\* The last run of d succeeded.
Succeeded(d) ==
    \E i \in DOMAIN table : IsLatest(i, d) /\ table[i].status = "success"

\* A start of j that its dependencies still owe it, or that it has had.
StillToStart(j) ==
    \/ waits[j] > 0
    \/ \E i \in DOMAIN table, d \in Needs[j] : IsLatest(i, d) /\ j \in table[i].left
    \/ \E k \in DOMAIN table :
          /\ table[k].job = j /\ ~table[k].manual
          /\ \A i \in DOMAIN table, d \in Needs[j] : IsLatest(i, d) => k > i

Joined(j) == (Needs[j] # {} /\ \A d \in Needs[j] : Succeeded(d)) => StillToStart(j)

Debt(j) ==
    /\ owed[j] <= Cardinality(Followed(j))
    /\ owed[j] > 0 =>
          \A d \in Needs[j] : \E i \in DOMAIN table :
             table[i].status = "success" /\ table[i].job = d

DagInv ==
    /\ waits \in [DagJobs -> Nat]
    /\ table \in Seq(DagRow)
    /\ owed \in [DagJobs -> Nat]
    /\ \A i \in DOMAIN table : Ended(i)
    /\ \A j \in DagJobs : Joined(j) /\ Debt(j)

LEMMA DagInitHolds == DagInit => DagInv
<1> SUFFICES ASSUME DagInit PROVE DagInv
  OBVIOUS
<1>1. /\ waits \in [DagJobs -> Nat] /\ table \in Seq(DagRow)
      /\ owed \in [DagJobs -> Nat] /\ DOMAIN table = {}
  BY DEF DagInit
<1>2. ASSUME NEW j \in DagJobs PROVE Joined(j) /\ Debt(j)
  <2>1. Followed(j) = {} /\ owed[j] = 0
    BY <1>1 DEF Followed, DagInit
  <2>2. Joined(j)
    BY <1>1 DEF Joined, Succeeded
  <2>3. Debt(j)
    BY <2>1, FS_EmptySet DEF Debt
  <2>. QED BY <2>2, <2>3
<1>. QED BY <1>1, <1>2 DEF DagInv

LEMMA RowFacts ==
    ASSUME DagInv
    PROVE  /\ \A i \in DOMAIN table : table[i] \in DagRow /\ Ended(i)
           /\ DOMAIN table \subseteq Nat /\ IsFiniteSet(DOMAIN table)
           /\ Needs \in [DagJobs -> SUBSET DagJobs]
<1>1. table \in Seq(DagRow)
  BY DEF DagInv
<1>2. DOMAIN table = 1..Len(table) /\ Len(table) \in Nat
  BY <1>1, LenProperties
<1>3. \A i \in DOMAIN table : table[i] \in DagRow /\ Ended(i)
  BY <1>1, <1>2, ElementOfSeq DEF DagInv
<1>4. IsFiniteSet(1..Len(table))
  BY <1>2, FS_Interval
<1>. QED BY <1>2, <1>3, <1>4, DagAssumption

LEMMA FollowedFinite ==
    ASSUME DagInv, NEW j \in DagJobs
    PROVE  IsFiniteSet(Followed(j)) /\ Cardinality(Followed(j)) \in Nat
<1>1. Followed(j) \subseteq DOMAIN table
  BY DEF Followed
<1>2. IsFiniteSet(Followed(j))
  BY <1>1, RowFacts, FS_Subset
<1>. QED BY <1>2, FS_CardinalityType

\* A row is added, about a job that has not ended.
LEMMA RowIsAdded ==
    ASSUME DagInv, NEW row \in DagRow, row.status = "running", row.left = {},
           row.at \in {"wait", "run"}, table' = Append(table, row),
           waits' \in [DagJobs -> Nat], owed' = owed,
           \A j \in DagJobs : waits[j] > 0 =>
              \/ waits'[j] > 0
              \/ ~DepsMet(j)
              \/ j = row.job /\ ~row.manual
    PROVE  DagInv'
<1> DEFINE n == Len(table)
<1>1. /\ n \in Nat /\ DOMAIN table = 1..n /\ table' \in Seq(DagRow)
      /\ DOMAIN table' = 1..(n + 1) /\ table'[n + 1] = row
      /\ \A i \in 1..n : table'[i] = table[i] /\ table[i] \in DagRow
      /\ Needs \in [DagJobs -> SUBSET DagJobs]
  BY AppendProperties, LenProperties, ElementOfSeq, DagAssumption DEF DagInv
<1> HIDE DEF n
<1>2. ASSUME NEW i \in DOMAIN table' PROVE Ended(i)'
  BY <1>1 DEF Ended, DagInv
<1>3. ASSUME NEW d \in DagJobs, d # row.job, NEW i \in DOMAIN table'
      PROVE  IsLatest(i, d)' <=> i \in DOMAIN table /\ IsLatest(i, d)
  BY <1>1, <1>3 DEF IsLatest
<1>4. ASSUME NEW d \in DagJobs, Succeeded(d)'
      PROVE  d # row.job /\ Succeeded(d)
  <2>1. PICK i \in DOMAIN table' : IsLatest(i, d)' /\ table'[i].status = "success"
    BY <1>4 DEF Succeeded
  <2>2. i # n + 1
    BY <1>1, <2>1
  <2>3. d # row.job
    <3>1. d = row.job => n + 1 <= i
      BY <1>1, <2>1 DEF IsLatest
    <3>. QED BY <1>1, <2>2, <3>1
  <2>. QED BY <1>1, <1>3, <2>1, <2>2, <2>3 DEF Succeeded
<1>5. ASSUME NEW j \in DagJobs PROVE Joined(j)'
  <2> SUFFICES ASSUME Needs[j] # {}, \A d \in Needs[j] : Succeeded(d)'
               PROVE  StillToStart(j)'
    BY DEF Joined, Succeeded, IsLatest
  <2>1. /\ \A d \in Needs[j] : d # row.job /\ Succeeded(d) /\ d \in DagJobs
        /\ DepsMet(j)
    BY <1>1, <1>4 DEF DepsMet, Succeeded
  <2>2. StillToStart(j)
    BY <2>1 DEF DagInv, Joined
  <2>3. CASE waits[j] > 0
    <3>1. CASE waits'[j] > 0
      BY <3>1 DEF StillToStart
    <3>2. CASE j = row.job /\ ~row.manual
      <4>1. \A i \in DOMAIN table', d \in Needs[j] : IsLatest(i, d)' => n + 1 > i
        BY <1>1, <1>3, <2>1
      <4>2. /\ n + 1 \in DOMAIN table' /\ table'[n + 1].job = j
            /\ ~table'[n + 1].manual
        BY <1>1, <3>2
      <4>3. PICK k \in DOMAIN table' :
               /\ table'[k].job = j /\ ~table'[k].manual
               /\ \A i \in DOMAIN table', d \in Needs[j] : IsLatest(i, d)' => k > i
        BY <4>1, <4>2
      <4>. QED BY <4>3 DEF StillToStart, IsLatest
    <3>. QED BY <2>1, <2>3, <3>1, <3>2
  <2>4. CASE \E i \in DOMAIN table, d \in Needs[j] :
                IsLatest(i, d) /\ j \in table[i].left
    <3>1. PICK i \in DOMAIN table, d \in Needs[j] :
             IsLatest(i, d) /\ j \in table[i].left
      BY <2>4
    <3>2. i \in DOMAIN table' /\ IsLatest(i, d)' /\ j \in table'[i].left
      BY <1>1, <1>3, <2>1, <3>1
    <3>. QED BY <3>2 DEF StillToStart, IsLatest
  <2>5. CASE \E k \in DOMAIN table :
                /\ table[k].job = j /\ ~table[k].manual
                /\ \A i \in DOMAIN table, d \in Needs[j] : IsLatest(i, d) => k > i
    <3>1. PICK k \in DOMAIN table :
             /\ table[k].job = j /\ ~table[k].manual
             /\ \A i \in DOMAIN table, d \in Needs[j] : IsLatest(i, d) => k > i
      BY <2>5
    <3>2. /\ k \in DOMAIN table' /\ table'[k].job = j /\ ~table'[k].manual
          /\ \A i \in DOMAIN table', d \in Needs[j] : IsLatest(i, d)' => k > i
      BY <1>1, <1>3, <2>1, <3>1
    <3>. QED BY <3>2 DEF StillToStart, IsLatest
  <2>. QED BY <2>2, <2>3, <2>4, <2>5 DEF StillToStart
<1>6. ASSUME NEW j \in DagJobs PROVE Debt(j)'
  <2>1. Followed(j)' = Followed(j)
    BY <1>1 DEF Followed
  <2>2. Debt(j)
    BY DEF DagInv
  <2>3. owed[j] > 0 =>
          \A d \in Needs[j] : \E i \in DOMAIN table' :
             table'[i].status = "success" /\ table'[i].job = d
    BY <1>1, <2>2 DEF Debt
  <2>. QED BY <2>1, <2>2, <2>3 DEF Debt
<1>. QED BY <1>1, <1>2, <1>5, <1>6 DEF DagInv

\* The row i changes, and only it: its job stays, and so does which run is the
\* last one of each job.
LEMMA SameRows ==
    ASSUME DagInv, NEW i \in DOMAIN table, NEW row \in DagRow,
           row.job = table[i].job, row.manual = table[i].manual,
           table' = [table EXCEPT ![i] = row]
    PROVE  /\ table' \in Seq(DagRow) /\ DOMAIN table' = DOMAIN table
           /\ \A k \in DOMAIN table :
                 /\ table'[k] = IF k = i THEN row ELSE table[k]
                 /\ table'[k].job = table[k].job
                 /\ table'[k].manual = table[k].manual
           /\ \A k \in DOMAIN table, d \in DagJobs : IsLatest(k, d)' <=> IsLatest(k, d)
<1>1. /\ table' \in Seq(DagRow) /\ DOMAIN table' = DOMAIN table
      /\ \A k \in DOMAIN table : table'[k] = IF k = i THEN row ELSE table[k]
  BY ExceptSeq DEF DagInv
<1>2. \A k \in DOMAIN table :
         /\ table'[k].job = table[k].job
         /\ table'[k].manual = table[k].manual
  BY <1>1
<1>3. ASSUME NEW k \in DOMAIN table, NEW d \in DagJobs
      PROVE  IsLatest(k, d)' <=> IsLatest(k, d)
  BY <1>1, <1>2 DEF IsLatest
<1>. QED BY <1>1, <1>2, <1>3

\* A manual run gets its slot.
LEMMA ManualStep ==
    ASSUME DagInv, NEW i \in DOMAIN table, DagStartManual(i)
    PROVE  DagInv'
<1> DEFINE row == [table[i] EXCEPT !.at = "run"]
<1>1. /\ table[i] \in DagRow /\ Ended(i) /\ Needs \in [DagJobs -> SUBSET DagJobs]
      /\ table[i].at = "wait" /\ UNCHANGED <<waits, owed>>
  BY RowFacts DEF DagStartManual
<1>2. table' = [table EXCEPT ![i] = row]
  BY DEF DagStartManual, DagInv
<1>3. /\ row \in DagRow /\ row.job = table[i].job /\ row.manual = table[i].manual
      /\ row.at = "run" /\ row.status = "running" /\ row.left = {}
      /\ table[i].status = "running" /\ table[i].left = {}
  BY <1>1 DEF DagRow, Ended
<1> HIDE DEF row
<1>4. /\ table' \in Seq(DagRow) /\ DOMAIN table' = DOMAIN table
      /\ \A k \in DOMAIN table :
            /\ table'[k] = IF k = i THEN row ELSE table[k]
            /\ table'[k].job = table[k].job /\ table'[k].manual = table[k].manual
            /\ table'[k].status = table[k].status
            /\ table'[k].left = table[k].left
      /\ \A k \in DOMAIN table, d \in DagJobs : IsLatest(k, d)' <=> IsLatest(k, d)
  BY <1>2, <1>3, SameRows
<1>5. ASSUME NEW k \in DOMAIN table' PROVE Ended(k)'
  BY <1>3, <1>4 DEF Ended, DagInv
<1>6. ASSUME NEW j \in DagJobs PROVE Joined(j)' /\ Debt(j)'
  <2>1. Joined(j) /\ Debt(j) /\ Needs[j] \subseteq DagJobs
    BY <1>1 DEF DagInv
  <2>2. \A d \in DagJobs : Succeeded(d)' => Succeeded(d)
    BY <1>4 DEF Succeeded
  <2>3. StillToStart(j) => StillToStart(j)'
    BY <1>1, <1>4, <2>1 DEF StillToStart
  <2>4. Joined(j)'
    BY <2>1, <2>2, <2>3 DEF Joined
  <2>5. Followed(j)' = Followed(j)
    BY <1>4 DEF Followed
  <2>6. Debt(j)'
    BY <1>1, <1>4, <2>1, <2>5 DEF Debt
  <2>. QED BY <2>4, <2>6
<1>. QED BY <1>1, <1>4, <1>5, <1>6 DEF DagInv

\* A run ends; the success of the last run of a dependency has j to look at.
LEMMA EndStep ==
    ASSUME DagInv, NEW i \in DOMAIN table, NEW status \in {"success", "failure"},
           DagEnd(i, status)
    PROVE  DagInv'
<1> DEFINE next == {j \in DagJobs : table[i].job \in Needs[j]}
           scans == status = "success" /\ next # {}
           at == IF scans THEN "scan" ELSE "done"
           left == IF scans THEN next ELSE {}
           row == [table[i] EXCEPT !.status = status, !.at = at, !.left = left]
<1>1. /\ table[i] \in DagRow /\ Ended(i) /\ Needs \in [DagJobs -> SUBSET DagJobs]
      /\ table[i].at = "run" /\ UNCHANGED <<waits, owed>>
  BY RowFacts DEF DagEnd
<1>2. table' = [table EXCEPT ![i] = row]
  BY DEF DagEnd, DagInv
<1>3. /\ at \in {"scan", "done"} /\ left \subseteq DagJobs
      /\ at = "scan" => status = "success"
      /\ at = "done" => left = {}
      /\ \A j \in left : table[i].job \in Needs[j]
      /\ status = "success" =>
            \A j \in DagJobs : table[i].job \in Needs[j] => j \in left
  OBVIOUS
<1> HIDE DEF at, left, next, scans
<1>4. /\ row \in DagRow /\ row.job = table[i].job /\ row.manual = table[i].manual
      /\ row.at = at /\ row.status = status /\ row.left = left
      /\ table[i].status = "running" /\ table[i].left = {}
  BY <1>1, <1>3 DEF DagRow, Ended
<1> HIDE DEF row
<1>5. /\ table' \in Seq(DagRow) /\ DOMAIN table' = DOMAIN table
      /\ \A k \in DOMAIN table :
            /\ table'[k] = IF k = i THEN row ELSE table[k]
            /\ table'[k].job = table[k].job /\ table'[k].manual = table[k].manual
      /\ \A k \in DOMAIN table, d \in DagJobs : IsLatest(k, d)' <=> IsLatest(k, d)
  BY <1>2, <1>4, SameRows
<1>6. ASSUME NEW k \in DOMAIN table' PROVE Ended(k)'
  BY <1>3, <1>4, <1>5 DEF Ended, DagInv
<1>7. ASSUME NEW j \in DagJobs PROVE Joined(j)' /\ Debt(j)'
  <2>1. Joined(j) /\ Debt(j) /\ Needs[j] \subseteq DagJobs
    BY <1>1 DEF DagInv
  <2>2. Joined(j)'
    <3> SUFFICES ASSUME Needs[j] # {}, \A d \in Needs[j] : Succeeded(d)'
                 PROVE  StillToStart(j)'
      BY DEF Joined, Succeeded, IsLatest
    <3>1. CASE \E d \in Needs[j] : IsLatest(i, d)
      <4>1. PICK d \in Needs[j] : IsLatest(i, d)
        BY <3>1
      <4>2. PICK k \in DOMAIN table' : IsLatest(k, d)' /\ table'[k].status = "success"
        BY DEF Succeeded
      <4>3. k = i
        <5>1. IsLatest(k, d) /\ k \in DOMAIN table
          BY <1>5, <2>1, <4>2
        <5>. QED BY <4>1, <5>1, RowFacts DEF IsLatest
      <4>4. j \in table'[i].left /\ d = table[i].job /\ IsLatest(i, d)'
        BY <1>3, <1>4, <1>5, <4>1, <4>2, <4>3 DEF IsLatest
      <4>. QED BY <1>5, <4>4 DEF StillToStart
    <3>2. CASE ~\E d \in Needs[j] : IsLatest(i, d)
      <4>1. \A d \in Needs[j] : Succeeded(d)
        BY <1>5, <2>1, <3>2 DEF Succeeded
      <4>2. StillToStart(j)
        BY <2>1, <4>1 DEF Joined
      <4>. QED BY <1>1, <1>5, <2>1, <3>2, <4>2 DEF StillToStart
    <3>. QED BY <3>1, <3>2
  <2>3. Followed(j)' = Followed(j)
    BY <1>3, <1>4, <1>5 DEF Followed
  <2>4. Debt(j)'
    BY <1>1, <1>4, <1>5, <2>1, <2>3 DEF Debt
  <2>. QED BY <2>2, <2>4
<1>. QED BY <1>1, <1>5, <1>6, <1>7 DEF DagInv

\* A scan looks at one candidate, and starts it if its dependencies are met.
LEMMA ScanStep ==
    ASSUME DagInv, NEW i \in DOMAIN table, NEW c \in DagJobs, DagScan(i, c)
    PROVE  DagInv'
<1> DEFINE left == table[i].left \ {c}
           at == IF left = {} THEN "done" ELSE table[i].at
           row == [table[i] EXCEPT !.left = left, !.at = at]
<1>1. /\ table[i] \in DagRow /\ Ended(i) /\ Needs \in [DagJobs -> SUBSET DagJobs]
      /\ table[i].at = "scan" /\ c \in table[i].left
      /\ waits \in [DagJobs -> Nat] /\ owed \in [DagJobs -> Nat]
  BY RowFacts DEF DagInv, DagScan
<1>2. table' = [table EXCEPT ![i] = row]
  BY DEF DagScan, DagInv
<1>3. /\ at \in {"scan", "done"} /\ left \subseteq DagJobs
      /\ at = "done" => left = {}
      /\ \A j \in left : table[i].job \in Needs[j]
      /\ \A j \in DagJobs : j # c => (j \in left <=> j \in table[i].left)
      /\ c \notin left /\ table[i].job \in Needs[c] /\ table[i].status = "success"
  BY <1>1 DEF DagRow, Ended
<1> HIDE DEF at, left
<1>4. /\ row \in DagRow /\ row.job = table[i].job /\ row.manual = table[i].manual
      /\ row.at = at /\ row.status = "success" /\ row.left = left
  BY <1>1, <1>3 DEF DagRow
<1> HIDE DEF row
<1>5. /\ table' \in Seq(DagRow) /\ DOMAIN table' = DOMAIN table
      /\ \A k \in DOMAIN table :
            /\ table'[k] = IF k = i THEN row ELSE table[k]
            /\ table'[k].job = table[k].job /\ table'[k].manual = table[k].manual
            /\ table'[k].status = table[k].status
      /\ \A k \in DOMAIN table, d \in DagJobs : IsLatest(k, d)' <=> IsLatest(k, d)
  BY <1>2, <1>3, <1>4, SameRows
<1>6. ASSUME NEW k \in DOMAIN table' PROVE Ended(k)'
  BY <1>3, <1>4, <1>5 DEF Ended, DagInv
<1>7. /\ waits' \in [DagJobs -> Nat] /\ owed' \in [DagJobs -> Nat]
      /\ \A j \in DagJobs : waits'[j] >= waits[j]
      /\ \A j \in DagJobs : j # c => owed'[j] = owed[j]
      /\ owed'[c] <= owed[c] + 1
      /\ owed'[c] # owed[c] => DepsMet(c)
      /\ DepsMet(c) => waits'[c] > 0
  <2>1. CASE /\ DepsMet(c)
             /\ waits' = [waits EXCEPT ![c] = @ + 1]
             /\ owed' = [owed EXCEPT ![c] = @ + 1]
    BY <1>1, <2>1
  <2>2. CASE ~DepsMet(c) /\ UNCHANGED <<waits, owed>>
    BY <1>1, <2>2
  <2>. QED BY <2>1, <2>2 DEF DagScan
<1>8. ASSUME NEW j \in DagJobs PROVE Joined(j)' /\ Debt(j)'
  <2>1. Joined(j) /\ Debt(j) /\ Needs[j] \subseteq DagJobs
    BY <1>1 DEF DagInv
  <2>2. Joined(j)'
    <3> SUFFICES ASSUME Needs[j] # {}, \A d \in Needs[j] : Succeeded(d)'
                 PROVE  StillToStart(j)'
      BY DEF Joined, Succeeded, IsLatest
    <3>1. \A d \in Needs[j] : Succeeded(d)
      BY <1>5, <2>1 DEF Succeeded
    <3>2. CASE j = c
      <4>1. DepsMet(c)
        BY <3>1, <3>2 DEF DepsMet, Succeeded
      <4>. QED BY <1>7, <3>2, <4>1 DEF StillToStart
    <3>3. CASE j # c
      <4>1. StillToStart(j)
        BY <2>1, <3>1 DEF Joined
      <4>2. CASE waits[j] > 0
        BY <1>1, <1>7, <4>2 DEF StillToStart
      <4>3. CASE \E k \in DOMAIN table, d \in Needs[j] :
                    IsLatest(k, d) /\ j \in table[k].left
        BY <1>3, <1>4, <1>5, <2>1, <3>3, <4>3 DEF StillToStart
      <4>4. CASE \E k \in DOMAIN table :
                    /\ table[k].job = j /\ ~table[k].manual
                    /\ \A m \in DOMAIN table, d \in Needs[j] : IsLatest(m, d) => k > m
        BY <1>5, <2>1, <4>4 DEF StillToStart
      <4>. QED BY <4>1, <4>2, <4>3, <4>4 DEF StillToStart
    <3>. QED BY <3>2, <3>3
  <2>3. owed'[j] <= Cardinality(Followed(j)')
    <3>1. CASE j # c
      <4>1. Followed(j)' = Followed(j)
        BY <1>3, <1>4, <1>5, <3>1 DEF Followed
      <4>. QED BY <1>7, <2>1, <3>1, <4>1 DEF Debt
    <3>2. CASE j = c
      <4>1. Followed(c)' = Followed(c) \union {i} /\ i \notin Followed(c)
        BY <1>1, <1>3, <1>4, <1>5 DEF Followed
      <4>2. Cardinality(Followed(c)') = Cardinality(Followed(c)) + 1
        BY <4>1, FollowedFinite, FS_AddElement
      <4>. QED BY <1>1, <1>7, <2>1, <3>2, <4>2, FollowedFinite DEF Debt
    <3>. QED BY <3>1, <3>2
  <2>4. owed'[j] > 0 =>
          \A d \in Needs[j] : \E k \in DOMAIN table :
             table[k].status = "success" /\ table[k].job = d
    <3>1. CASE owed'[j] = owed[j]
      BY <2>1, <3>1 DEF Debt
    <3>2. CASE owed'[j] # owed[j]
      BY <1>7, <3>2 DEF DepsMet, IsLatest
    <3>. QED BY <3>1, <3>2
  <2>5. Debt(j)'
    BY <1>5, <2>3, <2>4 DEF Debt
  <2>. QED BY <2>2, <2>5
<1>. QED BY <1>5, <1>6, <1>7, <1>8 DEF DagInv

LEMMA FireTriggerStart ==
    ASSUME DagInv, NEW c \in DagJobs, DagFire(c) \/ DagTrigger(c) \/ DagStart(c)
    PROVE  DagInv'
<1>1. waits \in [DagJobs -> Nat]
  BY DEF DagInv
<1>2. ASSUME NEW manual \in BOOLEAN, NEW at \in {"wait", "run"}
      PROVE  LET row == NewRow(c, manual, at) IN
             /\ row \in DagRow /\ row.status = "running" /\ row.left = {}
             /\ row.at \in {"wait", "run"} /\ row.job = c /\ row.manual = manual
  BY DEF NewRow, DagRow
<1>3. CASE DagTrigger(c)
  <2> DEFINE row == NewRow(c, TRUE, "wait")
  <2>1. table' = Append(table, row) /\ waits' = waits /\ owed' = owed
    BY <1>3 DEF DagTrigger
  <2>2. /\ row \in DagRow /\ row.status = "running" /\ row.left = {}
        /\ row.at \in {"wait", "run"}
    BY <1>2
  <2> HIDE DEF row
  <2>. QED BY <1>1, <2>1, <2>2, RowIsAdded
<1>4. CASE DagStart(c) /\ DepsMet(c)
  <2> DEFINE row == NewRow(c, FALSE, "run")
  <2>1. table' = Append(table, row) /\ owed' = owed
        /\ waits' = [waits EXCEPT ![c] = @ - 1] /\ waits[c] > 0
    BY <1>4 DEF DagStart
  <2>2. /\ row \in DagRow /\ row.status = "running" /\ row.left = {}
        /\ row.at \in {"wait", "run"} /\ row.job = c /\ ~row.manual
    BY <1>2
  <2> HIDE DEF row
  <2>3. waits' \in [DagJobs -> Nat] /\ \A j \in DagJobs : j # c => waits'[j] = waits[j]
    BY <1>1, <2>1
  <2>. QED BY <1>1, <2>1, <2>2, <2>3, RowIsAdded
<1>5. CASE DagFire(c) \/ (DagStart(c) /\ ~DepsMet(c))
  <2>1. /\ table' = table /\ owed' = owed /\ waits' \in [DagJobs -> Nat]
        /\ \A j \in DagJobs : waits[j] > 0 => waits'[j] > 0 \/ ~DepsMet(j)
    <3>1. CASE DagFire(c)
      BY <1>1, <3>1 DEF DagFire
    <3>2. CASE DagStart(c) /\ ~DepsMet(c)
      <4>1. /\ waits' = [waits EXCEPT ![c] = @ - 1] /\ waits[c] > 0
            /\ table' = table /\ owed' = owed
        BY <3>2 DEF DagStart
      <4>. QED BY <1>1, <3>2, <4>1
    <3>. QED BY <1>5, <3>1, <3>2
  <2>2. ASSUME NEW j \in DagJobs PROVE Joined(j)' /\ Debt(j)'
    <3>1. Joined(j) /\ Debt(j)
      BY DEF DagInv
    <3>2. (\A d \in Needs[j] : Succeeded(d)) => DepsMet(j)
      BY DEF Succeeded, DepsMet
    <3>3. Joined(j)'
      BY <2>1, <3>1, <3>2 DEF Joined, Succeeded, StillToStart, IsLatest
    <3>4. Debt(j)'
      BY <2>1, <3>1 DEF Debt, Followed
    <3>. QED BY <3>3, <3>4
  <2>3. \A i \in DOMAIN table' : Ended(i)'
    BY <2>1 DEF DagInv, Ended
  <2>. QED BY <2>1, <2>2, <2>3 DEF DagInv
<1>. QED BY <1>3, <1>4, <1>5

LEMMA DagInvHolds == DagSpec => []DagInv
<1>1. DagInv /\ [DagNext]_dagVars => DagInv'
  <2> SUFFICES ASSUME DagInv, [DagNext]_dagVars PROVE DagInv'
    OBVIOUS
  <2>1. CASE DagNext
    <3>1. CASE \E j \in DagJobs : DagFire(j) \/ DagTrigger(j) \/ DagStart(j)
      BY <3>1, FireTriggerStart
    <3>2. CASE \E i \in DOMAIN table : DagStartManual(i)
      BY <3>2, ManualStep
    <3>3. CASE \E i \in DOMAIN table, s \in {"success", "failure"} : DagEnd(i, s)
      BY <3>3, EndStep
    <3>4. CASE \E i \in DOMAIN table, j \in DagJobs : DagScan(i, j)
      BY <3>4, ScanStep
    <3>. QED BY <2>1, <3>1, <3>2, <3>3, <3>4 DEF DagNext
  <2>2. CASE UNCHANGED dagVars
    <3>1. waits' = waits /\ table' = table /\ owed' = owed
      BY <2>2 DEF dagVars
    <3>2. ASSUME NEW j \in DagJobs PROVE Joined(j)' /\ Debt(j)'
      <4>1. Joined(j) /\ Debt(j)
        BY DEF DagInv
      <4>2. Joined(j)'
        BY <3>1, <4>1 DEF Joined, Succeeded, StillToStart, IsLatest
      <4>3. Debt(j)'
        BY <3>1, <4>1 DEF Debt, Followed
      <4>. QED BY <4>2, <4>3
    <3>3. \A i \in DOMAIN table' : Ended(i)'
      BY <3>1 DEF DagInv, Ended
    <3>. QED BY <3>1, <3>2, <3>3 DEF DagInv
  <2>. QED BY <2>1, <2>2
<1>. QED BY <1>1, DagInitHolds, PTL DEF DagSpec

\* The success that completes the dependencies of a job starts it
\* (_trigger_dependents and check_dependencies_met), whatever the order in
\* which they began, failed, ended and were retried.
THEOREM JoinHolds == DagSpec => []JoinTriggers
<1>1. ASSUME DagInv PROVE JoinTriggers
  <2> SUFFICES ASSUME \A j \in DagJobs : waits[j] = 0,
                      \A i \in DOMAIN table : table[i].at = "done",
                      NEW j \in DagJobs, Needs[j] # {},
                      NEW newest,
                      newest = {i \in DOMAIN table : \E d \in Needs[j] : IsLatest(i, d)},
                      {table[i].job : i \in newest} = Needs[j],
                      \A i \in newest : table[i].status = "success"
               PROVE  \E k \in DOMAIN table :
                        /\ table[k].job = j /\ ~table[k].manual
                        /\ \A i \in newest : k > i
    BY DEF JoinTriggers
  <2>1. ASSUME NEW d \in Needs[j] PROVE Succeeded(d)
    <3>1. PICK i \in newest : table[i].job = d
      OBVIOUS
    <3>. QED BY <3>1 DEF Succeeded, IsLatest
  <2>2. StillToStart(j)
    BY <1>1, <2>1 DEF DagInv, Joined
  <2>3. ~(waits[j] > 0)
    OBVIOUS
  <2>4. \A i \in DOMAIN table : table[i].left = {}
    BY <1>1 DEF DagInv, Ended
  <2>. QED BY <2>2, <2>3, <2>4 DEF StillToStart
<1>. QED BY <1>1, DagInvHolds, PTL

\* Dependencies start a job only when each of them has succeeded some time, and
\* no more often than they succeed.
THEOREM StartsHold == DagSpec => []StartsAreOwed
<1>1. ASSUME DagInv PROVE StartsAreOwed
  <2> SUFFICES ASSUME NEW j \in DagJobs, NEW good,
                      good = {i \in DOMAIN table : /\ table[i].status = "success"
                                                   /\ table[i].job \in Needs[j]}
               PROVE  /\ owed[j] <= Cardinality(good)
                      /\ owed[j] > 0 => {table[i].job : i \in good} = Needs[j]
    BY DEF StartsAreOwed
  <2>1. Debt(j) /\ owed[j] \in Nat
    BY <1>1 DEF DagInv
  <2>2. owed[j] > 0 => {table[i].job : i \in good} = Needs[j]
    BY <2>1 DEF Debt
  <2>3. Followed(j) \subseteq good
    BY DEF Followed
  <2>4. IsFiniteSet(good)
    <3>1. good \subseteq DOMAIN table
      OBVIOUS
    <3>. QED BY <1>1, <3>1, RowFacts, FS_Subset
  <2>5. Cardinality(Followed(j)) <= Cardinality(good) /\ Cardinality(good) \in Nat
    BY <2>3, <2>4, FS_Subset, FS_CardinalityType
  <2>. QED BY <1>1, <2>1, <2>2, <2>5, FollowedFinite DEF Debt
<1>. QED BY <1>1, DagInvHolds, PTL

\* The runs that wait for a slot, as threads that have a number each.
Threads == {p \in DagJobs \X (1..MaxDagRuns) : p[2] <= waits[p[1]]}

Waiting == waits \in [DagJobs -> 0..MaxDagRuns] /\ IsFiniteSet(Threads)

\* Where there is room, no job has all of it yet.
LEMMA RoomLeaves ==
    ASSUME DagInv, Waiting, Room, NEW j \in DagJobs
    PROVE  waits[j] < MaxDagRuns
<1>1. /\ waits[j] \in 0..MaxDagRuns /\ MaxDagRuns \in Nat
      /\ IsFiniteSet(Threads) /\ Len(table) \in Nat
  BY DagAssumption, LenProperties DEF Waiting, DagInv
<1>2. Cardinality(Threads) + Len(table) < MaxDagRuns
  BY DEF Room, Threads
<1>3. SUFFICES ASSUME waits[j] = MaxDagRuns PROVE FALSE
  BY <1>1
<1>4. [k \in 1..MaxDagRuns |-> <<j, k>>] \in Injection(1..MaxDagRuns, Threads)
  <2>1. \A k \in 1..MaxDagRuns : <<j, k>> \in Threads
    BY <1>1, <1>3 DEF Threads
  <2>. QED BY <2>1 DEF Injection, IsInjective
<1>5. Cardinality(1..MaxDagRuns) <= Cardinality(Threads)
  BY <1>1, <1>4, FS_Injection
<1>6. Cardinality(1..MaxDagRuns) = MaxDagRuns
  BY <1>1, FS_Interval
<1>7. Cardinality(Threads) \in Nat
  BY <1>1, FS_CardinalityType
<1>. QED BY <1>1, <1>2, <1>5, <1>6, <1>7

LEMMA OneMoreWaits ==
    ASSUME DagInv, Waiting, Room, NEW j \in DagJobs,
           waits' = [waits EXCEPT ![j] = @ + 1]
    PROVE  Waiting'
<1>1. waits[j] < MaxDagRuns /\ waits \in [DagJobs -> 0..MaxDagRuns] /\ MaxDagRuns \in Nat
  BY RoomLeaves, DagAssumption DEF Waiting
<1>2. waits' \in [DagJobs -> 0..MaxDagRuns]
  <2>1. waits[j] + 1 \in 0..MaxDagRuns
    BY <1>1
  <2>. QED BY <1>1, <2>1
<1>3. Threads' \subseteq Threads \union {<<j, waits[j] + 1>>}
  <2> SUFFICES ASSUME NEW p \in Threads' PROVE p \in Threads \/ p = <<j, waits[j] + 1>>
    OBVIOUS
  <2>1. p \in DagJobs \X (1..MaxDagRuns) /\ p[2] <= waits'[p[1]]
    BY DEF Threads
  <2>2. CASE p[1] = j
    <3>1. p[2] <= waits[j] + 1 /\ p[2] \in 1..MaxDagRuns /\ p = <<j, p[2]>>
      BY <1>1, <2>1, <2>2
    <3>2. p[2] <= waits[j] \/ p[2] = waits[j] + 1
      BY <1>1, <3>1
    <3>. QED BY <2>1, <2>2, <3>1, <3>2 DEF Threads
  <2>3. CASE p[1] # j
    BY <1>1, <2>1, <2>3 DEF Threads
  <2>. QED BY <2>2, <2>3
<1>4. IsFiniteSet(Threads \union {<<j, waits[j] + 1>>})
  BY FS_AddElement DEF Waiting
<1>5. IsFiniteSet(Threads')
  BY <1>3, <1>4, FS_Subset
<1>. QED BY <1>2, <1>5 DEF Waiting

\* One that waited has its slot.
LEMMA OneLessWaits ==
    ASSUME Waiting, NEW j \in DagJobs, waits[j] > 0,
           waits' = [waits EXCEPT ![j] = @ - 1]
    PROVE  Waiting'
<1>1. waits \in [DagJobs -> 0..MaxDagRuns] /\ MaxDagRuns \in Nat
  BY DagAssumption DEF Waiting
<1>2. waits' \in [DagJobs -> 0..MaxDagRuns]
  <2>1. waits[j] - 1 \in 0..MaxDagRuns
    BY <1>1
  <2>. QED BY <1>1, <2>1
<1>3. \A k \in DagJobs : waits'[k] <= waits[k] /\ waits[k] \in Nat /\ waits'[k] \in Nat
  BY <1>1
<1>4. Threads' \subseteq Threads
  <2> SUFFICES ASSUME NEW p \in Threads' PROVE p \in Threads
    OBVIOUS
  <2>1. /\ p \in DagJobs \X (1..MaxDagRuns) /\ p[2] <= waits'[p[1]]
        /\ p[1] \in DagJobs /\ p[2] \in Nat
    BY DEF Threads
  <2>2. p[2] <= waits[p[1]]
    BY <1>3, <2>1
  <2>. QED BY <2>1, <2>2 DEF Threads
<1>5. IsFiniteSet(Threads')
  BY <1>4, FS_Subset DEF Waiting
<1>. QED BY <1>2, <1>5 DEF Waiting

\* The rows are rows, and no more runs wait than there is room for
\* (trigger_job_now, _trigger_dependents and APScheduler).
THEOREM DagTypes == DagSpec => []DagTypeOK
<1>1. DagInit => Waiting
  <2> SUFFICES ASSUME DagInit PROVE Waiting
    OBVIOUS
  <2>1. waits \in [DagJobs -> 0..MaxDagRuns] /\ \A j \in DagJobs : waits[j] = 0
    BY DagAssumption DEF DagInit
  <2>2. Threads = {}
    <3>1. \A p \in DagJobs \X (1..MaxDagRuns) : p[1] \in DagJobs /\ p[2] > 0
      BY DagAssumption
    <3>2. \A p \in DagJobs \X (1..MaxDagRuns) : ~ (p[2] <= waits[p[1]])
      <4>1. \A p \in DagJobs \X (1..MaxDagRuns) : waits[p[1]] = 0 /\ p[2] \in Nat
        BY <2>1, DagAssumption
      <4>. QED BY <3>1, <4>1
    <3>. QED BY <3>2 DEF Threads
  <2>. QED BY <2>1, <2>2, FS_EmptySet DEF Waiting
<1>2. DagInv /\ Waiting /\ [DagNext]_dagVars => Waiting'
  <2> SUFFICES ASSUME DagInv, Waiting, [DagNext]_dagVars PROVE Waiting'
    OBVIOUS
  <2>1. CASE UNCHANGED waits
    BY <2>1 DEF Waiting, Threads
  <2>2. CASE \E j \in DagJobs : DagFire(j) \/ DagStart(j)
    BY <2>2, OneMoreWaits, OneLessWaits DEF DagFire, DagStart
  <2>3. CASE \E i \in DOMAIN table, j \in DagJobs : DagScan(i, j)
    BY <2>1, <2>3, OneMoreWaits DEF DagScan
  <2>4. \/ UNCHANGED waits
        \/ \E j \in DagJobs : DagFire(j) \/ DagStart(j)
        \/ \E i \in DOMAIN table, j \in DagJobs : DagScan(i, j)
    BY DEF DagNext, DagTrigger, DagStartManual, DagEnd, dagVars
  <2>. QED BY <2>1, <2>2, <2>3, <2>4
<1>3. DagInv /\ Waiting => DagTypeOK
  BY DEF DagInv, Waiting, DagTypeOK
<1>. QED BY <1>1, <1>2, <1>3, DagInvHolds, PTL DEF DagSpec

-----------------------------------------------------------------------------
(* LogOutput *)

Place(line) == 2 * line.read + line.part

Ordered(lines) ==
    \A i, k \in DOMAIN lines : i < k => Place(lines[i]) < Place(lines[k])

\* Lines are in the order they were read, and no read is without its lines.
LogInv ==
    /\ allLines \in Seq(Line)
    /\ reads \in 0..MaxLines
    /\ keep \in [head : Nat, tail : Nat]
    /\ end \in {"none", "ended", "killed"}
    /\ Ordered(allLines)
    /\ \A i \in DOMAIN allLines : allLines[i].read <= reads
    /\ \A r \in 1..reads :
          \E i \in DOMAIN allLines : allLines[i].read = r /\ allLines[i].part = 1
    /\ LogKeepsEnds

LEMMA LogInitHolds == LogInit => LogInv
<1> SUFFICES ASSUME LogInit PROVE LogInv
  OBVIOUS
<1>1. /\ allLines = <<>> /\ reads = 0 /\ end = "none"
      /\ keep \in [head : HeadLines, tail : TailLines]
  BY DEF LogInit
<1>2. keep \in [head : Nat, tail : Nat]
  <2>1. [head : HeadLines, tail : TailLines] \subseteq [head : Nat, tail : Nat]
    BY LogAssumption
  <2>. QED BY <1>1, <2>1
<1>3. reads \in 0..MaxLines /\ 1..reads = {}
  BY <1>1, LogAssumption
<1>4. LogKeepsEnds
  BY <1>1 DEF LogKeepsEnds
<1>. QED BY <1>1, <1>2, <1>3, <1>4 DEF LogInv, Ordered

LEMMA ReadStep ==
    ASSUME LogInv, NEW kind \in {"text", "blank", "fed"}, ReadLine(kind)
    PROVE  LogInv'
<1> DEFINE blank == kind = "blank"
           first == [read |-> reads + 1, part |-> 1, blank |-> blank]
           second == [read |-> reads + 1, part |-> 2, blank |-> blank]
           new == IF kind = "fed" THEN <<first, second>> ELSE <<first>>
           n == Len(allLines)
<1>1. /\ end = "none" /\ end' = end /\ keep' = keep /\ reads' = reads + 1
      /\ reads' \in 1..MaxLines /\ allLines' = allLines \o new
  BY LogAssumption DEF ReadLine, LogInv
<1>2. /\ first \in Line /\ first.read = reads + 1 /\ first.part = 1
      /\ second \in Line /\ second.read = reads + 1 /\ second.part = 2
  BY <1>1 DEF Line
<1> HIDE DEF first, second
<1>3. /\ new \in Seq(Line) /\ Len(new) \in 1..2 /\ new[1] = first
      /\ Len(new) = 2 => new[2] = second
  BY <1>2
<1> HIDE DEF new
<1>4. /\ allLines \in Seq(Line) /\ n \in Nat /\ DOMAIN allLines = 1..n
      /\ reads \in Nat
  BY LenProperties DEF LogInv
<1>5. /\ allLines' \in Seq(Line) /\ Len(allLines') = n + Len(new)
      /\ DOMAIN allLines' = 1..(n + Len(new))
      /\ \A i \in 1..n : allLines'[i] = allLines[i]
      /\ allLines'[n + 1] = first
      /\ Len(new) = 2 => allLines'[n + 2] = second
  BY <1>1, <1>3, <1>4, ConcatProperties, LenProperties
<1>6. \A i \in 1..n : allLines[i] \in Line /\ allLines[i].read <= reads
  BY <1>4, ElementOfSeq DEF LogInv
<1> HIDE DEF n
<1>7. Ordered(allLines)'
  <2>1. ASSUME NEW i \in 1..n
        PROVE  /\ Place(allLines[i]) < Place(first)
               /\ Place(allLines[i]) < Place(second)
    <3> DEFINE x == allLines[i].read
               y == allLines[i].part
    <3>1. x \in Int /\ y \in 1..2 /\ x <= reads
      BY <1>6 DEF Line
    <3>2. Place(allLines[i]) = 2 * x + y
      BY DEF Place
    <3>3. Place(first) = 2 * (reads + 1) + 1 /\ Place(second) = 2 * (reads + 1) + 2
      BY <1>2 DEF Place
    <3> HIDE DEF x, y
    <3>. QED BY <1>4, <3>1, <3>2, <3>3
  <2>2. Place(first) < Place(second)
    BY <1>2, <1>4 DEF Place
  <2>3. ASSUME NEW i \in DOMAIN allLines', NEW k \in DOMAIN allLines', i < k
        PROVE  Place(allLines'[i]) < Place(allLines'[k])
    <3> DEFINE m == Len(new)
    <3>1. i \in 1..(n + m) /\ k \in 1..(n + m) /\ i < k /\ m \in 1..2 /\ n \in Nat
      BY <1>3, <1>4, <1>5, <2>3
    <3>2. m = 2 => allLines'[n + 2] = second
      BY <1>5
    <3> HIDE DEF m
    <3>3. CASE k \in 1..n
      <4>1. i \in 1..n
        BY <3>1, <3>3
      <4>2. allLines'[i] = allLines[i] /\ allLines'[k] = allLines[k]
        BY <1>5, <3>3, <4>1
      <4>. QED BY <1>4, <3>1, <3>3, <4>1, <4>2 DEF LogInv, Ordered
    <3>4. CASE k = n + 1
      <4>1. i \in 1..n
        BY <3>1, <3>4
      <4>2. allLines'[i] = allLines[i] /\ allLines'[k] = first
        BY <1>5, <3>4, <4>1
      <4>. QED BY <2>1, <4>1, <4>2
    <3>5. CASE k = n + 2
      <4>1. m = 2 /\ (i \in 1..n \/ i = n + 1)
        BY <3>1, <3>5
      <4>2. allLines'[k] = second
        BY <3>2, <3>5, <4>1
      <4>3. CASE i \in 1..n
        <5>1. allLines'[i] = allLines[i]
          BY <1>5, <4>3
        <5>. QED BY <2>1, <4>2, <4>3, <5>1
      <4>4. CASE i = n + 1
        <5>1. allLines'[i] = first
          BY <1>5, <4>4
        <5>. QED BY <2>2, <4>2, <5>1
      <4>. QED BY <4>1, <4>3, <4>4
    <3>6. k \in 1..n \/ k = n + 1 \/ k = n + 2
      BY <3>1
    <3>. QED BY <3>3, <3>4, <3>5, <3>6
  <2>. QED BY <2>3 DEF Ordered, Place
<1>8. \A i \in DOMAIN allLines' : allLines'[i].read <= reads'
  <2> DEFINE m == Len(new)
  <2>1. /\ m \in 1..2 /\ n \in Nat /\ DOMAIN allLines' = 1..(n + m)
        /\ (m = 2 => allLines'[n + 2] = second) /\ reads \in Nat
    BY <1>3, <1>4, <1>5
  <2> HIDE DEF m
  <2>2. ASSUME NEW i \in 1..(n + m) PROVE allLines'[i].read <= reads'
    <3>1. CASE i \in 1..n
      <4>1. allLines'[i] = allLines[i] /\ allLines[i].read <= reads
            /\ allLines[i].read \in Int
        BY <1>5, <1>6, <3>1 DEF Line
      <4>. QED BY <1>1, <2>1, <3>1, <4>1
    <3>2. CASE i = n + 1
      BY <1>1, <1>2, <1>5, <2>1, <3>2
    <3>3. CASE i = n + 2 /\ m = 2
      BY <1>1, <1>2, <2>1, <3>3
    <3>. QED BY <2>1, <3>1, <3>2, <3>3
  <2>. QED BY <2>1, <2>2
<1>9. ASSUME NEW r \in 1..reads'
      PROVE  \E i \in DOMAIN allLines' : allLines'[i].read = r /\ allLines'[i].part = 1
  <2>1. CASE r = reads'
    <3>1. n + 1 \in DOMAIN allLines'
      BY <1>3, <1>4, <1>5
    <3>. QED BY <1>1, <1>2, <1>5, <2>1, <3>1
  <2>2. CASE r # reads'
    <3>1. r \in 1..reads
      BY <1>1, <1>4, <2>2
    <3>2. PICK i \in 1..n : allLines[i].read = r /\ allLines[i].part = 1
      BY <1>4, <3>1 DEF LogInv
    <3>3. i \in DOMAIN allLines' /\ allLines'[i] = allLines[i]
      BY <1>3, <1>4, <1>5
    <3>. QED BY <3>2, <3>3
  <2>. QED BY <2>1, <2>2
<1>10. LogKeepsEnds'
  BY <1>1 DEF LogKeepsEnds
<1>11. keep' \in [head : Nat, tail : Nat] /\ end' = "none" /\ reads' \in 0..MaxLines
  BY <1>1 DEF LogInv
<1>. QED BY <1>1, <1>5, <1>7, <1>8, <1>9, <1>10, <1>11 DEF LogInv

LEMMA Beginning ==
    ASSUME NEW S, NEW s \in Seq(S), NEW k \in 0..Len(s)
    PROVE  /\ SubSeq(s, 1, k) \in Seq(S) /\ Len(SubSeq(s, 1, k)) = k
           /\ \A i \in 1..k : SubSeq(s, 1, k)[i] = s[i]
<1>1. Len(s) \in Nat
  BY LenProperties
<1>2. \A i \in 1..k : s[i] \in S
  BY <1>1, ElementOfSeq
<1>3. /\ SubSeq(s, 1, k) \in Seq(S)
      /\ Len(SubSeq(s, 1, k)) = IF 1 <= k THEN k - 1 + 1 ELSE 0
      /\ \A i \in 1..(k - 1 + 1) : SubSeq(s, 1, k)[i] = s[1 + i - 1]
  BY <1>1, <1>2, SubSeqProperties
<1> DEFINE slice == SubSeq(s, 1, k)
<1> HIDE DEF slice
<1>4. k \in Nat /\ k - 1 + 1 = k /\ \A i \in 1..k : 1 + i - 1 = i
  BY <1>1
<1>. QED BY <1>3, <1>4

LEMMA Ending ==
    ASSUME NEW S, NEW s \in Seq(S), NEW k \in 0..Len(s)
    PROVE  LET n == Len(s) IN
           /\ SubSeq(s, n - k + 1, n) \in Seq(S)
           /\ Len(SubSeq(s, n - k + 1, n)) = k
           /\ \A i \in 1..k : SubSeq(s, n - k + 1, n)[i] = s[(n - k) + i]
<1> DEFINE n == Len(s)
           first == n - k + 1
           slice == SubSeq(s, first, n)
<1>1. n \in Nat /\ k \in Nat /\ k <= n
  BY LenProperties
<1>2. first \in Int /\ n \in Int /\ \A i \in first..n : s[i] \in S
  BY <1>1, ElementOfSeq
<1>3. /\ n - first + 1 = k /\ (first <= n <=> k # 0)
      /\ \A i \in 1..k : first + i - 1 = (n - k) + i
  BY <1>1
<1>4. /\ slice \in Seq(S)
      /\ Len(slice) = IF first <= n THEN n - first + 1 ELSE 0
      /\ \A i \in 1..(n - first + 1) : slice[i] = s[first + i - 1]
  <2> HIDE DEF first
  <2>. QED BY <1>2, SubSeqProperties
<1> HIDE DEF first, slice, n
<1>5. slice \in Seq(S) /\ Len(slice) = k /\ \A i \in 1..k : slice[i] = s[(n - k) + i]
  BY <1>1, <1>3, <1>4
<1>. QED BY <1>5 DEF slice, first, n

\* Lines that are those of s from a on are a slice of it.
LEMMA SliceOf ==
    ASSUME NEW S, NEW s \in Seq(S), NEW t \in Seq(S), NEW a \in Nat,
           a + Len(t) <= Len(s), \A i \in 1..Len(t) : t[i] = s[a + i]
    PROVE  t = SubSeq(s, a + 1, a + Len(t))
<1> DEFINE k == Len(t)
           first == a + 1
           last == a + k
           slice == SubSeq(s, first, last)
<1>1. k \in Nat /\ Len(s) \in Nat
  BY LenProperties
<1> HIDE DEF k
<1>2. /\ first \in Int /\ last \in Int
      /\ \A i \in first..last : i \in 1..Len(s)
      /\ last - first + 1 = k /\ (first <= last <=> k # 0)
      /\ \A i \in 1..k : first + i - 1 = a + i
  BY <1>1 DEF k
<1>3. \A i \in first..last : s[i] \in S
  BY <1>2, ElementOfSeq
<1> HIDE DEF first, last
<1>4. /\ slice \in Seq(S)
      /\ Len(slice) = IF first <= last THEN last - first + 1 ELSE 0
      /\ \A i \in 1..(last - first + 1) : slice[i] = s[first + i - 1]
  BY <1>2, <1>3, SubSeqProperties
<1> HIDE DEF slice
<1>5. Len(slice) = k /\ \A i \in 1..k : slice[i] = s[a + i]
  BY <1>1, <1>2, <1>4
<1>6. \A i \in 1..Len(t) : t[i] = slice[i]
  BY <1>5 DEF k
<1>7. t = slice
  BY <1>4, <1>5, <1>6, SeqEqual DEF k
<1>. QED BY <1>7 DEF slice, first, last, k

\* splitlines takes an empty line at the very end for none.
LEMMA SplitIs ==
    ASSUME LogInv
    PROVE  LET lines == SplitLines(allLines) IN
           /\ lines \in Seq(Line) /\ Printed \in Nat /\ Len(lines) = Printed
           /\ Printed <= Len(allLines)
           /\ \A i \in 1..Printed : lines[i] = allLines[i]
<1> DEFINE n == Len(allLines)
<1>1. n \in Nat /\ (n = 0 <=> allLines = <<>>) /\ allLines \in Seq(Line)
  BY LenProperties, EmptySeq DEF LogInv
<1>2. CASE n # 0 /\ allLines[n].blank
  <2>1. /\ SplitLines(allLines) = SubSeq(allLines, 1, n - 1)
        /\ Printed = n - 1 /\ n - 1 \in 0..n
    BY <1>1, <1>2 DEF SplitLines, Printed
  <2>2. /\ SubSeq(allLines, 1, n - 1) \in Seq(Line)
        /\ Len(SubSeq(allLines, 1, n - 1)) = n - 1
        /\ \A i \in 1..(n - 1) : SubSeq(allLines, 1, n - 1)[i] = allLines[i]
    BY <1>1, <2>1, Beginning
  <2>. QED BY <1>1, <1>2, <2>1, <2>2
<1>3. CASE n = 0 \/ ~allLines[n].blank
  <2>1. SplitLines(allLines) = allLines /\ Printed = n
    BY <1>1, <1>3 DEF SplitLines, Printed
  <2>. QED BY <1>1, <2>1
<1>. QED BY <1>2, <1>3

\* A beginning and an end of the lines, told by their lengths.
LEMMA TwoEnds ==
    ASSUME LogInv, NEW head \in Seq(Line), NEW tail \in Seq(Line), NEW omitted,
           ~\A i \in DOMAIN allLines : allLines[i].blank,
           Len(head) <= Printed, Len(tail) <= Printed,
           \A i \in 1..Len(head) : head[i] = allLines[i],
           \A i \in 1..Len(tail) : tail[i] = allLines[(Printed - Len(tail)) + i],
           IF keep.tail = 0 /\ Printed > keep.head
           THEN /\ Len(head) = keep.head /\ omitted = Printed - keep.head
                /\ Len(tail) = Printed
           ELSE /\ Len(head) + omitted + Len(tail) = Printed
                /\ Len(head) + Len(tail) <= keep.head + keep.tail
                /\ omitted > 0 => Len(head) = keep.head /\ Len(tail) = keep.tail,
           log' = [head |-> head, omitted |-> omitted, tail |-> tail],
           UNCHANGED <<allLines, reads, keep>>
    PROVE  KeptOfEnded'
<1> DEFINE h == Len(head)
           t == Len(tail)
<1>1. /\ Printed \in Nat /\ Printed <= Len(allLines) /\ allLines \in Seq(Line)
      /\ Len(allLines) \in Nat /\ h \in Nat /\ t \in Nat
  BY SplitIs, LenProperties DEF LogInv
<1>2. h <= Printed /\ t <= Printed
  OBVIOUS
<1>3. head = SubSeq(allLines, 1, h)
  <2>1. 0 \in Nat /\ 0 + h <= Len(allLines) /\ 0 + 1 = 1 /\ 0 + h = h
        /\ \A i \in 1..h : 0 + i = i
    <3> HIDE DEF h
    <3>. QED BY <1>1, <1>2
  <2>2. \A i \in 1..h : head[i] = allLines[0 + i]
    BY <2>1
  <2>3. head = SubSeq(allLines, 0 + 1, 0 + h)
    BY <1>1, <2>1, <2>2, SliceOf
  <2>. QED BY <2>1, <2>3
<1>4. tail = SubSeq(allLines, Printed - t + 1, Printed)
  <2> DEFINE a == Printed - t
  <2>1. a \in Nat /\ a + t = Printed
    <3> HIDE DEF t
    <3>. QED BY <1>1, <1>2
  <2>2. a + t <= Len(allLines) /\ \A i \in 1..t : tail[i] = allLines[a + i]
    BY <1>1, <2>1
  <2> HIDE DEF a
  <2>3. tail = SubSeq(allLines, a + 1, a + t)
    BY <1>1, <2>1, <2>2, SliceOf
  <2>. QED BY <2>1, <2>3 DEF a
<1>5. allLines' = allLines /\ keep' = keep /\ Printed' = Printed
  BY DEF Printed
<1>6. log'.head = head /\ log'.omitted = omitted /\ log'.tail = tail
  OBVIOUS
<1>7. Len(log'.head) = h /\ Len(log'.tail) = t
  BY <1>6
<1>8. ~\A i \in DOMAIN allLines' : allLines'[i].blank
  BY <1>5
<1>9. IF keep'.tail = 0 /\ Printed' > keep'.head
      THEN h = keep'.head /\ log'.omitted = Printed' - h /\ t = Printed'
      ELSE /\ h + log'.omitted + t = Printed'
           /\ h + t <= keep'.head + keep'.tail
           /\ log'.omitted > 0 => h = keep'.head /\ t = keep'.tail
  BY <1>5, <1>6
<1> HIDE DEF h, t
<1>. QED BY <1>3, <1>4, <1>5, <1>6, <1>7, <1>8, <1>9 DEF KeptOfEnded

\* _build_log_output: nothing of a silent run, else the whole of the lines, or
\* a beginning and an end of them.
LEMMA SaveStep ==
    ASSUME LogInv, SaveLog
    PROVE  KeptOfEnded'
<1> DEFINE lines == SplitLines(allLines)
           h == keep.head
           m == keep.tail
<1>1. UNCHANGED <<allLines, reads, keep>>
  BY DEF SaveLog
<1>2. /\ lines \in Seq(Line) /\ Printed \in Nat /\ Len(lines) = Printed
      /\ \A i \in 1..Printed : lines[i] = allLines[i]
      /\ h \in Nat /\ m \in Nat
  BY SplitIs DEF LogInv
<1>3. PICK empty \in Seq(Line) : empty = <<>> /\ Len(empty) = 0
  BY EmptySeq
<1>4. CASE \A i \in DOMAIN allLines : allLines[i].blank
  BY <1>1, <1>4 DEF SaveLog, Build, KeptOfEnded
<1>5. CASE ~\A i \in DOMAIN allLines : allLines[i].blank
  <2>1. log' = IF Printed <= h + m
               THEN [head |-> lines, omitted |-> 0, tail |-> <<>>]
               ELSE [head |-> SubSeq(lines, 1, h), omitted |-> Printed - h - m,
                     tail |-> FromEnd(lines, m)]
    BY <1>2, <1>5 DEF SaveLog, Build, NoLog
  <2> HIDE DEF lines, h, m
  <2>2. CASE Printed <= h + m
    <3>1. log' = [head |-> lines, omitted |-> 0, tail |-> empty]
      BY <1>3, <2>1, <2>2
    <3>2. /\ Len(lines) <= Printed /\ Len(empty) <= Printed
          /\ \A i \in 1..Len(lines) : lines[i] = allLines[i]
          /\ \A i \in 1..Len(empty) :
                empty[i] = allLines[(Printed - Len(empty)) + i]
      BY <1>2, <1>3
    <3>3. /\ ~(m = 0 /\ Printed > h)
          /\ Len(lines) + 0 + Len(empty) = Printed
          /\ Len(lines) + Len(empty) <= h + m /\ ~(0 > 0)
      BY <1>2, <1>3, <2>2
    <3>. QED BY <1>1, <1>2, <1>5, <3>1, <3>2, <3>3, TwoEnds DEF h, m
  <2>3. CASE Printed > h + m
    <3>1. h \in 0..Len(lines) /\ m \in 0..Len(lines) /\ ~(Printed <= h + m)
      BY <1>2, <2>3
    <3>2. PICK head \in Seq(Line) :
             /\ head = SubSeq(lines, 1, h) /\ Len(head) = h
             /\ \A i \in 1..h : head[i] = lines[i]
      <4>1. /\ SubSeq(lines, 1, h) \in Seq(Line) /\ Len(SubSeq(lines, 1, h)) = h
            /\ \A i \in 1..h : SubSeq(lines, 1, h)[i] = lines[i]
        BY ONLY <1>2, <3>1, Beginning
      <4>. QED BY ONLY <4>1
    <3>3. \A i \in 1..Len(head) : head[i] = allLines[i]
      BY <1>2, <2>3, <3>2
    <3>4. CASE m = 0
      <4>1. FromEnd(lines, m) = lines
        BY <3>4 DEF FromEnd
      <4>2. PICK omitted : omitted = Printed - h
        OBVIOUS
      <4>3. Printed - h - m = omitted /\ Printed > h
        BY <1>2, <2>3, <3>4, <4>2
      <4>4. log' = [head |-> head, omitted |-> omitted, tail |-> lines]
        BY <2>1, <3>1, <3>2, <4>1, <4>3
      <4>5. /\ Len(head) <= Printed /\ Len(lines) <= Printed
            /\ \A i \in 1..Len(lines) :
                  lines[i] = allLines[(Printed - Len(lines)) + i]
        BY <1>2, <3>1, <3>2
      <4>6. IF m = 0 /\ Printed > h
            THEN Len(head) = h /\ omitted = Printed - h /\ Len(lines) = Printed
            ELSE /\ Len(head) + omitted + Len(lines) = Printed
                 /\ Len(head) + Len(lines) <= h + m
                 /\ omitted > 0 => Len(head) = h /\ Len(lines) = m
        <5>1. h \in Nat /\ m \in Nat /\ Printed \in Nat
              /\ Len(lines) = Printed /\ Len(head) = h
          BY <1>2, <3>2
        <5>. QED BY ONLY <3>4, <4>2, <4>3, <5>1
      <4>. QED BY <1>1, <1>2, <1>5, <3>3, <4>4, <4>5, <4>6, TwoEnds DEF h, m
    <3>5. CASE m # 0
      <4>1. PICK tail \in Seq(Line) :
               /\ tail = SubSeq(lines, Printed - m + 1, Printed) /\ Len(tail) = m
               /\ \A i \in 1..m : tail[i] = lines[(Printed - m) + i]
        <5>1. LET n == Len(lines) IN
              /\ SubSeq(lines, n - m + 1, n) \in Seq(Line)
              /\ Len(SubSeq(lines, n - m + 1, n)) = m
              /\ \A i \in 1..m : SubSeq(lines, n - m + 1, n)[i] = lines[(n - m) + i]
          BY ONLY <1>2, <3>1, Ending
        <5>. QED BY ONLY <1>2, <5>1
      <4>2. FromEnd(lines, m) = tail
        <5>1. ~(m = 0 \/ m >= Len(lines))
          BY <1>2, <2>3, <3>5
        <5>. QED BY <1>2, <4>1, <5>1 DEF FromEnd
      <4>3. PICK omitted : omitted = Printed - h - m
        OBVIOUS
      <4>4. log' = [head |-> head, omitted |-> omitted, tail |-> tail]
        BY <2>1, <3>1, <3>2, <4>2, <4>3
      <4>5. \A i \in 1..m : (Printed - m) + i \in 1..Printed
        BY ONLY <1>2, <2>3
      <4>6. /\ Len(head) <= Printed /\ Len(tail) <= Printed
            /\ \A i \in 1..Len(tail) :
                  tail[i] = allLines[(Printed - Len(tail)) + i]
        <5>1. h \in Nat /\ m \in Nat /\ Printed \in Nat /\ Printed > h + m
              /\ Len(head) = h /\ Len(tail) = m
          BY <1>2, <2>3, <3>2, <4>1
        <5>2. Len(head) <= Printed /\ Len(tail) <= Printed
          BY ONLY <5>1
        <5>3. \A i \in 1..m : lines[(Printed - m) + i] = allLines[(Printed - m) + i]
          BY ONLY <1>2, <4>5
        <5>. QED BY ONLY <4>1, <5>1, <5>2, <5>3
      <4>7. /\ ~(m = 0 /\ Printed > h)
            /\ Len(head) + omitted + Len(tail) = Printed
            /\ Len(head) + Len(tail) <= h + m
            /\ Len(head) = h /\ Len(tail) = m
        <5>1. h \in Nat /\ m \in Nat /\ Printed \in Nat
          BY <1>2
        <5>2. Len(head) = h /\ Len(tail) = m
          BY <3>2, <4>1
        <5>. QED BY ONLY <3>5, <4>3, <5>1, <5>2
      <4>. QED BY <1>1, <1>2, <1>5, <3>3, <4>4, <4>6, <4>7, TwoEnds DEF h, m
    <3>. QED BY <3>4, <3>5
  <2>. QED BY <1>2, <2>2, <2>3
<1>. QED BY <1>4, <1>5

\* A run that was killed keeps its last reads.
LEMMA TimedOutStep ==
    ASSUME LogInv, SaveTimedOut
    PROVE  KeptOfKilled' /\ log' \in Log
<1> DEFINE size == Len(allLines)
<1>1. /\ size \in Nat /\ DOMAIN allLines = 1..size /\ allLines \in Seq(Line)
      /\ UNCHANGED <<allLines, reads, keep>> /\ reads \in Nat
  BY LenProperties DEF LogInv, SaveTimedOut
<1>2. PICK n \in 0..size :
         /\ \A i \in DOMAIN allLines :
               i > n <=> allLines[i].read > reads - TimeoutKeeps
         /\ log' = [NoLog EXCEPT !.head = SubSeq(allLines, n + 1, size)]
  BY DEF SaveTimedOut
<1> DEFINE k == size - n
           head == SubSeq(allLines, n + 1, size)
<1>3. k \in 0..size /\ size - k = n /\ n + k = size /\ n \in Nat
  BY <1>1
<1>4. /\ head \in Seq(Line) /\ Len(head) = k
      /\ \A i \in 1..k : head[i] = allLines[n + i]
  <2> DEFINE last == SubSeq(allLines, size - k + 1, size)
  <2>1. /\ last \in Seq(Line) /\ Len(last) = k
        /\ \A i \in 1..k : last[i] = allLines[(size - k) + i]
    <3> HIDE DEF k
    <3>. QED BY <1>1, <1>3, Ending
  <2>2. last = head
    <3> HIDE DEF k
    <3>. QED BY <1>3
  <2> HIDE DEF last, head, k
  <2>. QED BY <1>3, <2>1, <2>2
<1>5. /\ log' = [head |-> head, omitted |-> 0, tail |-> <<>>]
      /\ log'.head = head /\ log'.omitted = 0 /\ log'.tail = <<>>
  BY <1>2 DEF NoLog
<1>6. DOMAIN head = 1..k
  BY <1>4, LenProperties
<1>7. head = SubSeq(allLines, size - Len(head) + 1, size)
  <2>1. size - Len(head) + 1 = n + 1
    <3> HIDE DEF head, k, size
    <3>. QED BY <1>1, <1>3, <1>4
  <2>. QED BY <2>1
<1> HIDE DEF head, k
<1>8. head # <<>> => head[1].part = 1
  <2> SUFFICES ASSUME head # <<>> PROVE head[1].part = 1
    OBVIOUS
  <2>1. k > 0
    <3>1. k # 0
      BY <1>4, EmptySeq
    <3>. QED BY <1>3, <3>1
  <2>2. n + 1 \in 1..size /\ n + 1 > n /\ 1 \in 1..k
    BY <1>1, <1>3, <2>1
  <2>3. head[1] = allLines[n + 1]
    BY <1>4, <2>2
  <2> DEFINE line == allLines[n + 1]
             r == line.read
  <2>4. line \in Line /\ r > reads - TimeoutKeeps /\ r <= reads
    <3>1. allLines[n + 1] \in Line
      BY <1>1, <2>2, ElementOfSeq
    <3>. QED BY <1>1, <1>2, <2>2, <3>1 DEF LogInv
  <2>5. r \in 1..reads /\ line.part \in 1..2
    BY <1>1, <2>4 DEF Line
  <2>6. PICK i \in 1..size : allLines[i].read = r /\ allLines[i].part = 1
    BY <1>1, <2>5 DEF LogInv
  <2>7. i > n
    BY <1>1, <1>2, <2>4, <2>6
  <2>8. CASE i = n + 1
    BY <2>3, <2>6, <2>8
  <2>9. CASE n + 1 < i
    <3>1. Place(line) < Place(allLines[i])
      BY <1>1, <2>2, <2>9 DEF LogInv, Ordered
    <3>2. Place(line) = 2 * r + line.part /\ Place(allLines[i]) = 2 * r + 1
      BY <2>6 DEF Place
    <3> HIDE DEF r, line
    <3>3. FALSE
      BY <2>5, <3>1, <3>2
    <3>. QED BY <3>3
  <2>. QED BY <1>1, <1>3, <2>2, <2>7, <2>8, <2>9
<1>9. {head[i].read : i \in 1..k} = {r \in 1..reads : r > reads - TimeoutKeeps}
  <2>1. ASSUME NEW i \in 1..k
        PROVE  head[i].read \in 1..reads /\ head[i].read > reads - TimeoutKeeps
    <3>1. n + i \in 1..size /\ n + i > n
      BY <1>1, <1>3
    <3>2. allLines[n + i] \in Line
      BY <1>1, <3>1, ElementOfSeq
    <3>3. /\ allLines[n + i].read <= reads /\ allLines[n + i].read \in 1..MaxLines
          /\ allLines[n + i].read > reads - TimeoutKeeps
      BY <1>1, <1>2, <3>1, <3>2 DEF LogInv, Line
    <3>. QED BY <1>1, <1>4, <3>3
  <2>2. ASSUME NEW r \in 1..reads, r > reads - TimeoutKeeps
        PROVE  \E i \in 1..k : head[i].read = r
    <3>1. PICK i \in 1..size : allLines[i].read = r
      BY <1>1 DEF LogInv
    <3>2. i > n
      BY <1>1, <1>2, <2>2, <3>1
    <3>3. i - n \in 1..k /\ n + (i - n) = i
      BY <1>1, <1>3, <3>2
    <3>. QED BY <1>4, <3>1, <3>3
  <2>. QED BY <2>1, <2>2
<1>10. /\ allLines' = allLines /\ reads' = reads /\ size = Len(allLines)
  BY <1>1
<1>11. KeptOfKilled'
  <2> HIDE DEF size
  <2>. QED BY <1>5, <1>6, <1>7, <1>8, <1>9, <1>10 DEF KeptOfKilled
<1>12. log' \in Log
  <2>1. <<>> \in Seq(Line)
    BY EmptySeq
  <2>. QED BY <1>4, <1>5, <2>1 DEF Log
<1>. QED BY <1>11, <1>12

LEMMA LogInvHolds == LogSpec => []LogInv
<1>1. LogInv /\ [LogNext]_logVars => LogInv'
  <2> SUFFICES ASSUME LogInv, [LogNext]_logVars PROVE LogInv'
    OBVIOUS
  <2>1. CASE \E kind \in {"text", "blank", "fed"} : ReadLine(kind)
    BY <2>1, ReadStep
  <2>2. CASE SaveLog \/ SaveTimedOut
    <3>1. allLines' = allLines /\ reads' = reads /\ keep' = keep
      BY <2>2 DEF SaveLog, SaveTimedOut
    <3>2. \/ end' = "ended" /\ KeptOfEnded'
          \/ end' = "killed" /\ KeptOfKilled'
      BY <2>2, SaveStep, TimedOutStep DEF SaveLog, SaveTimedOut
    <3>3. LogKeepsEnds' /\ end' \in {"none", "ended", "killed"}
      BY <3>2 DEF LogKeepsEnds
    <3>. QED BY <3>1, <3>3 DEF LogInv, Ordered, Place
  <2>3. CASE UNCHANGED logVars
    <3>1. /\ allLines' = allLines /\ reads' = reads /\ keep' = keep /\ log' = log
          /\ end' = end
      BY <2>3 DEF logVars
    <3>2. Printed' = Printed
      BY <3>1 DEF Printed
    <3>3. KeptOfEnded' <=> KeptOfEnded
      BY <3>1, <3>2 DEF KeptOfEnded
    <3>4. KeptOfKilled' <=> KeptOfKilled
      BY <3>1 DEF KeptOfKilled
    <3>5. LogKeepsEnds'
      BY <3>1, <3>3, <3>4 DEF LogInv, LogKeepsEnds
    <3>. QED BY <3>1, <3>5 DEF LogInv, Ordered, Place
  <2>. QED BY <2>1, <2>2, <2>3 DEF LogNext
<1>. QED BY <1>1, LogInitHolds, PTL DEF LogSpec

\* For every limit and any output, the log of a run that ended is its first and
\* last lines, no longer than the limits allow, with a count of what is left
\* out, 0 when nothing is; and the log of one that was killed at its timeout is
\* all of its last reads and nothing else.  Without a tail (LOG_TAIL_LINES=0)
\* the whole output follows the notice.
THEOREM LogHolds == LogSpec => []LogKeepsEnds
<1>1. LogInv => LogKeepsEnds
  BY DEF LogInv
<1>. QED BY <1>1, LogInvHolds, PTL

LEMMA BuildsALog ==
    ASSUME LogInv
    PROVE  Build(allLines) \in Log
<1> DEFINE lines == SplitLines(allLines)
           total == Len(lines)
<1>1. lines \in Seq(Line) /\ total \in Nat
  BY SplitIs DEF LogInv
<1>2. keep.head \in Nat /\ keep.tail \in Nat /\ <<>> \in Seq(Line)
  BY DEF LogInv
<1> HIDE DEF lines
<1>3. [head |-> lines, omitted |-> 0, tail |-> <<>>] \in Log
      /\ [head |-> <<>>, omitted |-> 0, tail |-> <<>>] \in Log
  BY <1>1, <1>2 DEF Log
<1>4. CASE total > keep.head + keep.tail
  <2>1. /\ keep.head \in 0..total /\ keep.tail \in 0..total
        /\ total - keep.head - keep.tail \in Nat
    BY <1>1, <1>2, <1>4
  <2>2. SubSeq(lines, 1, keep.head) \in Seq(Line)
    BY <1>1, <2>1, Beginning
  <2>3. FromEnd(lines, keep.tail) \in Seq(Line)
    BY <1>1, <2>1, Ending DEF FromEnd
  <2>4. [head |-> SubSeq(lines, 1, keep.head),
         omitted |-> total - keep.head - keep.tail,
         tail |-> FromEnd(lines, keep.tail)] \in Log
    BY <2>1, <2>2, <2>3 DEF Log
  <2>. QED BY <1>3, <1>4, <2>4 DEF Build, NoLog, lines
<1>5. CASE ~(total > keep.head + keep.tail)
  <2>1. total <= keep.head + keep.tail
    BY <1>1, <1>2, <1>5
  <2>. QED BY <1>3, <2>1 DEF Build, NoLog, lines
<1>. QED BY <1>4, <1>5

\* The lines, the limits and the log that is saved.
THEOREM LogTypes == LogSpec => []LogTypeOK
<1> DEFINE Saved == /\ keep \in [head : HeadLines, tail : TailLines]
                    /\ log \in Log
<1>1. LogInit => Saved
  <2>1. NoLog \in Log
    BY EmptySeq DEF NoLog, Log
  <2>. QED BY <2>1 DEF LogInit
<1>2. LogInv /\ Saved /\ [LogNext]_logVars => Saved'
  <2> SUFFICES ASSUME LogInv, Saved, [LogNext]_logVars PROVE Saved'
    OBVIOUS
  <2>1. keep' = keep
    BY DEF LogNext, ReadLine, SaveLog, SaveTimedOut, logVars
  <2>2. log' = log \/ SaveLog \/ SaveTimedOut
    BY DEF LogNext, ReadLine, logVars
  <2>3. log' = log \/ log' \in Log
    BY <2>2, BuildsALog, TimedOutStep DEF SaveLog
  <2>. QED BY <2>1, <2>3
<1>3. LogInv /\ Saved => LogTypeOK
  BY DEF LogInv, LogTypeOK
<1>. QED BY <1>1, <1>2, <1>3, LogInvHolds, PTL DEF LogSpec

-----------------------------------------------------------------------------
(* The parts together *)

\* A behaviour of MCRuns is one of each part, so that what is proved of a part
\* is true of it.
THEOREM PartsHold == Spec => ScriptsSpec /\ DagSpec /\ LogSpec /\ AnalyticsSpec
<1>1. Init => ScriptsInit /\ DagInit /\ LogInit /\ AnalyticsInit
  BY DEF Init
<1>2. [Next]_<<part, scriptVars, dagVars, logVars, analyticsVars>> =>
         /\ [ScriptsNext]_scriptVars /\ [DagNext]_dagVars
         /\ [LogNext]_logVars /\ [AnalyticsNext]_analyticsVars
  BY DEF Next, ScriptsPart, DagPart, LogPart, AnalyticsPart
<1>. QED BY <1>1, <1>2, PTL
     DEF Spec, ScriptsSpec, DagSpec, LogSpec, AnalyticsSpec

\* Every part keeps its types.
THEOREM RunsTypes == Spec => []RunsTypeOK
<1>1. ScriptInv /\ DagTypeOK /\ LogTypeOK /\ AnalyticsTypeOK => RunsTypeOK
  BY DEF RunsTypeOK, ScriptInv, IInv
<1>. QED BY <1>1, PartsHold, ScriptInvHolds, DagTypes, LogTypes, AnalyticsTypes, PTL
=============================================================================
