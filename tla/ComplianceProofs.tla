-------------------------- MODULE ComplianceProofs --------------------------
(* Proofs about Compliance for any forms, issues, horizons, workers, requests
   and jobs. *)
EXTENDS Compliance, TLAPS

-----------------------------------------------------------------------------
(* The calendar's keys *)

LEMMA QuarterMonotone ==
  ASSUME NEW m \in Nat, NEW n \in Nat, m <= n
  PROVE  Quarter(m) \in Nat /\ Quarter(n) \in Nat /\ Quarter(m) <= Quarter(n)
  BY DEF Quarter

(* Every candidate of a month within the clock's bounds is a key. *)
LEMMA CandidatesAreKeys ==
  ASSUME NEW v, NEW m \in FirstMonth..LastMonth
  PROVE  Quarterly(v, m) \subseteq Keys /\ Candidates(v, m) \subseteq Keys
  <1>1. Quarterly(v, m) \subseteq Keys
    <2>1. {SalesTaxForm(v), IncomeTaxForm} \subseteq QuarterlyForms
      BY DEF SalesTaxForm, QuarterlyForms
    <2>2. /\ FirstMonth \in Nat /\ LastMonth \in Nat /\ m \in Nat
          /\ FirstMonth <= m /\ m <= LastMonth /\ QuartersAhead \in Nat
      BY NumbersAssumption
    <2>3. /\ Quarter(m) \in Nat /\ Quarter(FirstMonth) \in Nat /\ Quarter(LastMonth) \in Nat
          /\ Quarter(FirstMonth) <= Quarter(m) /\ Quarter(m) <= Quarter(LastMonth)
      BY <2>2, QuarterMonotone
    <2>4. Quarters(m) \subseteq Quarter(FirstMonth)..(Quarter(LastMonth) + QuartersAhead - 1)
      BY <2>2, <2>3 DEF Quarters
    <2> QED BY <2>1, <2>4 DEF Quarterly, Keys
  <1>2. Monthly(m) \subseteq Keys
    <2>1. m..(m + MonthsAhead - 1) \subseteq FirstMonth..(LastMonth + MonthsAhead - 1)
      BY NumbersAssumption
    <2> QED BY <2>1 DEF Monthly, Keys
  <1> QED BY <1>1, <1>2 DEF Candidates

LEMMA AgencyOfKey ==
  ASSUME NEW k \in Keys
  PROVE  AgencyOf(k[1]) \in Agencies
  BY DEF Keys, Agencies

-----------------------------------------------------------------------------
(* Steps by what they leave alone *)

LEMMA NoScanShape ==
  /\ NoScan \in Scan /\ NoScan.at = "idle" /\ NoScan.job = None
  /\ NoScan.todo = {} /\ NoScan.class = None
  BY DEF NoScan, Scan, Stages

LEMMA InitIInv == Init => IInv
  <1> SUFFICES ASSUME Init PROVE IInv
    OBVIOUS
  <1>1. \A s \in Scanners : scan[s] = NoScan
    BY DEF Init
  <1>2. TypeOK
    <2>1. job \in [Jobs -> {"none", "waiting", "active", "done", "failed"}]
          /\ \A j \in Jobs : job[j] = "none" /\ j # None
      BY NamesAssumption DEF Init
    <2>2. \A j \in Jobs : ~\E s \in Workers : scan[s].job = j
      BY <1>1, <2>1, NoScanShape DEF Scanners
    <2>3. /\ attempts \in [Jobs -> 0..Attempts] /\ scan \in [Scanners -> Scan]
          /\ month \in FirstMonth..LastMonth /\ asked \in FirstMonth..month
      BY NoScanShape, NumbersAssumption DEF Init
    <2>4. /\ deadlines \in [Keys -> Nat] /\ open \in [Issues -> Nat]
          /\ rollups \in [Agencies -> Nat]
      BY DEF Init
    <2> QED BY <2>1, <2>2, <2>3, <2>4 DEF Init, TypeOK
  <1>3. OnceUnlessOverlapped
    BY <1>2 DEF Init, OnceUnlessOverlapped
  <1>4. \A s \in Scanners : ScanShape(s) /\ StillMissing(s)
    BY <1>1, NoScanShape DEF ScanShape, StillMissing, At
  <1>5. JobsApart /\ OneScan
    BY <1>1, <1>4, NoScanShape DEF JobsApart, OneScan, InFlight, At, Scanners
  <1> QED BY <1>3, <1>4, <1>5 DEF IInv

(* A step of the company, the queue or the world around it: no scan moves, and
   at most an issue is closed. *)
LEMMA ScansUntouched ==
  ASSUME IInv, TypeOK', UNCHANGED <<scan, deadlines, rollups, overlapped>>,
         \A i \in Issues : open'[i] <= open[i]
  PROVE  IInv'
  <1> USE DEF IInv, OnceUnlessOverlapped
  <1>1. \A i \in Issues : open[i] \in Nat /\ open'[i] \in Nat
    BY DEF TypeOK
  <1>2. OnceUnlessOverlapped'
    BY <1>1 DEF TypeOK
  <1>3. \A s \in Scanners : ScanShape(s)'
    BY DEF ScanShape, At
  <1>4. JobsApart'
    BY DEF JobsApart
  <1>5. OneScan'
    <2> SUFFICES ASSUME ~overlapped
                 PROVE  (\A s, t \in InFlight' : s = t) /\ \A s \in Scanners : StillMissing(s)'
      BY DEF OneScan
    <2>1. \A s, t \in InFlight' : s = t
      BY DEF OneScan, InFlight, At
    <2>2. ASSUME NEW s \in Scanners PROVE StillMissing(s)'
      <3>1. ScanShape(s) /\ StillMissing(s)
        BY DEF OneScan
      <3>2. \A i \in Issues : open[i] = 0 => open'[i] = 0
        BY <1>1
      <3> QED BY <3>1, <3>2 DEF StillMissing, ScanShape, At
    <2> QED BY <2>1, <2>2
  <1> QED BY <1>2, <1>3, <1>4, <1>5

(* A scan ends: done, failed, or dead with its process. *)
LEMMA ScanEnds ==
  ASSUME IInv, TypeOK', NEW s \in Scanners, scan' = [scan EXCEPT ![s] = NoScan],
         UNCHANGED <<results, overlapped>>
  PROVE  IInv'
  <1> USE DEF IInv, OnceUnlessOverlapped
  <1>1. \A t \in Scanners : scan'[t] = IF t = s THEN NoScan ELSE scan[t]
    BY DEF TypeOK
  <1>2. OnceUnlessOverlapped'
    BY DEF results
  <1>3. \A t \in Scanners : ScanShape(t)'
    BY <1>1, NoScanShape DEF ScanShape, At
  <1>4. JobsApart'
    BY <1>1, NoScanShape DEF JobsApart, Scanners
  <1>5. OneScan'
    <2> SUFFICES ASSUME ~overlapped
                 PROVE  (\A t, u \in InFlight' : t = u) /\ \A t \in Scanners : StillMissing(t)'
      BY DEF OneScan
    <2>1. \A t, u \in InFlight' : t = u
      <3>1. InFlight' \subseteq InFlight
        BY <1>1, NoScanShape DEF InFlight, At
      <3> QED BY <3>1 DEF OneScan
    <2>2. \A t \in Scanners : StillMissing(t)'
      <3>1. StillMissing(s)'
        BY <1>1, NoScanShape DEF StillMissing, At
      <3>2. ASSUME NEW t \in Scanners, t # s
            PROVE  StillMissing(t)'
        <4>1. StillMissing(t) /\ scan'[t] = scan[t]
          BY <1>1, <3>2 DEF OneScan
        <4> QED BY <4>1 DEF StillMissing, At, results
      <3> QED BY <3>1, <3>2
    <2> QED BY <2>1, <2>2
  <1> QED BY <1>2, <1>3, <1>4, <1>5

(* A scan takes a step, and what it writes is still missing if it is the only one. *)
LEMMA ScanStep ==
  ASSUME IInv, NEW s \in Scanners, ~At(s, "idle"), NEW r \in Scan,
         scan' = [scan EXCEPT ![s] = r],
         r.at # "idle", r.job = scan[s].job, r.class = scan[s].class,
         ScanShape(s)',
         deadlines' \in [Keys -> Nat], open' \in [Issues -> Nat], rollups' \in [Agencies -> Nat],
         UNCHANGED <<company, queue, raised, overlapped>>,
         ~overlapped => /\ \A k \in Keys : deadlines'[k] <= 1
                        /\ \A i \in Issues : open'[i] <= 1
                        /\ \A a \in Agencies : rollups'[a] <= 1
                        /\ StillMissing(s)'
  PROVE  IInv'
  <1> USE DEF IInv, OnceUnlessOverlapped
  <1>1. \A t \in Scanners : scan'[t] = IF t = s THEN r ELSE scan[t]
    BY DEF TypeOK
  <1>2. TypeOK'
    <2>1. \A t \in Workers : scan'[t].job = scan[t].job
      BY <1>1 DEF Scanners
    <2>2. \A j \in Jobs : job'[j] = "active" <=> \E t \in Workers : scan'[t].job = j
      BY <2>1 DEF TypeOK, queue
    <2>3. scan' \in [Scanners -> Scan]
      BY DEF TypeOK
    <2> QED BY <2>2, <2>3 DEF TypeOK, company, queue
  <1>3. OnceUnlessOverlapped'
    BY <1>2
  <1>4. \A t \in Scanners : ScanShape(t)'
    <2>1. ASSUME NEW t \in Scanners, t # s
          PROVE  ScanShape(t)'
      BY <1>1, <2>1 DEF ScanShape, At
    <2> QED BY <2>1
  <1>5. JobsApart'
    <2>1. \A t \in Workers : scan'[t].job = scan[t].job
      BY <1>1 DEF Scanners
    <2> QED BY <2>1 DEF JobsApart
  <1>6. OneScan'
    <2> SUFFICES ASSUME ~overlapped
                 PROVE  (\A t, u \in InFlight' : t = u) /\ \A t \in Scanners : StillMissing(t)'
      BY DEF OneScan
    <2>1. \A t \in Scanners : t # s => scan'[t] = scan[t] /\ At(t, "idle")
      BY <1>1 DEF OneScan, InFlight
    <2>2. \A t \in Scanners : t # s => StillMissing(t)'
      BY <2>1 DEF ScanShape, StillMissing, At
    <2>3. \A t, u \in InFlight' : t = u
      BY <2>1 DEF InFlight, At
    <2> QED BY <2>2, <2>3
  <1> QED BY <1>2, <1>3, <1>4, <1>5, <1>6

-----------------------------------------------------------------------------
(* The company, and the world around it *)

LEMMA WorldKeepsIInv ==
  ASSUME IInv,
         \/ CreateCompany \/ FirstEmployee \/ Tick
         \/ \E e \in Editors : UpdateCompanyRead(e) \/ UpdateCompany(e)
         \/ \E i \in Issues : RaiseIssue(i) \/ CloseIssue(i)
         \/ \E j \in Jobs : EnqueueComplianceScan(j)
  PROVE  IInv'
  <1> USE DEF company, queue, results
  <1>1. TypeOK
    BY DEF IInv, OnceUnlessOverlapped
  <1>2. \A i \in Issues : open[i] \in Nat
    BY <1>1 DEF TypeOK
  <1>3. /\ FirstMonth \in Nat /\ LastMonth \in Nat
        /\ month \in Nat /\ FirstMonth <= month /\ month <= LastMonth
    BY <1>1, NumbersAssumption DEF TypeOK
  <1>4. CASE CreateCompany
    <2>1. TypeOK'
      BY <1>1, <1>3, <1>4 DEF CreateCompany, TypeOK
    <2> QED BY <1>2, <1>4, <2>1, ScansUntouched DEF CreateCompany
  <1>5. CASE FirstEmployee
    <2>1. TypeOK'
      BY <1>1, <1>5 DEF FirstEmployee, TypeOK
    <2> QED BY <1>2, <1>5, <2>1, ScansUntouched DEF FirstEmployee
  <1>6. CASE Tick
    <2>1. month' \in FirstMonth..LastMonth /\ asked' \in FirstMonth..month'
      BY <1>1, <1>3, <1>6 DEF Tick, TypeOK
    <2>2. TypeOK'
      BY <1>1, <1>6, <2>1 DEF Tick, TypeOK
    <2> QED BY <1>2, <1>6, <2>2, ScansUntouched DEF Tick
  <1>7. ASSUME NEW e \in Editors, UpdateCompanyRead(e) PROVE IInv'
    <2>1. edit' \in [Editors -> [existing : Classes, wanted : Classes] \cup {None}]
      BY <1>1, <1>7 DEF UpdateCompanyRead, TypeOK
    <2>2. TypeOK'
      BY <1>1, <1>7, <2>1 DEF UpdateCompanyRead, TypeOK
    <2> QED BY <1>2, <1>7, <2>2, ScansUntouched DEF UpdateCompanyRead
  <1>8. ASSUME NEW e \in Editors, UpdateCompany(e) PROVE IInv'
    <2>1. edit[e].wanted \in Classes
      BY <1>1, <1>8 DEF UpdateCompany, TypeOK
    <2>2. /\ edit' \in [Editors -> [existing : Classes, wanted : Classes] \cup {None}]
          /\ asked' \in FirstMonth..month' /\ events' \in Nat
      BY <1>1, <1>3, <1>8 DEF UpdateCompany, TypeOK
    <2>3. TypeOK'
      BY <1>1, <1>8, <2>1, <2>2 DEF UpdateCompany, TypeOK
    <2> QED BY <1>2, <1>8, <2>3, ScansUntouched DEF UpdateCompany
  <1>9. ASSUME NEW i \in Issues, RaiseIssue(i) PROVE IInv'
    <2>1. TypeOK'
      BY <1>1, <1>9 DEF RaiseIssue, TypeOK
    <2> QED BY <1>2, <1>9, <2>1, ScansUntouched DEF RaiseIssue
  <1>10. ASSUME NEW i \in Issues, CloseIssue(i) PROVE IInv'
    <2>1. open' \in [Issues -> Nat] /\ \A x \in Issues : open'[x] <= open[x]
      BY <1>1, <1>2, <1>10 DEF CloseIssue, TypeOK
    <2>2. TypeOK'
      BY <1>1, <1>10, <2>1 DEF CloseIssue, TypeOK
    <2> QED BY <1>10, <2>1, <2>2, ScansUntouched DEF CloseIssue
  <1>11. ASSUME NEW j \in Jobs, EnqueueComplianceScan(j) PROVE IInv'
    <2>1. /\ events' \in Nat /\ job' \in [Jobs -> {"none", "waiting", "active", "done", "failed"}]
          /\ \A x \in Jobs : job'[x] = "active" <=> job[x] = "active"
      BY <1>1, <1>11 DEF EnqueueComplianceScan, TypeOK
    <2>2. TypeOK'
      BY <1>1, <1>11, <2>1 DEF EnqueueComplianceScan, TypeOK
    <2> QED BY <1>2, <1>11, <2>2, ScansUntouched DEF EnqueueComplianceScan
  <1> QED BY <1>4, <1>5, <1>6, <1>7, <1>8, <1>9, <1>10, <1>11

-----------------------------------------------------------------------------
(* Scans begin and end *)

LEMMA StartKeepsIInv ==
  ASSUME IInv, NEW s \in Scanners, NEW j \in Jobs \cup {None}, Starts(s, j),
         s \in Workers => j \in Jobs /\ job[j] = "waiting" /\ job' = [job EXCEPT ![j] = "active"],
         s \in Requests => j = None /\ UNCHANGED job,
         UNCHANGED <<company, events, attempts, results, raised>>
  PROVE  IInv'
  <1> USE DEF IInv, OnceUnlessOverlapped
  <1> DEFINE r == [NoScan EXCEPT !.at = "planning", !.job = j, !.class = profile]
  <1>1. /\ r \in Scan /\ r.at = "planning" /\ r.job = j /\ r.class \in Classes /\ r.todo = {}
        /\ scan' = [scan EXCEPT ![s] = r] /\ At(s, "idle")
        /\ overlapped' = (overlapped \/ InFlight # {})
    BY DEF Starts, NoScan, Scan, Stages, TypeOK
  <1> HIDE DEF r
  <1>2. \A t \in Scanners : scan'[t] = IF t = s THEN r ELSE scan[t]
    BY <1>1 DEF TypeOK
  <1>3. \A t \in Workers : scan[t].job = j => j = None
    BY NamesAssumption DEF TypeOK, Scanners
  <1>4. TypeOK'
    <2>1. \A x \in Jobs : job'[x] = "active" <=> \E t \in Workers : scan'[t].job = x
      <3>1. CASE s \in Workers
        <4>1. \A x \in Jobs : job'[x] = IF x = j THEN "active" ELSE job[x]
          BY <3>1 DEF TypeOK
        <4>2. scan[s].job = None
          BY <1>1 DEF ScanShape
        <4> QED BY <1>1, <1>2, <3>1, <4>1, <4>2, NamesAssumption DEF TypeOK, Scanners
      <3>2. CASE s \in Requests
        <4>1. \A t \in Workers : scan'[t] = scan[t]
          BY <1>2, <3>2, NamesAssumption DEF Scanners
        <4> QED BY <3>2, <4>1 DEF TypeOK
      <3> QED BY <3>1, <3>2 DEF Scanners
    <2>2. job' \in [Jobs -> {"none", "waiting", "active", "done", "failed"}]
      BY DEF TypeOK, Scanners
    <2>3. scan' \in [Scanners -> Scan] /\ overlapped' \in BOOLEAN
      BY <1>1 DEF TypeOK
    <2> QED BY <2>1, <2>2, <2>3 DEF TypeOK, company, results
  <1>5. OnceUnlessOverlapped'
    BY <1>1, <1>4 DEF results
  <1>6. \A t \in Scanners : ScanShape(t)'
    <2>1. ScanShape(s)'
      BY <1>1, <1>2 DEF ScanShape, At, Scanners
    <2>2. ASSUME NEW t \in Scanners, t # s PROVE ScanShape(t)'
      BY <1>2, <2>2 DEF ScanShape, At
    <2> QED BY <2>1, <2>2
  <1>7. JobsApart'
    BY <1>1, <1>2, <1>3 DEF JobsApart, Scanners
  <1>8. OneScan'
    <2> SUFFICES ASSUME ~overlapped'
                 PROVE  (\A t, u \in InFlight' : t = u) /\ \A t \in Scanners : StillMissing(t)'
      BY DEF OneScan
    <2>1. ~overlapped /\ \A t \in Scanners : At(t, "idle")
      BY <1>1 DEF InFlight
    <2>2. \A t, u \in InFlight' : t = u
      BY <1>2, <2>1 DEF InFlight, At
    <2>3. StillMissing(s)'
      BY <1>1, <1>2 DEF StillMissing, At
    <2>4. ASSUME NEW t \in Scanners, t # s PROVE StillMissing(t)'
      BY <1>2, <2>1, <2>4 DEF OneScan, StillMissing, At, results
    <2> QED BY <2>2, <2>3, <2>4
  <1> QED BY <1>5, <1>6, <1>7, <1>8

LEMMA TakeJobKeepsIInv ==
  ASSUME IInv, NEW s \in Workers, TakeJob(s)
  PROVE  IInv'
  <1>1. PICK j \in Jobs : /\ job[j] = "waiting" /\ Starts(s, j)
                          /\ job' = [job EXCEPT ![j] = "active"]
                          /\ UNCHANGED <<company, events, attempts, results, raised>>
    BY DEF TakeJob
  <1>2. s \in Scanners /\ s \notin Requests
    BY NamesAssumption DEF Scanners
  <1> QED BY <1>1, <1>2, StartKeepsIInv

LEMMA RequestScanKeepsIInv ==
  ASSUME IInv, NEW s \in Requests, RequestScan(s)
  PROVE  IInv'
  <1>1. s \in Scanners /\ s \notin Workers
    BY NamesAssumption DEF Scanners
  <1> QED BY <1>1, StartKeepsIInv DEF RequestScan, queue

(* The job of a scan that ends is active no more, and no other one is touched. *)
LEMMA EndedJob ==
  ASSUME IInv, NEW s \in Scanners, ~At(s, "idle"), scan' = [scan EXCEPT ![s] = NoScan],
         job' \in [Jobs -> {"none", "waiting", "active", "done", "failed"}],
         \A j \in Jobs : j # scan[s].job => job'[j] = job[j],
         scan[s].job \in Jobs => job'[scan[s].job] # "active"
  PROVE  \A j \in Jobs : job'[j] = "active" <=> \E t \in Workers : scan'[t].job = j
  <1> SUFFICES ASSUME NEW j \in Jobs
               PROVE  job'[j] = "active" <=> \E t \in Workers : scan'[t].job = j
    OBVIOUS
  <1>1. \A t \in Scanners : scan'[t] = IF t = s THEN NoScan ELSE scan[t]
    BY DEF IInv, OnceUnlessOverlapped, TypeOK
  <1>2. job[j] = "active" <=> \E t \in Workers : scan[t].job = j
    BY DEF IInv, OnceUnlessOverlapped, TypeOK
  <1>3. j # None
    BY NamesAssumption
  <1>4. CASE j = scan[s].job
    <2>1. s \in Workers
      BY <1>3, <1>4 DEF IInv, ScanShape, Scanners
    <2>2. \A t \in Workers : t # s => scan[t].job # j
      BY <1>3, <1>4, <2>1 DEF IInv, JobsApart
    <2> QED BY <1>1, <1>3, <1>4, <2>2, NoScanShape DEF Scanners
  <1>5. CASE j # scan[s].job
    BY <1>1, <1>2, <1>3, <1>5, NoScanShape DEF Scanners
  <1> QED BY <1>4, <1>5

LEMMA FailKeepsIInv ==
  ASSUME IInv, NEW s \in Scanners, Fail(s)
  PROVE  IInv'
  <1> DEFINE j == scan[s].job
  <1>1. TypeOK /\ ScanShape(s) /\ ~At(s, "idle") /\ scan' = [scan EXCEPT ![s] = NoScan]
    BY DEF IInv, OnceUnlessOverlapped, Fail
  <1>2. j = None \/ (j \in Jobs /\ j # None)
    <2>1. s \in Workers \/ s \in Requests
      BY DEF Scanners
    <2>2. None \notin Jobs
      BY NamesAssumption
    <2> QED BY <1>1, <2>1, <2>2 DEF ScanShape
  <1>3. /\ job' \in [Jobs -> {"none", "waiting", "active", "done", "failed"}]
        /\ \A x \in Jobs : x # j => job'[x] = job[x]
        /\ j \in Jobs => job'[j] # "active"
    <2>1. CASE j = None
      <3>1. job' = job /\ None \notin Jobs
        BY <2>1, NamesAssumption DEF Fail
      <3> QED BY <1>1, <2>1, <3>1 DEF TypeOK
    <2>2. CASE j \in Jobs /\ j # None
      <3>1. \E x \in {"waiting", "failed"} : job' = [job EXCEPT ![j] = x]
        BY <2>2 DEF Fail
      <3> QED BY <1>1, <2>2, <3>1 DEF TypeOK
    <2> QED BY <1>2, <2>1, <2>2
  <1>4. attempts' \in [Jobs -> 0..Attempts]
    BY <1>1, <1>2, NumbersAssumption DEF Fail, TypeOK
  <1>5. \A x \in Jobs : job'[x] = "active" <=> \E t \in Workers : scan'[t].job = x
    BY <1>1, <1>3, EndedJob
  <1>6. TypeOK'
    BY <1>1, <1>3, <1>4, <1>5, NoScanShape DEF TypeOK, Fail, company, results
  <1> QED BY <1>1, <1>6, ScanEnds DEF Fail

LEMMA ScanDoneKeepsIInv ==
  ASSUME IInv, NEW s \in Scanners, ScanDone(s)
  PROVE  IInv'
  <1>1. /\ TypeOK /\ ScanShape(s) /\ ~At(s, "idle") /\ scan' = [scan EXCEPT ![s] = NoScan]
        /\ job' = [x \in Jobs |-> IF x = scan[s].job THEN "done" ELSE job[x]]
    BY DEF IInv, OnceUnlessOverlapped, ScanDone, At
  <1>2. /\ job' \in [Jobs -> {"none", "waiting", "active", "done", "failed"}]
        /\ \A x \in Jobs : x # scan[s].job => job'[x] = job[x]
        /\ scan[s].job \in Jobs => job'[scan[s].job] # "active"
    BY <1>1 DEF TypeOK
  <1>3. \A x \in Jobs : job'[x] = "active" <=> \E t \in Workers : scan'[t].job = x
    BY <1>1, <1>2, EndedJob
  <1>4. TypeOK'
    <2>1. scan' \in [Scanners -> Scan]
      BY <1>1, NoScanShape DEF TypeOK
    <2> QED BY <1>1, <1>2, <1>3, <2>1 DEF TypeOK, ScanDone, company, results
  <1> QED BY <1>1, <1>4, ScanEnds DEF ScanDone

-----------------------------------------------------------------------------
(* The steps of a scan *)

LEMMA PlanKeepsIInv ==
  ASSUME IInv, NEW s \in Scanners, Plan(s)
  PROVE  IInv'
  <1> USE DEF IInv, OnceUnlessOverlapped
  <1> DEFINE todo == Missing(scan[s].class)
             r == [scan[s] EXCEPT !.at = "creating", !.todo = todo]
  <1>1. todo \subseteq Keys /\ \A k \in todo : deadlines[k] = 0
    BY CandidatesAreKeys DEF Missing, TypeOK
  <1>2. /\ scan[s] \in Scan /\ ScanShape(s) /\ ~At(s, "idle")
        /\ scan' = [scan EXCEPT ![s] = r]
        /\ UNCHANGED <<company, queue, results, raised, overlapped>>
    BY DEF Plan, At, TypeOK
  <1>3. /\ r \in Scan /\ r.at = "creating" /\ r.todo = todo /\ r.job = scan[s].job
        /\ r.class = scan[s].class /\ scan'[s] = r
    BY <1>1, <1>2 DEF Scan, Stages, TypeOK
  <1> HIDE DEF todo, r
  <1>4. ScanShape(s)'
    BY <1>2, <1>3 DEF ScanShape, At
  <1>5. StillMissing(s)'
    BY <1>1, <1>2, <1>3 DEF StillMissing, At, results
  <1> QED BY <1>2, <1>3, <1>4, <1>5, ScanStep DEF results, TypeOK

LEMMA CreateDeadlinesKeepsIInv ==
  ASSUME IInv, NEW s \in Scanners, CreateDeadlines(s)
  PROVE  IInv'
  <1> USE DEF IInv, OnceUnlessOverlapped
  <1> DEFINE r == [scan[s] EXCEPT !.at = "vat check", !.todo = {}]
  <1>1. /\ scan[s] \in Scan /\ ScanShape(s) /\ ~At(s, "idle")
        /\ scan' = [scan EXCEPT ![s] = r]
        /\ UNCHANGED <<company, queue, open, rollups, raised, overlapped>>
    BY DEF CreateDeadlines, At, TypeOK
  <1>2. /\ r \in Scan /\ r.at = "vat check" /\ r.todo = {} /\ r.job = scan[s].job
        /\ r.class = scan[s].class /\ scan'[s] = r
    BY <1>1 DEF Scan, Stages, TypeOK
  <1> HIDE DEF r
  <1>3. ScanShape(s)'
    BY <1>1, <1>2 DEF ScanShape, At
  <1>4. StillMissing(s)'
    BY <1>2 DEF StillMissing, At
  <1>5. \A k \in Keys : deadlines[k] \in Nat
    BY DEF TypeOK
  <1>6. deadlines' \in [Keys -> Nat]
    <2>1. deadlines' = [k \in Keys |-> IF k \in scan[s].todo THEN deadlines[k] + 1 ELSE deadlines[k]]
      BY DEF CreateDeadlines
    <2>2. \A k \in Keys : (IF k \in scan[s].todo THEN deadlines[k] + 1 ELSE deadlines[k]) \in Nat
      BY <1>5
    <2> QED BY <2>1, <2>2
  <1>7. ~overlapped => \A k \in Keys : deadlines'[k] <= 1
    <2> SUFFICES ASSUME ~overlapped, NEW k \in Keys PROVE deadlines'[k] <= 1
      OBVIOUS
    <2>1. deadlines'[k] = IF k \in scan[s].todo THEN deadlines[k] + 1 ELSE deadlines[k]
      BY DEF CreateDeadlines
    <2>2. k \in scan[s].todo => deadlines[k] = 0
      BY DEF OneScan, StillMissing
    <2> QED BY <1>5, <2>1, <2>2
  <1> QED BY <1>1, <1>2, <1>3, <1>4, <1>6, <1>7, ScanStep DEF TypeOK

(* The scan goes on to a stage whose writes were found missing. *)
LEMMA GoesKeepsIInv ==
  ASSUME IInv, NEW s \in Scanners, ~At(s, "idle"), ~At(s, "creating"),
         NEW stage \in {"vat flag", "duplicate check", "duplicate flag", "counting"},
         Goes(s, stage),
         stage = "vat flag" =>
           "vat_misclassification" \in Issues /\ open'["vat_misclassification"] = 0,
         stage = "duplicate flag" =>
           "duplicate_transaction" \in Issues /\ open'["duplicate_transaction"] = 0,
         open' \in [Issues -> Nat],
         ~overlapped => \A i \in Issues : open'[i] <= 1,
         UNCHANGED <<company, queue, deadlines, rollups, raised, overlapped>>
  PROVE  IInv'
  <1> USE DEF IInv, OnceUnlessOverlapped
  <1> DEFINE r == [scan[s] EXCEPT !.at = stage]
  <1>1. /\ scan[s] \in Scan /\ ScanShape(s) /\ scan' = [scan EXCEPT ![s] = r]
    BY DEF Goes, TypeOK
  <1>2. /\ r \in Scan /\ r.at = stage /\ r.todo = {} /\ r.job = scan[s].job
        /\ r.class = scan[s].class /\ scan'[s] = r
    <2>1. scan[s].todo = {} /\ stage \in Stages
      BY <1>1 DEF ScanShape, Stages
    <2>2. r \in Scan
      BY <1>1, <2>1 DEF Scan
    <2>3. r.at = stage /\ r.todo = {} /\ r.job = scan[s].job /\ r.class = scan[s].class
      BY <1>1, <2>1 DEF Scan
    <2>4. scan'[s] = r
      BY <1>1 DEF TypeOK
    <2> QED BY <2>2, <2>3, <2>4
  <1> HIDE DEF r
  <1>3. ScanShape(s)'
    BY <1>1, <1>2 DEF ScanShape, At
  <1>4. StillMissing(s)'
    BY <1>2 DEF StillMissing, At
  <1> QED BY <1>1, <1>2, <1>3, <1>4, ScanStep DEF TypeOK

LEMMA ChecksKeepIInv ==
  ASSUME IInv, NEW s \in Scanners, CheckVatClassificationRisk(s) \/ CheckDuplicatePayrollRuns(s)
  PROVE  IInv'
  <1> USE DEF IInv, OnceUnlessOverlapped
  <1>1. /\ open \in [Issues -> Nat] /\ raised \subseteq Issues
        /\ ~overlapped => \A i \in Issues : open[i] <= 1
        /\ \A i \in Issues : ~AlreadyFlagged(i) => open[i] = 0
    BY DEF TypeOK, AlreadyFlagged
  <1>2. CASE CheckVatClassificationRisk(s)
    <2>1. /\ ~At(s, "idle") /\ ~At(s, "creating")
          /\ UNCHANGED <<company, queue, results, raised, overlapped>>
          /\ \/ /\ Goes(s, "vat flag") /\ "vat_misclassification" \in raised
                /\ ~AlreadyFlagged("vat_misclassification")
             \/ Goes(s, "duplicate check")
      BY <1>2 DEF CheckVatClassificationRisk, At
    <2> QED BY <1>1, <2>1, GoesKeepsIInv DEF results
  <1>3. CASE CheckDuplicatePayrollRuns(s)
    <2>1. /\ ~At(s, "idle") /\ ~At(s, "creating")
          /\ UNCHANGED <<company, queue, results, raised, overlapped>>
          /\ \/ /\ Goes(s, "duplicate flag") /\ "duplicate_transaction" \in raised
                /\ ~AlreadyFlagged("duplicate_transaction")
             \/ Goes(s, "counting")
      BY <1>3 DEF CheckDuplicatePayrollRuns, At
    <2> QED BY <1>1, <2>1, GoesKeepsIInv DEF results
  <1> QED BY <1>2, <1>3

(* One more row where there was none leaves no count above one. *)
LEMMA OneMore ==
  ASSUME NEW S, NEW f \in [S -> Nat], NEW x \in S, NEW g, g = [f EXCEPT ![x] = @ + 1]
  PROVE  /\ g \in [S -> Nat]
         /\ (\A y \in S : f[y] <= 1) /\ f[x] = 0 => \A y \in S : g[y] <= 1
  OBVIOUS

LEMMA OneMoreIssue ==
  ASSUME TypeOK, ~overlapped => \A i \in Issues : open[i] <= 1, NEW issue \in Issues,
         ~overlapped => open[issue] = 0, open' = [open EXCEPT ![issue] = @ + 1]
  PROVE  /\ open' \in [Issues -> Nat]
         /\ ~overlapped => \A i \in Issues : open'[i] <= 1
  <1>1. open \in [Issues -> Nat]
    BY DEF TypeOK
  <1> QED BY <1>1, OneMore

LEMMA FlagIssueKeepsIInv ==
  ASSUME IInv, NEW s \in Scanners, FlagIssue(s)
  PROVE  IInv'
  <1>1. /\ TypeOK
        /\ ~overlapped => \A i \in Issues : open[i] <= 1
        /\ ~overlapped => StillMissing(s)
    BY DEF IInv, OnceUnlessOverlapped, OneScan
  <1>2. CASE Flag(s, "vat flag", "vat_misclassification", "duplicate check")
    <2>1. /\ ~overlapped => open["vat_misclassification"] = 0
          /\ ~At(s, "idle") /\ ~At(s, "creating")
      BY <1>1, <1>2 DEF Flag, StillMissing, At
    <2>2. /\ open' \in [Issues -> Nat]
          /\ ~overlapped => \A i \in Issues : open'[i] <= 1
      BY <1>1, <1>2, <2>1, OneMoreIssue DEF Flag
    <2> QED BY <1>2, <2>1, <2>2, GoesKeepsIInv DEF Flag
  <1>3. CASE Flag(s, "duplicate flag", "duplicate_transaction", "counting")
    <2>1. /\ ~overlapped => open["duplicate_transaction"] = 0
          /\ ~At(s, "idle") /\ ~At(s, "creating")
      BY <1>1, <1>3 DEF Flag, StillMissing, At
    <2>2. /\ open' \in [Issues -> Nat]
          /\ ~overlapped => \A i \in Issues : open'[i] <= 1
      BY <1>1, <1>3, <2>1, OneMoreIssue DEF Flag
    <2> QED BY <1>3, <2>1, <2>2, GoesKeepsIInv DEF Flag
  <1> QED BY <1>2, <1>3 DEF FlagIssue

LEMMA CountDeadlinesKeepsIInv ==
  ASSUME IInv, NEW s \in Scanners, CountDeadlines(s)
  PROVE  IInv'
  <1> USE DEF IInv, OnceUnlessOverlapped
  <1> DEFINE found == {AgencyOf(k[1]) : k \in {q \in Keys : deadlines[q] > 0}}
             r == [scan[s] EXCEPT !.at = "rolling up", !.agencies = found]
  <1>1. found \subseteq Agencies
    BY AgencyOfKey
  <1>2. /\ scan[s] \in Scan /\ ScanShape(s) /\ At(s, "counting")
        /\ scan' = [scan EXCEPT ![s] = r]
        /\ UNCHANGED <<company, queue, results, raised, overlapped>>
    BY DEF CountDeadlines, At, TypeOK
  <1> HIDE DEF found
  <1>3. /\ r \in Scan /\ r.at = "rolling up" /\ r.todo = {} /\ r.job = scan[s].job
        /\ r.class = scan[s].class /\ scan'[s] = r
    <2>1. scan[s].todo = {}
      BY <1>1, <1>2 DEF ScanShape, At
    <2>2. r \in Scan
      BY <1>1, <1>2 DEF Scan, Stages
    <2>3. r.at = "rolling up" /\ r.todo = {} /\ r.job = scan[s].job /\ r.class = scan[s].class
      BY <1>2, <2>1 DEF Scan
    <2>4. scan'[s] = r
      BY <1>2 DEF TypeOK
    <2> QED BY <2>2, <2>3, <2>4
  <1> HIDE DEF r
  <1>4. ScanShape(s)'
    BY <1>2, <1>3 DEF ScanShape, At
  <1>5. StillMissing(s)'
    BY <1>3 DEF StillMissing, At
  <1> QED BY <1>2, <1>3, <1>4, <1>5, ScanStep DEF results, TypeOK, At

LEMMA FindRollupKeepsIInv ==
  ASSUME IInv, NEW s \in Scanners, FindRollup(s)
  PROVE  IInv'
  <1> USE DEF IInv, OnceUnlessOverlapped
  <1>1. PICK a \in scan[s].agencies :
          /\ At(s, "rolling up")
          /\ scan' = [scan EXCEPT ![s].at = IF rollups[a] > 0 THEN "rolling up" ELSE "adding",
                                  ![s].agencies = @ \ {a},
                                  ![s].agency = IF rollups[a] > 0 THEN None ELSE a]
          /\ UNCHANGED <<company, queue, results, raised, overlapped>>
    BY DEF FindRollup
  <1>2. scan[s] \in Scan /\ ScanShape(s) /\ a \in Agencies /\ rollups[a] \in Nat
    BY DEF TypeOK, Scan
  <1> DEFINE stage == IF rollups[a] > 0 THEN "rolling up" ELSE "adding"
             agency == IF rollups[a] > 0 THEN None ELSE a
             r == [scan[s] EXCEPT !.at = stage, !.agencies = @ \ {a}, !.agency = agency]
  <1>3. /\ stage \in {"rolling up", "adding"} /\ agency \in Agencies \cup {None}
        /\ stage = "adding" => agency = a /\ rollups[a] = 0
        /\ scan' = [scan EXCEPT ![s] = r]
    <2>1. /\ stage \in {"rolling up", "adding"} /\ agency \in Agencies \cup {None}
          /\ stage = "adding" => agency = a /\ rollups[a] = 0
      BY <1>2
    <2>2. scan' = [scan EXCEPT ![s].at = stage, ![s].agencies = @ \ {a}, ![s].agency = agency]
      BY <1>1
    <2> HIDE DEF stage, agency
    <2>3. scan' = [scan EXCEPT ![s] = [scan[s] EXCEPT !.at = stage, !.agencies = @ \ {a},
                                                      !.agency = agency]]
      BY <2>2 DEF TypeOK
    <2> QED BY <2>1, <2>3
  <1> HIDE DEF stage, agency
  <1>4. /\ r \in Scan /\ r.at = stage /\ r.todo = {} /\ r.job = scan[s].job
        /\ r.class = scan[s].class /\ r.agency = agency /\ scan'[s] = r
    <2>1. scan[s].todo = {}
      BY <1>1, <1>2 DEF ScanShape, At
    <2>2. stage \in Stages
      BY <1>3 DEF Stages
    <2>3. r \in Scan
      BY <1>2, <1>3, <2>2 DEF Scan
    <2>4. /\ r.at = stage /\ r.todo = {} /\ r.job = scan[s].job
          /\ r.class = scan[s].class /\ r.agency = agency
      BY <1>2, <2>1 DEF Scan
    <2>5. scan'[s] = r
      BY <1>3 DEF TypeOK
    <2> QED BY <2>3, <2>4, <2>5
  <1> HIDE DEF r
  <1>5. ScanShape(s)'
    BY <1>1, <1>2, <1>3, <1>4 DEF ScanShape, At
  <1>6. StillMissing(s)'
    BY <1>1, <1>3, <1>4 DEF StillMissing, At, results
  <1> QED BY <1>1, <1>3, <1>4, <1>5, <1>6, ScanStep DEF results, TypeOK, At

LEMMA CreateRollupKeepsIInv ==
  ASSUME IInv, NEW s \in Scanners, CreateRollup(s)
  PROVE  IInv'
  <1> USE DEF IInv, OnceUnlessOverlapped
  <1> DEFINE a == scan[s].agency
             r == [scan[s] EXCEPT !.at = "rolling up", !.agency = None]
  <1>1. /\ scan[s] \in Scan /\ ScanShape(s) /\ At(s, "adding") /\ a \in Agencies
        /\ scan' = [scan EXCEPT ![s] = r] /\ rollups' = [rollups EXCEPT ![a] = @ + 1]
        /\ UNCHANGED <<company, queue, deadlines, open, raised, overlapped>>
    BY DEF CreateRollup, At, TypeOK, ScanShape
  <1>2. /\ r \in Scan /\ r.at = "rolling up" /\ r.todo = {} /\ r.job = scan[s].job
        /\ r.class = scan[s].class /\ scan'[s] = r
    <2>1. scan[s].todo = {}
      BY <1>1 DEF ScanShape, At
    <2>2. r \in Scan
      BY <1>1 DEF Scan, Stages
    <2>3. r.at = "rolling up" /\ r.todo = {} /\ r.job = scan[s].job /\ r.class = scan[s].class
      BY <1>1, <2>1 DEF Scan
    <2>4. scan'[s] = r
      BY <1>1 DEF TypeOK
    <2> QED BY <2>2, <2>3, <2>4
  <1>3. /\ rollups' \in [Agencies -> Nat]
        /\ ~overlapped => \A x \in Agencies : rollups'[x] <= 1
    <2>1. \A x \in Agencies : rollups[x] \in Nat
      BY DEF TypeOK
    <2>2. \A x \in Agencies : rollups'[x] = IF x = a THEN rollups[x] + 1 ELSE rollups[x]
      BY <1>1 DEF TypeOK
    <2>3. ~overlapped => rollups[a] = 0
      BY <1>1 DEF OneScan, StillMissing
    <2>4. ~overlapped => \A x \in Agencies : rollups'[x] <= 1
      BY <2>1, <2>2, <2>3
    <2> QED BY <1>1, <2>1, <2>4 DEF TypeOK
  <1> HIDE DEF a, r
  <1>4. ScanShape(s)'
    BY <1>1, <1>2 DEF ScanShape, At
  <1>5. StillMissing(s)'
    BY <1>2 DEF StillMissing, At
  <1> QED BY <1>1, <1>2, <1>3, <1>4, <1>5, ScanStep DEF TypeOK, At

-----------------------------------------------------------------------------
LEMMA StepKeepsIInv == IInv /\ [Next]_vars => IInv'
  <1> SUFFICES ASSUME IInv, [Next]_vars PROVE IInv'
    OBVIOUS
  <1>1. CASE CreateCompany \/ FirstEmployee \/ Tick
    BY <1>1, WorldKeepsIInv
  <1>2. CASE \E e \in Editors : UpdateCompanyRead(e) \/ UpdateCompany(e)
    BY <1>2, WorldKeepsIInv
  <1>3. CASE \E i \in Issues : RaiseIssue(i) \/ CloseIssue(i)
    BY <1>3, WorldKeepsIInv
  <1>4. CASE \E j \in Jobs : EnqueueComplianceScan(j)
    BY <1>4, WorldKeepsIInv
  <1>5. CASE \E s \in Workers : TakeJob(s)
    BY <1>5, TakeJobKeepsIInv
  <1>6. CASE \E s \in Requests : RequestScan(s)
    BY <1>6, RequestScanKeepsIInv
  <1>7. CASE \E s \in Scanners : Advance(s) \/ Fail(s)
    BY <1>7, PlanKeepsIInv, CreateDeadlinesKeepsIInv, ChecksKeepIInv, FlagIssueKeepsIInv,
       CountDeadlinesKeepsIInv, FindRollupKeepsIInv, CreateRollupKeepsIInv, ScanDoneKeepsIInv,
       FailKeepsIInv DEF Advance
  <1>8. CASE UNCHANGED vars
    <2>1. TypeOK' /\ UNCHANGED <<scan, deadlines, rollups, overlapped, open>>
      BY <1>8 DEF vars, company, queue, results, IInv, OnceUnlessOverlapped, TypeOK
    <2>2. \A i \in Issues : open'[i] <= open[i]
      BY <2>1 DEF IInv, OnceUnlessOverlapped, TypeOK
    <2> QED BY <2>1, <2>2, ScansUntouched
  <1> QED BY <1>1, <1>2, <1>3, <1>4, <1>5, <1>6, <1>7, <1>8 DEF Next

(* compliance.service.ts: the invariant of the scans holds at all times, whichever of     *)
(* them overlap, fail and are repeated.                                                   *)
THEOREM Inductive == Spec => []IInv
  BY InitIInv, StepKeepsIInv, PTL DEF Spec

(* Deadlines, flagged issues and rollups are never doubled while scans do not
   overlap, for any number of them, of failures and of retries. *)
THEOREM ScansRepeatSafely == Spec => []OnceUnlessOverlapped
  BY Inductive, PTL DEF IInv

-----------------------------------------------------------------------------
(* The calendar follows the profile, as long as one profile update is handled at a
   time: with two, the second compares with a classification that is no more. *)

CInv == IInv /\ EditsPresent /\ CalendarComes

LEMMA MonthsAreNaturals ==
  ASSUME TypeOK
  PROVE  /\ FirstMonth \in Nat /\ LastMonth \in Nat /\ month \in Nat /\ asked \in Nat
         /\ FirstMonth <= asked /\ asked <= month /\ month <= LastMonth
         /\ \A m \in asked..month : m \in FirstMonth..LastMonth
  BY NumbersAssumption DEF TypeOK

(* The steps a complete calendar survives, and a scan about to complete it. *)
LEMMA CompleteKept ==
  ASSUME TypeOK, Complete, UNCHANGED <<profile, asked>>, month' \in Nat, month <= month',
         \A k \in Keys : deadlines[k] > 0 => deadlines'[k] > 0
  PROVE  Complete'
  <1>1. PICK m \in asked..month : \A k \in Quarterly(profile, m) : deadlines[k] > 0
    BY DEF Complete
  <1>2. Quarterly(profile, m) \subseteq Keys /\ m \in asked..month'
    BY MonthsAreNaturals, CandidatesAreKeys
  <1> QED BY <1>1, <1>2 DEF Complete

LEMMA CoversKept ==
  ASSUME TypeOK, NEW s \in Workers, Covers(s), scan'[s] = scan[s],
         UNCHANGED <<profile, asked>>, month' \in Nat, month <= month',
         \A k \in Keys : deadlines[k] > 0 => deadlines'[k] > 0
  PROVE  Covers(s)'
  <1>1. CASE At(s, "planning")
    BY <1>1 DEF Covers, At
  <1>2. CASE At(s, "creating") /\ ~At(s, "planning")
    <2>1. PICK m \in asked..month : \A k \in Quarterly(profile, m) : Planned(k, s)
      BY <1>2 DEF Covers
    <2>2. Quarterly(profile, m) \subseteq Keys /\ m \in asked..month'
      BY MonthsAreNaturals, CandidatesAreKeys
    <2>3. \A k \in Quarterly(profile', m) : Planned(k, s)'
      BY <2>1, <2>2 DEF Planned
    <2>4. At(s, "creating")' /\ asked' = asked
      BY <1>2 DEF At
    <2> QED BY <2>2, <2>3, <2>4 DEF Covers
  <1> QED BY <1>1, <1>2 DEF Covers

(* A step that leaves the profile as it is, keeps one of the reasons. *)
LEMMA StillComes ==
  ASSUME TypeOK, CalendarComes, UNCHANGED <<profile, asked>>, month' \in Nat, month <= month',
         \A k \in Keys : deadlines[k] > 0 => deadlines'[k] > 0,
         events > 0 => events' > 0 \/ \E j \in Jobs : job'[j] = "waiting",
         \A j \in Jobs : job[j] \in {"waiting", "failed"} =>
           job'[j] \in {"waiting", "failed"} \/ \E s \in Workers : Covers(s)',
         \A s \in Workers : Covers(s) =>
           \/ scan'[s] = scan[s] \/ Covers(s)' \/ Complete'
           \/ \E j \in Jobs : job'[j] \in {"waiting", "failed"}
  PROVE  CalendarComes'
  <1> SUFFICES ASSUME profile # None PROVE CalendarComes'
    BY DEF CalendarComes
  <1>1. CASE Complete
    BY <1>1, CompleteKept DEF CalendarComes
  <1>2. CASE events > 0
    BY <1>2 DEF CalendarComes
  <1>3. CASE \E j \in Jobs : job[j] \in {"waiting", "failed"}
    BY <1>3 DEF CalendarComes
  <1>4. ASSUME NEW s \in Workers, Covers(s) PROVE CalendarComes'
    BY <1>4, CoversKept DEF CalendarComes
  <1> QED BY <1>1, <1>2, <1>3, <1>4 DEF CalendarComes

(* A step of the company and the world around it, with the job it may enqueue. *)
LEMMA WorldKeepsCalendar ==
  ASSUME CInv, TypeOK', OneEditor,
         \/ CreateCompany \/ FirstEmployee \/ Tick
         \/ \E e \in Editors : UpdateCompanyRead(e) \/ UpdateCompany(e)
         \/ \E i \in Issues : RaiseIssue(i) \/ CloseIssue(i)
         \/ \E j \in Jobs : EnqueueComplianceScan(j)
  PROVE  EditsPresent' /\ CalendarComes'
  <1> USE DEF company, queue, results
  <1>1. TypeOK /\ EditsPresent /\ CalendarComes /\ events \in Nat /\ month \in Nat
    BY MonthsAreNaturals DEF CInv, IInv, OnceUnlessOverlapped, TypeOK
  <1>2. None \notin Classes
    BY NamesAssumption DEF Classes
  <1>3. CASE CreateCompany
    <2>1. events' > 0
      BY <1>1, <1>3 DEF CreateCompany
    <2>2. \A e \in Editors : edit[e] = None
      BY <1>1, <1>2, <1>3 DEF CreateCompany, EditsPresent, TypeOK
    <2> QED BY <1>3, <2>1, <2>2 DEF CreateCompany, EditsPresent, CalendarComes
  <1>4. CASE FirstEmployee
    <2>1. UNCHANGED <<profile, asked, month, edit, events, job, scan, deadlines>>
      BY <1>4 DEF FirstEmployee
    <2> QED BY <1>1, <2>1, StillComes DEF EditsPresent
  <1>5. CASE Tick
    <2>1. /\ UNCHANGED <<profile, asked, edit, events, job, scan, deadlines>>
          /\ month' \in Nat /\ month <= month'
      BY <1>1, <1>5 DEF Tick
    <2> QED BY <1>1, <2>1, StillComes DEF EditsPresent
  <1>6. ASSUME NEW e \in Editors, UpdateCompanyRead(e) PROVE EditsPresent' /\ CalendarComes'
    <2>1. UNCHANGED <<profile, asked, month, events, job, scan, deadlines>>
      BY <1>6 DEF UpdateCompanyRead
    <2>2. \A d \in Editors : edit'[d] = edit[d] \/ edit'[d].existing = profile
      BY <1>1, <1>6 DEF UpdateCompanyRead, TypeOK
    <2> QED BY <1>1, <2>1, <2>2, StillComes DEF EditsPresent
  <1>7. ASSUME NEW e \in Editors, UpdateCompany(e) PROVE EditsPresent' /\ CalendarComes'
    <2>1. EditsPresent'
      <3>1. \A d \in Editors : edit'[d] = None
        BY <1>1, <1>7 DEF UpdateCompany, OneEditor, TypeOK
      <3> QED BY <3>1 DEF EditsPresent
    <2>2. CASE ClassChanged(edit[e])
      <3>1. events' > 0
        BY <1>1, <1>7, <2>2 DEF UpdateCompany
      <3> QED BY <2>1, <3>1 DEF CalendarComes
    <2>3. CASE ~ClassChanged(edit[e])
      <3>1. UNCHANGED <<profile, asked, month, events, job, scan, deadlines>>
        BY <1>1, <1>7, <2>3 DEF UpdateCompany, ClassChanged, EditsPresent
      <3> QED BY <1>1, <2>1, <3>1, StillComes
    <2> QED BY <2>2, <2>3
  <1>8. ASSUME NEW i \in Issues, RaiseIssue(i) \/ CloseIssue(i) PROVE EditsPresent' /\ CalendarComes'
    <2>1. UNCHANGED <<profile, asked, month, edit, events, job, scan, deadlines>>
      BY <1>8 DEF RaiseIssue, CloseIssue
    <2> QED BY <1>1, <2>1, StillComes DEF EditsPresent
  <1>9. ASSUME NEW j \in Jobs, EnqueueComplianceScan(j) PROVE EditsPresent' /\ CalendarComes'
    <2>1. /\ UNCHANGED <<profile, asked, month, edit, scan, deadlines>>
          /\ job'[j] = "waiting" /\ \A x \in Jobs : x # j => job'[x] = job[x]
      BY <1>1, <1>9 DEF EnqueueComplianceScan, TypeOK
    <2> QED BY <1>1, <2>1, StillComes DEF EditsPresent
  <1> QED BY <1>3, <1>4, <1>5, <1>6, <1>7, <1>8, <1>9

LEMMA TakeJobKeepsCalendar ==
  ASSUME CInv, NEW s \in Workers, TakeJob(s)
  PROVE  EditsPresent' /\ CalendarComes'
  <1>1. TypeOK /\ EditsPresent /\ CalendarComes /\ month \in Nat /\ ScanShape(s) /\ s \in Scanners
    BY MonthsAreNaturals DEF CInv, IInv, OnceUnlessOverlapped, Scanners
  <1>2. PICK j \in Jobs :
          /\ job[j] = "waiting" /\ Starts(s, j) /\ job' = [job EXCEPT ![j] = "active"]
          /\ UNCHANGED <<company, events, attempts, results, raised>>
    BY DEF TakeJob
  <1>3. /\ \A t \in Workers : t # s => scan'[t] = scan[t]
        /\ scan'[s] = [NoScan EXCEPT !.at = "planning", !.job = j, !.class = profile]
        /\ At(s, "idle")
    BY <1>1, <1>2 DEF Starts, TypeOK, Scanners
  <1>4. UNCHANGED <<profile, asked, month, edit, events, deadlines>>
    BY <1>2 DEF company, results
  <1>5. Covers(s)'
    BY <1>3, <1>4, NamesAssumption DEF Covers, At, NoScan
  <1>6. \A x \in Jobs : x # j => job'[x] = job[x]
    BY <1>1, <1>2 DEF TypeOK
  <1>7. \A x \in Jobs : job[x] \in {"waiting", "failed"} =>
          job'[x] \in {"waiting", "failed"} \/ \E t \in Workers : Covers(t)'
    BY <1>5, <1>6
  <1>8. \A t \in Workers : Covers(t) => scan'[t] = scan[t] \/ Covers(t)'
    BY <1>3, <1>5
  <1> QED BY <1>1, <1>4, <1>7, <1>8, StillComes DEF EditsPresent

(* Only the scan that plans for the present profile, or creates what it planned,
   is one the calendar waits for. *)
LEMMA OtherStepKeepsCalendar ==
  ASSUME TypeOK, CalendarComes, NEW s \in Scanners, ~At(s, "planning"), ~At(s, "creating"),
         \A t \in Scanners : t # s => scan'[t] = scan[t],
         \A j \in Jobs : job[j] \in {"waiting", "failed"} => job'[j] = job[j],
         UNCHANGED <<profile, asked, month, events, deadlines>>
  PROVE  CalendarComes'
  <1>1. month \in Nat
    BY MonthsAreNaturals
  <1>2. \A t \in Workers : Covers(t) => scan'[t] = scan[t]
    BY DEF Covers, Scanners
  <1> QED BY <1>1, <1>2, StillComes

LEMMA PlanKeepsCalendar ==
  ASSUME CInv, NEW s \in Scanners, Plan(s)
  PROVE  EditsPresent' /\ CalendarComes'
  <1>1. TypeOK /\ EditsPresent /\ CalendarComes /\ month \in Nat
    BY MonthsAreNaturals DEF CInv, IInv, OnceUnlessOverlapped
  <1> DEFINE r == [scan[s] EXCEPT !.at = "creating", !.todo = Missing(scan[s].class)]
  <1>2. /\ At(s, "planning") /\ scan' = [scan EXCEPT ![s] = r]
        /\ UNCHANGED <<profile, asked, month, edit, events, job, deadlines>>
    BY <1>1 DEF Plan, TypeOK, company, queue, results
  <1>3. /\ \A t \in Scanners : t # s => scan'[t] = scan[t]
        /\ scan'[s].at = "creating" /\ scan'[s].todo = Missing(scan[s].class)
        /\ scan'[s].job = scan[s].job /\ scan'[s].class = scan[s].class
    BY <1>1, <1>2 DEF TypeOK, Scan
  <1> HIDE DEF r
  <1>4. ASSUME s \in Workers, Covers(s) PROVE Covers(s)'
    <2>1. scan[s].class = profile /\ scan[s].job # None
      BY <1>4 DEF Covers
    <2>2. month \in asked..month /\ Quarterly(profile, month) \subseteq Keys
      BY <1>1, MonthsAreNaturals, CandidatesAreKeys
    <2>3. \A k \in Quarterly(profile, month) : deadlines[k] > 0 \/ k \in Missing(profile)
      BY <1>1, <2>2 DEF Missing, Candidates, TypeOK
    <2>4. \A k \in Quarterly(profile', month) : Planned(k, s)'
      BY <1>2, <1>3, <2>1, <2>3 DEF Planned
    <2>5. At(s, "creating")' /\ month \in asked'..month'
      BY <1>2, <1>3, <2>2 DEF At
    <2> QED BY <1>2, <1>3, <2>1, <2>4, <2>5 DEF Covers
  <1>5. \A t \in Workers : Covers(t) => scan'[t] = scan[t] \/ Covers(t)'
    BY <1>3, <1>4 DEF Scanners
  <1> QED BY <1>1, <1>2, <1>5, StillComes DEF EditsPresent

LEMMA CreateDeadlinesKeepsCalendar ==
  ASSUME CInv, NEW s \in Scanners, CreateDeadlines(s)
  PROVE  EditsPresent' /\ CalendarComes'
  <1>1. TypeOK /\ EditsPresent /\ CalendarComes /\ month \in Nat
    BY MonthsAreNaturals DEF CInv, IInv, OnceUnlessOverlapped
  <1>2. /\ At(s, "creating") /\ \A t \in Scanners : t # s => scan'[t] = scan[t]
        /\ UNCHANGED <<profile, asked, month, edit, events, job>>
    BY <1>1 DEF CreateDeadlines, TypeOK, company, queue
  <1>3. \A k \in Keys : deadlines[k] \in Nat /\
          deadlines'[k] = IF k \in scan[s].todo THEN deadlines[k] + 1 ELSE deadlines[k]
    BY <1>1 DEF CreateDeadlines, TypeOK
  <1>4. \A k \in Keys : deadlines[k] > 0 \/ k \in scan[s].todo => deadlines'[k] > 0
    BY <1>3
  <1>5. ASSUME Covers(s) PROVE Complete'
    <2>1. PICK m \in asked..month : \A k \in Quarterly(profile, m) : Planned(k, s)
      BY <1>2, <1>5 DEF Covers, At
    <2>2. Quarterly(profile, m) \subseteq Keys
      BY <1>1, MonthsAreNaturals, CandidatesAreKeys
    <2> QED BY <1>2, <1>4, <2>1, <2>2 DEF Complete, Planned
  <1>6. \A t \in Workers : Covers(t) => scan'[t] = scan[t] \/ Complete'
    BY <1>2, <1>5 DEF Scanners
  <1> QED BY <1>1, <1>2, <1>4, <1>6, StillComes DEF EditsPresent

(* A failed scan's job waits again, or is given up and seen to be. *)
LEMMA FailKeepsCalendar ==
  ASSUME CInv, NEW s \in Scanners, Fail(s)
  PROVE  EditsPresent' /\ CalendarComes'
  <1>1. TypeOK /\ EditsPresent /\ CalendarComes /\ month \in Nat /\ ScanShape(s)
    BY MonthsAreNaturals DEF CInv, IInv, OnceUnlessOverlapped
  <1>2. /\ ~At(s, "idle") /\ \A t \in Scanners : t # s => scan'[t] = scan[t]
        /\ UNCHANGED <<profile, asked, month, edit, events, deadlines>>
    BY <1>1 DEF Fail, TypeOK, company, results
  <1>3. CASE scan[s].job = None
    <2>1. UNCHANGED job /\ \A t \in Workers : Covers(t) => scan'[t] = scan[t]
      BY <1>2, <1>3 DEF Fail, Covers, Scanners
    <2> QED BY <1>1, <1>2, <2>1, StillComes DEF EditsPresent
  <1>4. CASE scan[s].job # None
    <2>1. scan[s].job \in Jobs
      BY <1>1, <1>4 DEF TypeOK, Scan
    <2>2. \E x \in {"waiting", "failed"} : job' = [job EXCEPT ![scan[s].job] = x]
      BY <1>4 DEF Fail
    <2>3. /\ job'[scan[s].job] \in {"waiting", "failed"}
          /\ \A j \in Jobs : job[j] \in {"waiting", "failed"} => job'[j] \in {"waiting", "failed"}
      BY <1>1, <2>1, <2>2 DEF TypeOK
    <2> QED BY <1>1, <1>2, <2>1, <2>3, StillComes DEF EditsPresent
  <1> QED BY <1>3, <1>4

LEMMA ScanDoneKeepsCalendar ==
  ASSUME CInv, NEW s \in Scanners, ScanDone(s)
  PROVE  EditsPresent' /\ CalendarComes'
  <1>1. TypeOK /\ EditsPresent /\ CalendarComes /\ ScanShape(s)
    BY DEF CInv, IInv, OnceUnlessOverlapped
  <1>2. /\ ~At(s, "idle") /\ ~At(s, "planning") /\ ~At(s, "creating")
        /\ \A t \in Scanners : t # s => scan'[t] = scan[t]
        /\ \A j \in Jobs : j # scan[s].job => job'[j] = job[j]
        /\ UNCHANGED <<profile, asked, month, edit, events, deadlines>>
    BY <1>1 DEF ScanDone, At, TypeOK, company, results
  <1>3. ASSUME NEW j \in Jobs, j = scan[s].job PROVE job[j] = "active"
    <2>1. j # None
      BY NamesAssumption
    <2>2. s \in Workers
      BY <1>1, <1>3, <2>1 DEF ScanShape, Scanners
    <2>3. job[j] = "active" <=> \E t \in Workers : scan[t].job = j
      BY <1>1 DEF TypeOK
    <2> QED BY <1>3, <2>2, <2>3
  <1>4. \A j \in Jobs : job[j] \in {"waiting", "failed"} => job'[j] = job[j]
    BY <1>2, <1>3
  <1> QED BY <1>1, <1>2, <1>4, OtherStepKeepsCalendar DEF EditsPresent

LEMMA RestOfScanKeepsCalendar ==
  ASSUME CInv, NEW s \in Scanners,
         \/ CheckVatClassificationRisk(s) \/ CheckDuplicatePayrollRuns(s) \/ FlagIssue(s)
         \/ CountDeadlines(s) \/ FindRollup(s) \/ CreateRollup(s)
  PROVE  EditsPresent' /\ CalendarComes'
  <1>1. TypeOK /\ EditsPresent /\ CalendarComes
    BY DEF CInv, IInv, OnceUnlessOverlapped
  <1>2. /\ ~At(s, "planning") /\ ~At(s, "creating")
        /\ UNCHANGED <<profile, asked, month, edit, events, job, deadlines>>
    BY DEF CheckVatClassificationRisk, CheckDuplicatePayrollRuns, FlagIssue, Flag, CountDeadlines,
           FindRollup, CreateRollup, At, company, queue, results
  <1>3. \A t \in Scanners : t # s => scan'[t] = scan[t]
    BY <1>1 DEF CheckVatClassificationRisk, CheckDuplicatePayrollRuns, FlagIssue, Flag,
                CountDeadlines, FindRollup, CreateRollup, Goes, TypeOK
  <1> QED BY <1>1, <1>2, <1>3, OtherStepKeepsCalendar DEF EditsPresent

LEMMA StepKeepsCInv ==
  ASSUME OneEditor, CInv, [Next]_vars
  PROVE  CInv'
  <1>1. IInv' /\ TypeOK'
    BY StepKeepsIInv DEF CInv, IInv, OnceUnlessOverlapped
  <1>2. CASE CreateCompany \/ FirstEmployee \/ Tick
    BY <1>1, <1>2, WorldKeepsCalendar DEF CInv
  <1>3. CASE \E e \in Editors : UpdateCompanyRead(e) \/ UpdateCompany(e)
    BY <1>1, <1>3, WorldKeepsCalendar DEF CInv
  <1>4. CASE \E i \in Issues : RaiseIssue(i) \/ CloseIssue(i)
    BY <1>1, <1>4, WorldKeepsCalendar DEF CInv
  <1>5. CASE \E j \in Jobs : EnqueueComplianceScan(j)
    BY <1>1, <1>5, WorldKeepsCalendar DEF CInv
  <1>6. CASE \E s \in Workers : TakeJob(s)
    BY <1>1, <1>6, TakeJobKeepsCalendar DEF CInv
  <1>7. CASE \E s \in Requests : RequestScan(s)
    <2>1. PICK s \in Requests : RequestScan(s)
      BY <1>7
    <2>2. s \in Scanners /\ TypeOK /\ EditsPresent /\ CalendarComes
      BY DEF Scanners, CInv, IInv, OnceUnlessOverlapped
    <2>3. /\ ~At(s, "planning") /\ ~At(s, "creating")
          /\ \A t \in Scanners : t # s => scan'[t] = scan[t]
          /\ UNCHANGED <<profile, asked, month, edit, events, job, deadlines>>
      BY <2>1, <2>2 DEF RequestScan, Starts, At, TypeOK, company, queue, results
    <2>4. CalendarComes' /\ EditsPresent'
      BY <2>2, <2>3, OtherStepKeepsCalendar DEF EditsPresent
    <2> QED BY <1>1, <2>4 DEF CInv
  <1>8. CASE \E s \in Scanners : Advance(s) \/ Fail(s)
    BY <1>1, <1>8, PlanKeepsCalendar, CreateDeadlinesKeepsCalendar, RestOfScanKeepsCalendar,
       ScanDoneKeepsCalendar, FailKeepsCalendar DEF CInv, Advance
  <1>9. CASE UNCHANGED vars
    BY <1>1, <1>9 DEF vars, company, queue, results, CInv, EditsPresent, CalendarComes, Complete,
                      Covers, Planned, At
  <1> QED BY <1>2, <1>3, <1>4, <1>5, <1>6, <1>7, <1>8, <1>9 DEF Next

LEMMA InitCInv == Init => CInv
  <1> SUFFICES ASSUME Init PROVE CInv
    OBVIOUS
  <1>1. IInv
    BY InitIInv
  <1>2. EditsPresent /\ CalendarComes
    BY DEF Init, EditsPresent, CalendarComes
  <1> QED BY <1>1, <1>2 DEF CInv

LEMMA CInvSuffices == CInv => CalendarFollowsProfile
  <1> SUFFICES ASSUME CInv, Quiet, profile # None PROVE Complete
    BY DEF CalendarFollowsProfile
  <1>1. ~(events > 0) /\ ~\E j \in Jobs : job[j] \in {"waiting", "failed"}
    BY DEF Quiet
  <1>2. \A s \in Workers : ~Covers(s)
    BY DEF Quiet, InFlight, Covers, At, Scanners
  <1> QED BY <1>1, <1>2 DEF CInv, CalendarComes

(* Once nothing is left to do, the calendar is complete for the classification
   the company has now, whatever failed and was tried again on the way. *)
THEOREM CalendarIsComplete == ASSUME OneEditor PROVE Spec => []CalendarFollowsProfile
  <1>1. CInv /\ [Next]_vars => CInv'
    BY StepKeepsCInv
  <1> QED BY <1>1, InitCInv, CInvSuffices, PTL DEF Spec
=============================================================================
