------------------------- MODULE NotificationsProofs -------------------------
(* Proofs about Notifications for any staff, channels, windows, replicas and
   jobs. *)
EXTENDS Notifications, FiniteSetTheorems, WellFoundedInduction, TLAPS

-----------------------------------------------------------------------------
(* The loop over the channels *)

LEMMA LeastNatural ==
  ASSUME NEW S \in SUBSET Nat, S # {}
  PROVE  \E i \in S : \A n \in S : i <= n
  <1>1. PICK i \in S : \A n \in S : <<n, i>> \notin OpToRel(<, Nat)
    BY NatLessThanWellFounded, WFMin
  <1>2. \A n \in S : ~(n < i)
    BY <1>1 DEF OpToRel
  <1> QED BY <1>2

LEMMA ChannelFacts ==
  /\ Len(Channels) \in Nat /\ DOMAIN Channels = 1..Len(Channels)
  /\ \A i \in DOMAIN Channels : Channels[i] \in ChannelSet
  /\ \A c \in ChannelSet : \E i \in DOMAIN Channels : Channels[i] = c
  /\ \A i, k \in DOMAIN Channels : Channels[i] = Channels[k] => i = k
  BY ListsAssumption DEF ChannelSet

(* From the k-th channel on, the loop stops at the first one not disabled. *)
LEMMA FromFields ==
  ASSUME NEW k \in Nat \ {0}, NEW record \in Job, NEW r, r = From(k, record)
  PROVE  /\ r \in Job /\ r.to = record.to /\ r.window = record.window /\ r.tries = record.tries
         /\ r.off = record.off /\ r.on = record.on /\ r.step = "create"
         /\ \/ /\ r.state = "done"
               /\ \A i \in DOMAIN Channels : i >= k => Channels[i] \in record.off
            \/ /\ r.state = record.state /\ r.by = record.by
               /\ r.channel \in DOMAIN Channels /\ r.channel >= k
               /\ Channels[r.channel] \notin record.off
               /\ \A i \in DOMAIN Channels :
                    i >= k /\ i < r.channel => Channels[i] \in record.off
  <1> DEFINE left == {i \in k..Len(Channels) : Channels[i] \notin record.off}
             least == CHOOSE i \in left : \A n \in left : i <= n
  <1>1. Len(Channels) \in Nat /\ DOMAIN Channels = 1..Len(Channels)
    BY ChannelFacts
  <1>2. left \in SUBSET Nat /\ left \subseteq DOMAIN Channels /\ \A i \in left : i >= k
    BY <1>1
  <1>3. \A i \in DOMAIN Channels : i >= k /\ i \notin left => Channels[i] \in record.off
    BY <1>1
  <1>4. \A i \in left : Channels[i] \notin record.off
    OBVIOUS
  <1>5. r = IF left = {} THEN Ended(record, "done")
            ELSE [record EXCEPT !.step = "create", !.channel = least]
    BY DEF From
  <1>6. left # {} => least \in left /\ \A n \in left : least <= n
    <2> HIDE DEF left
    <2> QED BY <1>2, LeastNatural
  <1> HIDE DEF left, least
  <1>7. CASE left = {}
    <2>1. r = [record EXCEPT !.state = "done", !.by = None, !.channel = 1, !.step = "create"]
      BY <1>5, <1>7 DEF Ended
    <2>2. /\ r.to = record.to /\ r.window = record.window /\ r.tries = record.tries
          /\ r.off = record.off /\ r.on = record.on /\ r.step = "create" /\ r.state = "done"
          /\ r.by = None /\ r.channel = 1
      BY <2>1 DEF Job
    <2>3. r \in Job
      <3>1. [record EXCEPT !.state = "done", !.by = None] \in Job
        BY DEF Job
      <3>2. \A x \in Job : [x EXCEPT !.channel = 1, !.step = "create"] \in Job
        BY DEF Job
      <3> QED BY <2>1, <3>1, <3>2
    <2> QED BY <1>3, <1>7, <2>2, <2>3
  <1>8. CASE left # {}
    <2>1. least \in Nat /\ least \in DOMAIN Channels /\ least >= k
      BY <1>2, <1>6, <1>8
    <2>2. r = [record EXCEPT !.step = "create", !.channel = least]
      BY <1>5, <1>8
    <2>3. /\ r \in Job /\ r.to = record.to /\ r.window = record.window /\ r.tries = record.tries
          /\ r.off = record.off /\ r.on = record.on /\ r.step = "create"
          /\ r.state = record.state /\ r.by = record.by /\ r.channel = least
      BY <2>1, <2>2 DEF Job
    <2>4. \A i \in DOMAIN Channels : i >= k /\ i < least => Channels[i] \in record.off
      <3> SUFFICES ASSUME NEW i \in DOMAIN Channels, i >= k, i < least
                   PROVE  Channels[i] \in record.off
        OBVIOUS
      <3>1. i \in Nat
        BY <1>1
      <3>2. i \notin left
        BY <1>6, <1>8, <2>1, <3>1
      <3> QED BY <1>3, <3>2
    <2> QED BY <1>4, <1>6, <1>8, <2>1, <2>3, <2>4
  <1> QED BY <1>7, <1>8

-----------------------------------------------------------------------------
(* What the invariant says, in the words of the properties *)

LEMMA IInvSuffices == IInv => TypeOK /\ OptOutHolds /\ NoticesTell /\ StatusNotAhead
  <1> SUFFICES ASSUME IInv PROVE TypeOK /\ OptOutHolds /\ NoticesTell
    BY DEF IInv
  <1>1. \A j \in Jobs : job[j] \in Job /\ JobOk(j)
    BY DEF IInv, Shape
  <1>2. ASSUME NEW r \in Replicas PROVE Cardinality(WorkedBy(r)) <= 1
    <2>1. CASE WorkedBy(r) = {}
      BY <2>1, FS_EmptySet
    <2>2. CASE WorkedBy(r) # {}
      <3>1. \E j : WorkedBy(r) = {j}
        BY <1>2, <2>2 DEF IInv, OneJobEach
      <3> QED BY <3>1, FS_Singleton
    <2> QED BY <2>1, <2>2
  <1>3. \A j \in Jobs :
          /\ job[j].state \in {"none", "waiting", "active", "done", "failed"}
          /\ job[j].tries \in 0..Attempts
          /\ InState(j, "active") => job[j].by \in Replicas /\ job[j].tries > 0
    BY <1>1 DEF Job, JobOk, JobSound
  <1>4. TypeOK
    BY <1>2, <1>3 DEF TypeOK, IInv, Shape
  <1>5. OptOutHolds
    BY <1>1 DEF OptOutHolds, JobOk, Tells
  <1>6. NoticesTell
    BY <1>1, <1>4 DEF NoticesTell, JobOk, Tells, Decided
  <1> QED BY <1>4, <1>5, <1>6

LEMMA InitIInv == Init => IInv
  <1> SUFFICES ASSUME Init PROVE IInv
    OBVIOUS
  <1>1. /\ NoJob \in Job /\ NoJob.state = "none" /\ NoJob.tries = 0
        /\ NoRun \in Run /\ NoRun.at = "idle" /\ NoRun.to = {}
    BY NumbersAssumption DEF NoJob, Job, NoRun, Run
  <1>2. Shape
    BY <1>1, NumbersAssumption DEF Init, Shape
  <1>3. CronSound
    BY <1>1 DEF Init, CronSound, At
  <1>4. OneJobEach
    BY <1>1 DEF Init, OneJobEach, WorkedBy, InState
  <1>5. ASSUME NEW j \in Jobs PROVE JobOk(j)
    <2>1. job[j] = NoJob /\ \A c \in ChannelSet : delivered[<<j, c>>] = 0 /\ notice[<<j, c>>] = None
      BY DEF Init
    <2>2. JobSound(j) /\ AttemptSound(j)
      BY <1>1, <2>1 DEF JobSound, AttemptSound, InState
    <2>3. Tells(j)
      BY <1>1, <2>1, NamesAssumption DEF Tells, InState
    <2> QED BY <2>2, <2>3 DEF JobOk
  <1> QED BY <1>2, <1>3, <1>4, <1>5 DEF Init, StatusNotAhead, IInv

-----------------------------------------------------------------------------
(* Steps by what they leave alone *)

LEMMA JobKept ==
  ASSUME NEW j \in Jobs, JobOk(j), job'[j] = job[j], off' = off,
         \A c \in ChannelSet : /\ notice'[<<j, c>>] = notice[<<j, c>>]
                               /\ delivered'[<<j, c>>] = delivered[<<j, c>>]
  PROVE  JobOk(j)'
  <1>1. JobSound(j)'
    BY DEF JobOk, JobSound, InState, Enabled
  <1>2. AttemptSound(j)'
    <2> SUFFICES ASSUME InState(j, "active") PROVE AttemptSound(j)'
      BY DEF AttemptSound, InState
    <2>1. AttemptSound(j) /\ Now(j)' = Now(j)
      BY DEF JobOk, Now
    <2>2. Now(j) \in ChannelSet /\ \A i \in DOMAIN Channels : Channels[i] \in ChannelSet
      BY <2>1, ChannelFacts DEF AttemptSound, Now
    <2> QED BY <2>1, <2>2 DEF AttemptSound, Decided, Untouched, InState
  <1>3. Tells(j)'
    BY DEF JobOk, Tells, InState, Decided
  <1> QED BY <1>1, <1>2, <1>3 DEF JobOk

(* A step of the clock or the daily job: no job moves. *)
LEMMA CronStep ==
  ASSUME IInv, UNCHANGED <<people, dispatches>>,
         day' \in 0..LastDay, status' \in {"upcoming", "due_today", "overdue"},
         CronSound', StatusNotAhead'
  PROVE  IInv'
  <1>1. UNCHANGED <<active, off, job, notice, delivered>>
    BY DEF people, dispatches
  <1>2. \A j \in Jobs : JobOk(j)'
    BY <1>1, JobKept DEF IInv
  <1>3. OneJobEach'
    BY <1>1 DEF IInv, OneJobEach, WorkedBy, InState
  <1> QED BY <1>1, <1>2, <1>3 DEF IInv, Shape

(* One job moves, and the calendar and the preferences do not. *)
LEMMA JobStep ==
  ASSUME IInv, NEW j \in Jobs, NEW record \in Job, Becomes(j, record),
         notice' \in [Jobs \X ChannelSet -> {None, "queued", "sent", "failed"}],
         delivered' \in [Jobs \X ChannelSet -> Nat],
         \A x \in Jobs, c \in ChannelSet : x # j =>
           notice'[<<x, c>>] = notice[<<x, c>>] /\ delivered'[<<x, c>>] = delivered[<<x, c>>],
         JobOk(j)',
         record.state = "active" => \A i \in WorkedBy(record.by) : i = j,
         UNCHANGED <<calendar, people>>, CronSound'
  PROVE  IInv'
  <1>1. job' = [job EXCEPT ![j] = record] /\ UNCHANGED <<day, status, active, off>>
    BY DEF Becomes, calendar, people
  <1>2. \A x \in Jobs : job'[x] = IF x = j THEN record ELSE job[x]
    BY <1>1 DEF IInv, Shape
  <1>3. Shape'
    BY <1>1 DEF IInv, Shape
  <1>4. \A x \in Jobs : JobOk(x)'
    BY <1>1, <1>2, JobKept DEF IInv
  <1>5. OneJobEach'
    <2> SUFFICES ASSUME NEW r \in Replicas, NEW x \in WorkedBy(r)', NEW y \in WorkedBy(r)'
                 PROVE  x = y
      BY DEF OneJobEach
    <2>1. \A z \in WorkedBy(r)' : z \in Jobs /\ (z # j => z \in WorkedBy(r))
      BY <1>2 DEF WorkedBy, InState
    <2>2. j \in WorkedBy(r)' => record.state = "active" /\ record.by = r
      BY <1>2 DEF WorkedBy, InState
    <2> QED BY <2>1, <2>2 DEF IInv, OneJobEach
  <1>6. StatusNotAhead'
    BY <1>1 DEF IInv, StatusNotAhead
  <1> QED BY <1>3, <1>4, <1>5, <1>6 DEF IInv

(* The run of one replica goes on. *)
LEMMA RunStep ==
  ASSUME CronSound, NEW r \in Replicas, NEW run \in Run, Runs(r, run), run.to \subseteq active,
         run.at = "idle" \/ run.today = fired'[r],
         run.at = "enqueuing" => run.windows # <<>>,
         fired' \in [Replicas -> Nat], fired'[r] <= day,
         \A q \in Replicas : q # r => fired'[q] = fired[q],
         UNCHANGED <<day, active>>
  PROVE  CronSound'
  <1>1. /\ cron' \in [Replicas -> Run]
        /\ \A q \in Replicas : cron'[q] = IF q = r THEN run ELSE cron[q]
    BY DEF CronSound, Runs
  <1>2. \A q \in Replicas : /\ fired'[q] <= day' /\ cron'[q].to \subseteq active'
                            /\ cron'[q].at = "idle" \/ cron'[q].today = fired'[q]
                            /\ cron'[q].at = "enqueuing" => cron'[q].windows # <<>>
    BY <1>1 DEF CronSound, At
  <1> QED BY <1>1, <1>2 DEF CronSound, At

(* A run's own step leaves the day it fired alone. *)
LEMMA OwnRunStep ==
  ASSUME CronSound, NEW r \in Replicas, ~At(r, "idle"), NEW run \in Run, Runs(r, run),
         run.to \subseteq active, run.at = "idle" \/ run.today = cron[r].today,
         run.at = "enqueuing" => run.windows # <<>>,
         UNCHANGED <<fired, day, active>>
  PROVE  CronSound'
  <1>1. cron[r].today = fired[r] /\ fired[r] <= day /\ fired \in [Replicas -> Nat]
    BY DEF CronSound, At
  <1> QED BY <1>1, RunStep

-----------------------------------------------------------------------------
(* The clock and the daily job *)

LEMMA NoRunFields == /\ NoRun \in Run /\ NoRun.at = "idle" /\ NoRun.to = {}
  BY DEF NoRun, Run

LEMMA DayFacts ==
  ASSUME IInv
  PROVE  day \in Nat /\ LastDay \in Nat /\ day <= LastDay /\ Due \in Nat
  BY NumbersAssumption DEF IInv, Shape

LEMMA TickKeepsIInv ==
  ASSUME IInv, Tick
  PROVE  IInv'
  <1>1. /\ day' = day + 1 /\ day < LastDay /\ status' = status
        /\ UNCHANGED <<people, dispatches, cron, fired>> /\ active' = active
    BY DEF Tick, schedule, people
  <1>2. CronSound'
    BY <1>1, DayFacts DEF IInv, CronSound, At
  <1>3. StatusNotAhead'
    BY <1>1, DayFacts DEF IInv, StatusNotAhead
  <1>4. day' \in 0..LastDay /\ status' \in {"upcoming", "due_today", "overdue"}
    BY <1>1, DayFacts DEF IInv, Shape
  <1> QED BY <1>1, <1>2, <1>3, <1>4, CronStep

LEMMA FireKeepsIInv ==
  ASSUME IInv, NEW r \in Replicas, Fire(r)
  PROVE  IInv'
  <1> DEFINE run == [at |-> "overdue", today |-> day, windows |-> Windows, to |-> {}]
  <1>1. /\ Runs(r, run) /\ fired' = [fired EXCEPT ![r] = day]
        /\ UNCHANGED <<people, dispatches, day, status, active>>
    BY DEF Fire, calendar, people
  <1>2. /\ run \in Run /\ run.at = "overdue" /\ run.to = {} /\ run.today = day
    BY DayFacts, ListsAssumption DEF Run
  <1> HIDE DEF run
  <1>3. /\ fired' \in [Replicas -> Nat] /\ fired'[r] = day
        /\ \A q \in Replicas : q # r => fired'[q] = fired[q]
    BY <1>1, DayFacts DEF IInv, CronSound
  <1>4. CronSound'
    BY <1>1, <1>2, <1>3, DayFacts, RunStep DEF IInv
  <1> QED BY <1>1, <1>4, CronStep DEF IInv, Shape, StatusNotAhead

LEMMA StatusesKeepIInv ==
  ASSUME IInv, NEW r \in Replicas, MarkOverdue(r) \/ MarkDueToday(r) \/ StatusesFail(r)
  PROVE  IInv'
  <1>1. ~At(r, "idle") /\ UNCHANGED <<people, dispatches, day, fired, active>>
    BY DEF MarkOverdue, MarkDueToday, StatusesFail, At, calendar, people
  <1>2. /\ cron[r] \in Run /\ cron[r].to \subseteq active
        /\ cron[r].today \in Nat /\ cron[r].today <= day
    BY <1>1 DEF IInv, CronSound
  <1>3. CronSound'
    <2>1. PICK stage \in {"due today", "windows"} : Runs(r, [cron[r] EXCEPT !.at = stage])
      BY DEF MarkOverdue, MarkDueToday, StatusesFail
    <2> DEFINE run == [cron[r] EXCEPT !.at = stage]
    <2>2. /\ run \in Run /\ run.to = cron[r].to /\ run.today = cron[r].today
          /\ run.at # "enqueuing" /\ Runs(r, run)
      BY <1>2, <2>1 DEF Run
    <2> HIDE DEF run
    <2> QED BY <1>1, <1>2, <2>2, OwnRunStep DEF IInv
  <1>4. /\ status' \in {"upcoming", "due_today", "overdue"}
        /\ \/ status' = status
           \/ status' = "overdue" /\ Due < cron[r].today
           \/ status' = "due_today" /\ Due = cron[r].today
    BY DEF MarkOverdue, MarkDueToday, StatusesFail, Past, calendar, IInv, Shape
  <1>5. StatusNotAhead'
    BY <1>1, <1>2, <1>4, DayFacts DEF IInv, StatusNotAhead
  <1> QED BY <1>1, <1>3, <1>4, <1>5, CronStep DEF IInv, Shape

LEMMA HeadAndTail ==
  ASSUME NEW s \in Seq(WindowSet), s # <<>>
  PROVE  Head(s) \in WindowSet /\ Tail(s) \in Seq(WindowSet)
  OBVIOUS

LEMMA WindowsKeepIInv ==
  ASSUME IInv, NEW r \in Replicas,
         \/ FindWindow(r) \/ WindowFails(r) \/ WindowDone(r) \/ RunDone(r)
         \/ \E w \in RoleRows : EnqueueFails(r, w)
  PROVE  IInv'
  <1>1. ~At(r, "idle") /\ UNCHANGED <<people, dispatches, day, status, fired, active>>
    BY DEF FindWindow, WindowFails, WindowDone, RunDone, EnqueueFails, At, calendar, people
  <1>2. /\ cron[r] \in Run /\ cron[r].to \subseteq active /\ active \subseteq RoleRows
        /\ At(r, "enqueuing") => cron[r].windows # <<>>
        /\ cron[r].windows \in Seq(WindowSet) /\ cron[r].to \in SUBSET RoleRows
    BY DEF IInv, CronSound, Shape, Run
  <1> DEFINE GoesOnWith(run) == /\ Runs(r, run) /\ run.to \subseteq active
                                /\ run.at = "idle" \/ run.today = cron[r].today
                                /\ run.at = "enqueuing" => run.windows # <<>>
  <1>3. \E run \in Run : GoesOnWith(run)
    <2>1. CASE FindWindow(r) \/ WindowFails(r)
      <3>1. cron[r].windows # <<>> /\ Tail(cron[r].windows) \in Seq(WindowSet) /\ At(r, "windows")
        BY <1>2, <2>1, HeadAndTail DEF FindWindow, WindowFails
      <3>2. CASE Runs(r, [cron[r] EXCEPT !.windows = Tail(@)])
        <4> DEFINE run == [cron[r] EXCEPT !.windows = Tail(@)]
        <4>1. /\ run \in Run /\ run.to = cron[r].to /\ run.today = cron[r].today
              /\ run.at = "windows"
          BY <1>2, <3>1 DEF Run, At
        <4> QED BY <1>2, <3>2, <4>1
      <3>3. CASE Runs(r, [cron[r] EXCEPT !.at = "enqueuing", !.to = active])
        <4> DEFINE run == [cron[r] EXCEPT !.at = "enqueuing", !.to = active]
        <4>1. /\ run \in Run /\ run.to = active /\ run.today = cron[r].today
              /\ run.windows = cron[r].windows
          BY <1>2, <3>1 DEF Run, At
        <4> QED BY <3>1, <3>3, <4>1
      <3> QED BY <2>1, <3>2, <3>3 DEF FindWindow, WindowFails
    <2>2. ASSUME NEW w \in RoleRows, EnqueueFails(r, w) PROVE \E run \in Run : GoesOnWith(run)
      <3> DEFINE run == [cron[r] EXCEPT !.to = TheOthers(r, w)]
      <3>1. /\ run \in Run /\ run.to \subseteq cron[r].to /\ run.today = cron[r].today
            /\ run.windows = cron[r].windows /\ Runs(r, run) /\ At(r, "enqueuing")
        BY <1>2, <2>2 DEF Run, EnqueueFails, TheOthers
      <3> HIDE DEF run
      <3> QED BY <1>2, <3>1
    <2>3. CASE WindowDone(r)
      <3> DEFINE run == [cron[r] EXCEPT !.at = "windows", !.windows = Tail(@)]
      <3>1. Tail(cron[r].windows) \in Seq(WindowSet)
        BY <1>2, <2>3, HeadAndTail DEF WindowDone
      <3>2. /\ run \in Run /\ run.to = cron[r].to /\ run.today = cron[r].today
            /\ run.at = "windows" /\ Runs(r, run)
        BY <1>2, <2>3, <3>1 DEF Run, WindowDone
      <3> HIDE DEF run
      <3> QED BY <1>2, <3>2
    <2>4. CASE RunDone(r)
      BY <2>4, NoRunFields DEF RunDone
    <2> QED BY <2>1, <2>2, <2>3, <2>4
  <1>4. CronSound'
    BY <1>1, <1>3, OwnRunStep DEF IInv
  <1> QED BY <1>1, <1>4, CronStep DEF IInv, Shape, StatusNotAhead

LEMMA ReminderFields ==
  ASSUME NEW u \in Users, NEW w \in WindowSet, NEW r, r = Reminder(u, w)
  PROVE  /\ r \in Job /\ r.state = "waiting" /\ r.to = u /\ r.window = w
         /\ r.tries = 0 /\ r.on = Enabled(u)
  <1>1. NoJob \in Job /\ NoJob.tries = 0
    BY NumbersAssumption DEF NoJob, Job
  <1>2. PICK x \in Job : x = NoJob
    BY <1>1
  <1>3. PICK y \in Job : y = [x EXCEPT !.state = "waiting", !.to = u]
    <2>1. [x EXCEPT !.state = "waiting", !.to = u] \in Job
      BY DEF Job
    <2> QED BY <2>1
  <1>4. y.state = "waiting" /\ y.to = u /\ y.tries = 0
    BY <1>1, <1>2, <1>3 DEF Job
  <1>5. r = [y EXCEPT !.window = w, !.on = Enabled(u)]
    BY <1>2, <1>3 DEF Reminder
  <1>6. Enabled(u) \in SUBSET ChannelSet
    BY DEF Enabled
  <1> QED BY <1>4, <1>5, <1>6 DEF Job

LEMMA EnqueueKeepsIInv ==
  ASSUME IInv, NEW r \in Replicas, NEW w \in RoleRows, NEW j \in Jobs, Enqueue(r, w, j)
  PROVE  IInv'
  <1> DEFINE run == [cron[r] EXCEPT !.to = @ \ {w}]
             n == Head(cron[r].windows)
             record == Reminder(w[1], n)
  <1>1. /\ At(r, "enqueuing") /\ ~At(r, "idle") /\ InState(j, "none")
        /\ Runs(r, run) /\ Becomes(j, record)
        /\ UNCHANGED <<calendar, people, fired, notice, delivered, day, active, off>>
    BY DEF Enqueue, At, Becomes, calendar, people
  <1>2. /\ cron[r] \in Run /\ cron[r].to \subseteq active /\ cron[r].windows # <<>>
        /\ cron[r].windows \in Seq(WindowSet)
    BY <1>1 DEF IInv, CronSound, Run
  <1>3. CronSound'
    <2>1. /\ run \in Run /\ run.to \subseteq cron[r].to /\ run.today = cron[r].today
          /\ run.windows = cron[r].windows
      BY <1>2 DEF Run
    <2> HIDE DEF run
    <2> QED BY <1>1, <1>2, <2>1, OwnRunStep DEF IInv
  <1>4. /\ record \in Job /\ record.state = "waiting" /\ record.to = w[1] /\ record.tries = 0
        /\ record.on = Enabled(w[1]) /\ w[1] \in Users
    <2>1. n \in WindowSet /\ w[1] \in Users
      BY <1>2, HeadAndTail DEF Users
    <2> QED BY <2>1, ReminderFields
  <1> HIDE DEF record, run
  <1>5. job' = [job EXCEPT ![j] = record] /\ job'[j] = record
    BY <1>1 DEF Becomes, IInv, Shape
  <1>6. JobOk(j)'
    <2>1. job'[j].state = "waiting" /\ Enabled(w[1])' = Enabled(w[1])
      BY <1>1, <1>4, <1>5 DEF Enabled
    <2>2. JobSound(j)'
      BY <1>4, <1>5, <2>1, NumbersAssumption DEF JobSound, InState
    <2>3. AttemptSound(j)'
      BY <2>1 DEF AttemptSound, InState
    <2>4. Tells(j)'
      <3>1. job[j].tries = 0 /\ job[j].on = {} /\ Tells(j)
        BY <1>1 DEF IInv, JobOk, JobSound, NoJob
      <3>2. \A c \in ChannelSet : delivered[<<j, c>>] = 0 /\ notice[<<j, c>>] # "sent"
        BY <3>1 DEF Tells, IInv, Shape
      <3> QED BY <1>1, <1>4, <1>5, <3>2 DEF Tells, InState
    <2> QED BY <2>2, <2>3, <2>4 DEF JobOk
  <1> QED BY <1>1, <1>3, <1>4, <1>6, JobStep DEF IInv, Shape

-----------------------------------------------------------------------------
(* The queue and dispatch *)

LEMMA ScheduleKept ==
  ASSUME IInv, UNCHANGED <<calendar, people, schedule>>
  PROVE  CronSound'
  <1>1. UNCHANGED <<cron, fired, day, active>>
    BY DEF calendar, people, schedule
  <1> QED BY <1>1 DEF IInv, CronSound, At

(* A step of the replica at work on the job. *)
LEMMA WorkStep ==
  ASSUME IInv, NEW r \in Replicas, NEW j \in WorkedBy(r), NEW record \in Job, Becomes(j, record),
         record.state = "active" => record.by = r,
         notice' \in [Jobs \X ChannelSet -> {None, "queued", "sent", "failed"}],
         delivered' \in [Jobs \X ChannelSet -> Nat],
         \A x \in Jobs, c \in ChannelSet : x # j =>
           notice'[<<x, c>>] = notice[<<x, c>>] /\ delivered'[<<x, c>>] = delivered[<<x, c>>],
         JobOk(j)', UNCHANGED <<calendar, people, schedule>>
  PROVE  IInv'
  <1>1. j \in Jobs /\ CronSound'
    BY ScheduleKept DEF WorkedBy
  <1>2. record.state = "active" => \A i \in WorkedBy(record.by) : i = j
    BY DEF IInv, OneJobEach
  <1> QED BY <1>1, <1>2, JobStep

LEMMA AtWork ==
  ASSUME IInv, NEW r \in Replicas, NEW j \in WorkedBy(r)
  PROVE  /\ j \in Jobs /\ job[j] \in Job /\ InState(j, "active") /\ job[j].by = r
         /\ JobSound(j) /\ AttemptSound(j) /\ Tells(j)
         /\ job[j].channel \in DOMAIN Channels /\ job[j].channel \in Nat /\ Now(j) \in ChannelSet
  <1>1. j \in Jobs /\ job[j] \in Job /\ InState(j, "active") /\ job[j].by = r /\ JobOk(j)
    BY DEF WorkedBy, IInv, Shape
  <1>2. job[j].channel \in DOMAIN Channels
    BY <1>1 DEF JobOk, AttemptSound
  <1> QED BY <1>1, <1>2, ChannelFacts DEF JobOk, Now

(* The row of the channel at hand is decided, and the loop goes on. *)
LEMMA GoesOnKeepsIInv ==
  ASSUME IInv, NEW r \in Replicas, NEW j \in WorkedBy(r), NEW s \in {"sent", "failed"},
         Notes(j, s), Becomes(j, GoesOn(j)), s = "sent" => delivered[<<j, Now(j)>>] > 0,
         UNCHANGED <<calendar, people, schedule, delivered>>
  PROVE  IInv'
  <1> DEFINE ch == job[j].channel
             x == job[j].off
  <1>1. /\ j \in Jobs /\ job[j] \in Job /\ job[j].state = "active" /\ job[j].by = r
        /\ JobSound(j) /\ AttemptSound(j) /\ Tells(j)
        /\ ch \in DOMAIN Channels /\ ch \in Nat /\ Channels[ch] \in ChannelSet
    BY AtWork DEF InState, Now
  <1>2. PICK record \in Job :
        /\ record = GoesOn(j) /\ record.to = job[j].to /\ record.tries = job[j].tries
        /\ record.off = x /\ record.on = job[j].on /\ record.step = "create"
        /\ \/ /\ record.state = "done"
              /\ \A i \in DOMAIN Channels : i >= ch + 1 => Channels[i] \in x
           \/ /\ record.state = "active" /\ record.by = r
              /\ record.channel \in DOMAIN Channels /\ record.channel >= ch + 1
              /\ Channels[record.channel] \notin x
              /\ \A i \in DOMAIN Channels :
                   i >= ch + 1 /\ i < record.channel => Channels[i] \in x
    <2>1. ch + 1 \in Nat \ {0}
      BY <1>1
    <2> QED BY <1>1, <2>1, FromFields DEF GoesOn
  <1>3. /\ job' = [job EXCEPT ![j] = record] /\ job'[j] = record
        /\ off' = off /\ delivered' = delivered
        /\ notice' = [notice EXCEPT ![<<j, Channels[ch]>>] = s]
    BY <1>1, <1>2 DEF Becomes, Notes, Now, people, IInv, Shape
  <1>4. /\ notice' \in [Jobs \X ChannelSet -> {None, "queued", "sent", "failed"}]
        /\ delivered' \in [Jobs \X ChannelSet -> Nat]
        /\ \A y \in Jobs, c \in ChannelSet :
             notice'[<<y, c>>] = IF y = j /\ c = Channels[ch] THEN s ELSE notice[<<y, c>>]
    BY <1>1, <1>3 DEF IInv, Shape
  <1>5. /\ \A i \in DOMAIN Channels : i \in Nat /\ Channels[i] \in ChannelSet
        /\ \A i \in DOMAIN Channels : i # ch => Channels[i] # Channels[ch]
    BY <1>1, ChannelFacts
  <1>6. \A i \in DOMAIN Channels : i <= ch => Decided(j, Channels[i])'
    <2> SUFFICES ASSUME NEW i \in DOMAIN Channels, i <= ch PROVE Decided(j, Channels[i])'
      OBVIOUS
    <2>1. CASE i = ch
      BY <1>1, <1>4, <2>1, NamesAssumption DEF Decided
    <2>2. CASE i < ch
      <3>1. Decided(j, Channels[i])
        BY <1>1, <2>2 DEF AttemptSound, InState
      <3>2. notice'[<<j, Channels[i]>>] = notice[<<j, Channels[i]>>]
        BY <1>1, <1>4, <1>5, <2>2
      <3> QED BY <1>2, <1>3, <3>1, <3>2 DEF Decided
    <2> QED BY <1>1, <1>5, <2>1, <2>2
  <1>7. \A i \in DOMAIN Channels : i > ch => Untouched(j, Channels[i])'
    <2> SUFFICES ASSUME NEW i \in DOMAIN Channels, i > ch PROVE Untouched(j, Channels[i])'
      OBVIOUS
    <2>1. Untouched(j, Channels[i])
      BY <1>1 DEF AttemptSound, InState
    <2>2. notice'[<<j, Channels[i]>>] = notice[<<j, Channels[i]>>]
      BY <1>1, <1>4, <1>5
    <2> QED BY <1>2, <1>3, <2>1, <2>2 DEF Untouched
  <1>8. \A i \in DOMAIN Channels : i > ch /\ Channels[i] \in x => Decided(j, Channels[i])'
    BY <1>2, <1>3, <1>7, NamesAssumption DEF Untouched, Decided
  <1>9. JobSound(j)'
    BY <1>1, <1>2, <1>3 DEF JobSound, InState, Enabled
  <1>10. AttemptSound(j)'
    <2> SUFFICES ASSUME record.state = "active" PROVE AttemptSound(j)'
      BY <1>3 DEF AttemptSound, InState
    <2>1. /\ record.channel \in DOMAIN Channels /\ record.channel > ch /\ record.channel \in Nat
          /\ \A i \in DOMAIN Channels : i > ch /\ i < record.channel => Channels[i] \in x
          /\ Now(j)' = Channels[record.channel] /\ Now(j)' \notin job'[j].off
      BY <1>1, <1>2, <1>3, <1>5 DEF Now
    <2>2. \A i \in DOMAIN Channels : i < record.channel => Decided(j, Channels[i])'
      BY <1>1, <1>5, <1>6, <1>8, <2>1
    <2>3. \A i \in DOMAIN Channels : i > record.channel => Untouched(j, Channels[i])'
      BY <1>1, <1>5, <1>7, <2>1
    <2>4. Untouched(j, Channels[record.channel])'
      BY <1>7, <2>1
    <2>5. job'[j].channel = record.channel /\ job'[j].step = "create"
      BY <1>2, <1>3
    <2> QED BY <2>1, <2>2, <2>3, <2>4, <2>5 DEF AttemptSound, Now
  <1>11. Tells(j)'
    <2> SUFFICES ASSUME NEW c \in ChannelSet
                 PROVE  /\ delivered'[<<j, c>>] > 0 => c \in job'[j].on
                        /\ delivered'[<<j, c>>] <= job'[j].tries
                        /\ notice'[<<j, c>>] = "sent" => delivered'[<<j, c>>] > 0
                        /\ job'[j].state = "done" => Decided(j, c)'
      BY DEF Tells, InState
    <2>1. job'[j].state = "done" => Decided(j, c)'
      <3>1. PICK i \in DOMAIN Channels : Channels[i] = c
        BY ChannelFacts
      <3>2. CASE i <= ch
        BY <1>6, <3>1, <3>2
      <3>3. CASE i > ch
        BY <1>1, <1>2, <1>3, <1>5, <1>8, <3>1, <3>3
      <3> QED BY <1>1, <1>5, <3>2, <3>3
    <2>2. notice'[<<j, c>>] = "sent" => delivered'[<<j, c>>] > 0
      BY <1>1, <1>3, <1>4 DEF Tells, Now
    <2> QED BY <1>1, <1>2, <1>3, <2>1, <2>2 DEF Tells
  <1> QED BY <1>1, <1>2, <1>3, <1>4, <1>9, <1>10, <1>11, WorkStep DEF JobOk

(* A job as the replica takes it, before the loop over the channels. *)
LEMMA TakenFields ==
  ASSUME IInv, NEW r \in Replicas, NEW j \in Jobs, InState(j, "waiting")
  PROVE  \E y \in Job :
           /\ y = Taken(r, j)
           /\ y.state = "active" /\ y.tries = job[j].tries + 1 /\ y.by = r /\ y.to = job[j].to
           /\ y.off = DisabledFor(job[j].to) /\ y.on = job[j].on /\ y.window = job[j].window
  <1> DEFINE to == job[j].to
             tries == job[j].tries
  <1>1. job[j] \in Job /\ tries + 1 \in 0..Attempts
    <2>1. job[j] \in Job /\ tries < Attempts
      BY DEF IInv, Shape, JobOk, JobSound, InState
    <2>2. tries \in 0..Attempts
      BY <2>1 DEF Job
    <2> QED BY <2>1, <2>2, NumbersAssumption
  <1>2. PICK x \in Job : x = [job[j] EXCEPT !.state = "active", !.tries = tries + 1]
    <2>1. \A z \in Job, t \in 0..Attempts : [z EXCEPT !.state = "active", !.tries = t] \in Job
      BY DEF Job
    <2> QED BY <1>1, <2>1
  <1>3. /\ x.state = "active" /\ x.tries = tries + 1 /\ x.to = to /\ x.on = job[j].on
        /\ x.window = job[j].window
    BY <1>1, <1>2 DEF Job
  <1>4. PICK z \in Job : z = [x EXCEPT !.by = r, !.off = DisabledFor(to)]
    <2>1. DisabledFor(to) \in SUBSET ChannelSet
      BY DEF DisabledFor
    <2>2. [x EXCEPT !.by = r, !.off = DisabledFor(to)] \in Job
      BY <2>1 DEF Job
    <2> QED BY <2>2
  <1>5. /\ z.state = "active" /\ z.tries = tries + 1 /\ z.by = r /\ z.to = to
        /\ z.off = DisabledFor(to) /\ z.on = job[j].on /\ z.window = job[j].window
    BY <1>3, <1>4 DEF Job
  <1>6. z = Taken(r, j)
    BY <1>2, <1>4 DEF Taken
  <1> QED BY <1>5, <1>6

(* The job taken is the only one of its replica, and starts on a clean slate. *)
LEMMA TakeJobKeepsIInv ==
  ASSUME IInv, NEW r \in Replicas, NEW j \in Jobs, TakeJob(r, j)
  PROVE  IInv'
  <1> DEFINE to == job[j].to
             tries == job[j].tries
  <1>1. /\ job[j] \in Job /\ job[j].state = "waiting" /\ JobSound(j) /\ Tells(j)
        /\ tries < Attempts /\ tries \in Nat /\ tries + 1 \in 1..Attempts
        /\ to \in Users /\ Enabled(to) \subseteq job[j].on
    <2>1. job[j] \in Job /\ job[j].state = "waiting" /\ JobSound(j) /\ Tells(j)
      BY DEF TakeJob, InState, IInv, Shape, JobOk
    <2>2. tries < Attempts /\ to \in Users /\ Enabled(to) \subseteq job[j].on
      BY <2>1 DEF JobSound, InState
    <2>3. tries \in 0..Attempts
      BY <2>1 DEF Job
    <2> QED BY <2>1, <2>2, <2>3, NumbersAssumption
  <1>2. PICK y \in Job :
          /\ y = Taken(r, j)
          /\ y.state = "active" /\ y.tries = tries + 1 /\ y.by = r /\ y.to = to
          /\ y.off = DisabledFor(to) /\ y.on = job[j].on
    <2>1. InState(j, "waiting")
      BY DEF TakeJob
    <2> QED BY <2>1, TakenFields
  <1>3. PICK record \in Job :
        /\ record = From(1, y) /\ record.to = to /\ record.tries = tries + 1
        /\ record.off = DisabledFor(to) /\ record.on = job[j].on /\ record.step = "create"
        /\ \/ /\ record.state = "done"
              /\ \A i \in DOMAIN Channels : i >= 1 => Channels[i] \in record.off
           \/ /\ record.state = "active" /\ record.by = r
              /\ record.channel \in DOMAIN Channels /\ record.channel >= 1
              /\ Channels[record.channel] \notin record.off
              /\ \A i \in DOMAIN Channels :
                   i >= 1 /\ i < record.channel => Channels[i] \in record.off
    <2> DEFINE record == From(1, y)
    <2>1. y.state = "active" /\ y.tries = tries + 1 /\ y.by = r /\ y.to = to
      BY <1>2
    <2>2. y.off = DisabledFor(to) /\ y.on = job[j].on /\ 1 \in Nat \ {0}
      BY <1>2
    <2>3. record = From(1, y)
      OBVIOUS
    <2> HIDE DEF record
    <2> QED BY <2>1, <2>2, <2>3, FromFields
  <1>4. /\ Becomes(j, record) /\ WorkedBy(r) = {}
        /\ notice' = [x \in Jobs \X ChannelSet |-> IF x[1] = j THEN None ELSE notice[x]]
        /\ UNCHANGED <<calendar, people, schedule, delivered, off>>
    BY <1>2, <1>3 DEF TakeJob, people
  <1>5. /\ job'[j] = record
        /\ notice' \in [Jobs \X ChannelSet -> {None, "queued", "sent", "failed"}]
        /\ \A c \in ChannelSet : notice'[<<j, c>>] = None
        /\ \A i \in Jobs, c \in ChannelSet : i # j => notice'[<<i, c>>] = notice[<<i, c>>]
        /\ delivered' \in [Jobs \X ChannelSet -> Nat]
    BY <1>4 DEF Becomes, IInv, Shape
  <1>6. ChannelSet \ record.off \subseteq record.on
    BY <1>1, <1>3 DEF DisabledFor, Enabled
  <1>7. JobSound(j)'
    <2>1. \A u \in Users : Enabled(u)' = Enabled(u)
      BY <1>4 DEF Enabled
    <2> QED BY <1>1, <1>3, <1>5, <1>6, <2>1 DEF JobSound, InState
  <1>8. \A c \in ChannelSet : Untouched(j, c)'
    <2> SUFFICES ASSUME NEW c \in ChannelSet PROVE Untouched(j, c)'
      OBVIOUS
    <2>1. delivered[<<j, c>>] \in Nat /\ delivered[<<j, c>>] <= tries
      BY <1>1 DEF Tells, IInv, Shape
    <2> QED BY <1>1, <1>3, <1>4, <1>5, <2>1 DEF Untouched
  <1>9. \A i \in DOMAIN Channels : /\ i \in Nat /\ i >= 1 /\ Channels[i] \in ChannelSet
                                   /\ Channels[i] \in record.off => Decided(j, Channels[i])'
    BY <1>5, ChannelFacts, NamesAssumption DEF Decided
  <1>10. AttemptSound(j)'
    <2> SUFFICES ASSUME record.state = "active" PROVE AttemptSound(j)'
      BY <1>5 DEF AttemptSound, InState
    <2>1. /\ record.channel \in DOMAIN Channels
          /\ \A i \in DOMAIN Channels : i < record.channel => Decided(j, Channels[i])'
          /\ Now(j)' = Channels[record.channel] /\ Now(j)' \notin job'[j].off
      BY <1>3, <1>5, <1>9 DEF Now
    <2>2. \A i \in DOMAIN Channels : Untouched(j, Channels[i])'
      BY <1>8, <1>9
    <2>3. Untouched(j, Channels[record.channel])'
      BY <2>1, <2>2
    <2>4. job'[j].channel = record.channel /\ job'[j].step = "create"
      BY <1>3, <1>5
    <2> QED BY <2>1, <2>2, <2>3, <2>4 DEF AttemptSound, Now
  <1>11. Tells(j)'
    <2> SUFFICES ASSUME NEW c \in ChannelSet
                 PROVE  /\ delivered'[<<j, c>>] > 0 => c \in job'[j].on
                        /\ delivered'[<<j, c>>] <= job'[j].tries
                        /\ notice'[<<j, c>>] = "sent" => delivered'[<<j, c>>] > 0
                        /\ job'[j].state = "done" => Decided(j, c)'
      BY DEF Tells, InState
    <2>1. /\ delivered[<<j, c>>] \in Nat /\ delivered[<<j, c>>] <= tries
          /\ delivered[<<j, c>>] > 0 => c \in job[j].on
      BY <1>1 DEF Tells, IInv, Shape
    <2>2. job'[j].state = "done" => Decided(j, c)'
      <3>1. PICK i \in DOMAIN Channels : Channels[i] = c
        BY ChannelFacts
      <3> QED BY <1>3, <1>5, <1>9, <3>1
    <2> QED BY <1>1, <1>3, <1>4, <1>5, <2>1, <2>2, NamesAssumption
  <1>12. record.state = "active" => \A i \in WorkedBy(record.by) : i = j
    BY <1>3, <1>4
  <1> QED BY <1>4, <1>5, <1>7, <1>10, <1>11, <1>12, JobStep, ScheduleKept DEF JobOk

(* The step and the deliveries there, of a job that stays at its channel. *)
StepFits(step, n, tries) ==
  /\ step \in {"send", "mark sent", "mark failed"}
  /\ step = "send" => n < tries
  /\ step = "mark sent" => n > 0
StaysAt(j, step, s, n) ==
  /\ Becomes(j, [job[j] EXCEPT !.step = step]) /\ StepFits(step, n, job[j].tries)
  /\ Notes(j, s) /\ s \in {None, "queued", "sent", "failed"}
  /\ delivered' = [delivered EXCEPT ![<<j, Now(j)>>] = n]
  /\ n \in Nat /\ n <= job[j].tries /\ (s = "sent" => n > 0)
  /\ UNCHANGED <<calendar, people, schedule>>

LEMMA AtChannelKeepsIInv ==
  ASSUME IInv, NEW r \in Replicas, NEW j \in WorkedBy(r), NEW step, NEW s, NEW n,
         StaysAt(j, step, s, n)
  PROVE  IInv'
  <1> USE DEF StaysAt
  <1> DEFINE here == Now(j)
  <1>1. /\ j \in Jobs /\ job[j] \in Job /\ job[j].state = "active" /\ job[j].by = r
        /\ JobSound(j) /\ AttemptSound(j) /\ Tells(j) /\ here \in ChannelSet
    BY AtWork DEF InState
  <1>2. PICK record \in Job :
          /\ record = [job[j] EXCEPT !.step = step] /\ record.step = step
          /\ record.state = "active" /\ record.by = r /\ record.to = job[j].to
          /\ record.tries = job[j].tries /\ record.channel = job[j].channel
          /\ record.off = job[j].off /\ record.on = job[j].on
    <2>1. [job[j] EXCEPT !.step = step] \in Job
      BY <1>1 DEF Job, StepFits
    <2> QED BY <1>1, <2>1 DEF Job
  <1>3. PICK c0 \in ChannelSet : c0 = here
    BY <1>1
  <1>4. /\ Becomes(j, record) /\ job'[j] = record /\ off' = off /\ Now(j)' = c0
        /\ \A c \in ChannelSet : <<j, c>> \in Jobs \X ChannelSet
    BY <1>1, <1>2, <1>3 DEF Becomes, IInv, Shape, people, Now
  <1>5. /\ notice' \in [Jobs \X ChannelSet -> {None, "queued", "sent", "failed"}]
        /\ delivered' \in [Jobs \X ChannelSet -> Nat]
        /\ \A i \in Jobs, c \in ChannelSet :
             /\ notice'[<<i, c>>] = IF i = j /\ c = c0 THEN s ELSE notice[<<i, c>>]
             /\ delivered'[<<i, c>>] = IF i = j /\ c = c0 THEN n ELSE delivered[<<i, c>>]
    BY <1>1, <1>3 DEF Notes, IInv, Shape
  <1>6. /\ \A i \in DOMAIN Channels : i \in Nat /\ Channels[i] \in ChannelSet
        /\ \A i \in DOMAIN Channels : i # job[j].channel => Channels[i] # c0
        /\ job[j].channel \in DOMAIN Channels /\ job[j].channel \in Nat
    <2>1. job[j].channel \in DOMAIN Channels /\ job[j].channel \in Nat
      BY AtWork
    <2>2. Channels[job[j].channel] = c0
      BY <1>3 DEF Now
    <2> QED BY <2>1, <2>2, ChannelFacts
  <1>7. JobSound(j)'
    BY <1>1, <1>2, <1>4 DEF JobSound, InState, Enabled
  <1>8. AttemptSound(j)'
    <2>1. c0 \notin job[j].off
      BY <1>1, <1>3 DEF AttemptSound, InState
    <2>2. ASSUME NEW i \in DOMAIN Channels, i < job[j].channel
          PROVE  Decided(j, Channels[i])'
      <3>1. Decided(j, Channels[i])
        BY <1>1, <2>2 DEF AttemptSound, InState
      <3>2. Channels[i] # c0 /\ Channels[i] \in ChannelSet
        BY <1>6, <2>2
      <3> QED BY <1>1, <1>2, <1>4, <1>5, <3>1, <3>2 DEF Decided
    <2>3. ASSUME NEW i \in DOMAIN Channels, i > job[j].channel
          PROVE  Untouched(j, Channels[i])'
      <3>1. Untouched(j, Channels[i])
        BY <1>1, <2>3 DEF AttemptSound, InState
      <3>2. Channels[i] # c0 /\ Channels[i] \in ChannelSet
        BY <1>6, <2>3
      <3> QED BY <1>1, <1>2, <1>4, <1>5, <3>1, <3>2 DEF Untouched
    <2>4. delivered'[<<j, c0>>] = n
      BY <1>1, <1>5
    <2> QED BY <1>2, <1>4, <1>6, <2>1, <2>2, <2>3, <2>4 DEF AttemptSound, StepFits
  <1>9. Tells(j)'
    <2> SUFFICES ASSUME NEW c \in ChannelSet
                 PROVE  /\ delivered'[<<j, c>>] > 0 => c \in record.on
                        /\ delivered'[<<j, c>>] <= record.tries
                        /\ notice'[<<j, c>>] = "sent" => delivered'[<<j, c>>] > 0
      BY <1>2, <1>4 DEF Tells, InState
    <2>1. CASE c = c0
      <3>1. c \in record.on
        BY <1>1, <1>2, <1>3, <2>1 DEF JobSound, AttemptSound, InState
      <3> QED BY <1>1, <1>2, <1>5, <2>1, <3>1
    <2>2. CASE c # c0
      BY <1>1, <1>2, <1>5, <2>2 DEF Tells, InState
    <2> QED BY <2>1, <2>2
  <1> QED BY <1>1, <1>2, <1>4, <1>5, <1>7, <1>8, <1>9, WorkStep DEF JobOk

(* What the job's own counts say. *)
LEMMA Counts ==
  ASSUME IInv, NEW r \in Replicas, NEW j \in WorkedBy(r)
  PROVE  LET n == delivered[<<j, Now(j)>>]
             s == notice[<<j, Now(j)>>]
         IN  /\ n \in Nat /\ job[j].tries \in Nat /\ n <= job[j].tries
             /\ s \in {None, "queued", "sent", "failed"} /\ (s = "sent" => n > 0)
             /\ delivered = [delivered EXCEPT ![<<j, Now(j)>>] = n]
             /\ notice = [notice EXCEPT ![<<j, Now(j)>>] = s]
  <1>1. j \in Jobs /\ Now(j) \in ChannelSet /\ Tells(j) /\ job[j] \in Job
    BY AtWork
  <1>2. <<j, Now(j)>> \in Jobs \X ChannelSet
    BY <1>1
  <1>3. job[j].tries \in Nat
    <2>1. job[j].tries \in 0..Attempts
      BY <1>1 DEF Job
    <2> QED BY <2>1, NumbersAssumption
  <1>4. /\ delivered = [delivered EXCEPT ![<<j, Now(j)>>] = delivered[<<j, Now(j)>>]]
        /\ notice = [notice EXCEPT ![<<j, Now(j)>>] = notice[<<j, Now(j)>>]]
        /\ delivered[<<j, Now(j)>>] \in Nat
        /\ notice[<<j, Now(j)>>] \in {None, "queued", "sent", "failed"}
    BY <1>2 DEF IInv, Shape
  <1>5. /\ delivered[<<j, Now(j)>>] <= job[j].tries
        /\ notice[<<j, Now(j)>>] = "sent" => delivered[<<j, Now(j)>>] > 0
    BY <1>1 DEF Tells
  <1> QED BY <1>3, <1>4, <1>5

LEMMA DispatchKeepsIInv ==
  ASSUME IInv, NEW r \in Replicas, NEW j \in Jobs, Dispatch(r, j)
  PROVE  IInv'
  <1> DEFINE n == delivered[<<j, Now(j)>>]
             s == notice[<<j, Now(j)>>]
             tries == job[j].tries
  <1>1. j \in WorkedBy(r)
    BY DEF Dispatch, CreateNotice, NoAddress, ToTheCatch, Send, MarkSent,
         MarkFailed, Doing
  <1>2. /\ n \in Nat /\ tries \in Nat /\ n <= tries
        /\ s \in {None, "queued", "sent", "failed"} /\ (s = "sent" => n > 0)
    BY <1>1, Counts
  <1>3. /\ delivered = [delivered EXCEPT ![<<j, Now(j)>>] = n]
         /\ notice = [notice EXCEPT ![<<j, Now(j)>>] = s]
    BY <1>1, Counts
  <1>4. InState(j, "active") /\ AttemptSound(j)
    BY <1>1, AtWork
  <1>5. CASE CreateNotice(r, j)
    <2>1. /\ Notes(j, "queued") /\ Becomes(j, [job[j] EXCEPT !.step = "send"])
          /\ UNCHANGED <<calendar, people, schedule, delivered>>
      BY <1>5 DEF CreateNotice
    <2>2. n < tries
      BY <1>4, <1>5 DEF CreateNotice, Doing, AttemptSound, Untouched
    <2>3. StepFits("send", n, tries)
      BY <2>2 DEF StepFits
    <2>4. StaysAt(j, "send", "queued", n)
      BY <1>2, <1>3, <2>1, <2>3 DEF StaysAt
    <2> QED BY <1>1, <2>4, AtChannelKeepsIInv
  <1>6. CASE UNCHANGED <<calendar, people, schedule, delivered>> /\ ToTheCatch(j)
    <2>1. StepFits("mark failed", n, tries) /\ Notes(j, s)
      BY <1>2, <1>3, <1>6 DEF ToTheCatch, StepFits, Notes
    <2>2. /\ UNCHANGED <<calendar, people, schedule>>
          /\ delivered' = [delivered EXCEPT ![<<j, Now(j)>>] = n]
      BY <1>3, <1>6
    <2>3. PICK step : StepFits(step, n, tries) /\ Becomes(j, [job[j] EXCEPT !.step = step])
      BY <1>6, <2>1 DEF ToTheCatch
    <2>4. StaysAt(j, step, s, n)
      BY <1>2, <2>1, <2>2, <2>3 DEF StaysAt
    <2> QED BY <1>1, <2>4, AtChannelKeepsIInv
  <1>7. CASE Send(r, j)
    <2>1. PICK ok, out \in BOOLEAN :
            /\ ok => out
            /\ delivered' = IF out THEN [delivered EXCEPT ![<<j, Now(j)>>] = @ + 1] ELSE delivered
            /\ Becomes(j, [job[j] EXCEPT !.step = IF ok THEN "mark sent" ELSE "mark failed"])
            /\ UNCHANGED <<calendar, people, schedule, notice>>
      BY <1>7 DEF Send
    <2>2. n < tries
      BY <1>4, <1>7 DEF Send, Doing, AttemptSound
    <2>3. PICK m \in Nat : m = IF out THEN n + 1 ELSE n
      BY <1>2
    <2>4. m <= tries /\ (n > 0 => m > 0) /\ (ok => m > 0)
      <3>1. ok => out
        BY <2>1
      <3>2. n \in Nat /\ tries \in Nat
        BY <1>2
      <3> HIDE DEF n, tries
      <3> QED BY <2>2, <2>3, <3>1, <3>2
    <2>5. delivered' = [delivered EXCEPT ![<<j, Now(j)>>] = m] /\ Notes(j, s)
      <3>1. CASE out
        BY <1>3, <2>1, <2>3, <3>1 DEF Notes
      <3>2. CASE ~out
        BY <1>3, <2>1, <2>3, <3>2 DEF Notes
      <3> QED BY <3>1, <3>2
    <2>6. PICK step : StepFits(step, m, tries) /\ Becomes(j, [job[j] EXCEPT !.step = step])
      BY <2>1, <2>4 DEF StepFits
    <2>7. UNCHANGED <<calendar, people, schedule>>
      BY <2>1
    <2>8. StaysAt(j, step, s, m)
      BY <1>2, <2>4, <2>5, <2>6, <2>7 DEF StaysAt
    <2> QED BY <1>1, <2>8, AtChannelKeepsIInv
  <1>8. CASE MarkSent(r, j)
    <2>1. n > 0 /\ UNCHANGED <<calendar, people, schedule, delivered>>
      BY <1>4, <1>8 DEF MarkSent, Doing, AttemptSound
    <2>2. CASE Notes(j, "sent") /\ Becomes(j, GoesOn(j))
      BY <1>1, <2>1, <2>2, GoesOnKeepsIInv
    <2>3. CASE ToTheCatch(j)
      BY <1>2, <1>6, <2>1, <2>3
    <2> QED BY <1>8, <2>2, <2>3 DEF MarkSent
  <1>9. CASE NoAddress(r, j) \/ MarkFailed(r, j)
    <2>1. UNCHANGED <<calendar, people, schedule, delivered>>
      BY <1>9 DEF NoAddress, MarkFailed
    <2>2. CASE Notes(j, "failed") /\ Becomes(j, GoesOn(j))
      BY <1>1, <2>1, <2>2, GoesOnKeepsIInv
    <2>3. CASE ToTheCatch(j)
      BY <1>2, <1>6, <2>1, <2>3
    <2> QED BY <1>9, <2>2, <2>3 DEF NoAddress, MarkFailed
  <1> QED BY <1>5, <1>7, <1>8, <1>9 DEF Dispatch

(* An attempt that fails leaves what it did, and a job that is not active. *)
LEMMA FailedAttempt ==
  ASSUME IInv, NEW r \in Replicas, NEW j \in WorkedBy(r), job'[j] = AfterFailure(j), off' = off,
         \A c \in ChannelSet : /\ notice'[<<j, c>>] = notice[<<j, c>>]
                               /\ delivered'[<<j, c>>] = delivered[<<j, c>>]
  PROVE  /\ AfterFailure(j) \in Job /\ AfterFailure(j).state # "active"
         /\ JobOk(j)'
  <1>1. /\ j \in Jobs /\ job[j] \in Job /\ job[j].state = "active"
        /\ JobSound(j) /\ Tells(j)
    BY AtWork DEF InState
  <1>2. PICK s \in {"waiting", "failed"} :
          AfterFailure(j) = Ended(job[j], s) /\ (s = "waiting" => job[j].tries < Attempts)
    BY DEF AfterFailure
  <1>3. PICK x \in Job : /\ x = [job[j] EXCEPT !.state = s, !.by = None] /\ x.state = s
                         /\ x.to = job[j].to /\ x.tries = job[j].tries /\ x.on = job[j].on
    <2>1. [job[j] EXCEPT !.state = s, !.by = None] \in Job
      BY <1>1 DEF Job
    <2> QED BY <1>1, <2>1 DEF Job
  <1>4. PICK record \in Job :
          /\ record = AfterFailure(j) /\ record.state = s /\ record.to = job[j].to
          /\ record.tries = job[j].tries /\ record.on = job[j].on
    <2>1. [x EXCEPT !.channel = 1, !.step = "create"] \in Job
      BY DEF Job
    <2>2. AfterFailure(j) = [x EXCEPT !.channel = 1, !.step = "create"]
      BY <1>2, <1>3 DEF Ended
    <2> QED BY <1>3, <2>1, <2>2 DEF Job
  <1>5. JobSound(j)'
    BY <1>1, <1>2, <1>4 DEF JobSound, InState, Enabled
  <1>6. AttemptSound(j)'
    BY <1>4 DEF AttemptSound, InState
  <1>7. Tells(j)'
    BY <1>1, <1>4 DEF Tells, InState
  <1> QED BY <1>4, <1>5, <1>6, <1>7 DEF JobOk

LEMMA AttemptFailsKeepsIInv ==
  ASSUME IInv, NEW r \in Replicas, NEW j \in Jobs, AttemptFails(r, j)
  PROVE  IInv'
  <1>1. /\ j \in WorkedBy(r) /\ Becomes(j, AfterFailure(j)) /\ off' = off
        /\ UNCHANGED <<calendar, people, schedule, notice, delivered>>
    BY DEF AttemptFails, people
  <1>2. job'[j] = AfterFailure(j)
    BY <1>1 DEF Becomes, IInv, Shape
  <1>3. AfterFailure(j) \in Job /\ AfterFailure(j).state # "active" /\ JobOk(j)'
    BY <1>1, <1>2, FailedAttempt
  <1> QED BY <1>1, <1>3, WorkStep DEF IInv, Shape

LEMMA CrashKeepsIInv ==
  ASSUME IInv, NEW r \in Replicas, Crash(r)
  PROVE  IInv'
  <1>1. /\ Runs(r, NoRun) /\ UNCHANGED <<day, status, active, off, fired, notice, delivered>>
        /\ job' = [j \in Jobs |-> IF j \in WorkedBy(r) THEN AfterFailure(j) ELSE job[j]]
    BY DEF Crash, calendar, people
  <1>2. CronSound'
    BY <1>1, NoRunFields, RunStep DEF IInv, CronSound
  <1>3. \A j \in WorkedBy(r) : AfterFailure(j) \in Job /\ AfterFailure(j).state # "active" /\ JobOk(j)'
    <2> SUFFICES ASSUME NEW j \in WorkedBy(r)
                 PROVE  AfterFailure(j) \in Job /\ AfterFailure(j).state # "active" /\ JobOk(j)'
      OBVIOUS
    <2>1. job'[j] = AfterFailure(j)
      BY <1>1 DEF WorkedBy
    <2> QED BY <1>1, <2>1, FailedAttempt
  <1>4. \A j \in Jobs : JobOk(j)'
    <2> SUFFICES ASSUME NEW j \in Jobs, j \notin WorkedBy(r) PROVE JobOk(j)'
      BY <1>3
    <2>1. job'[j] = job[j]
      BY <1>1
    <2> QED BY <1>1, <2>1, JobKept DEF IInv
  <1>5. Shape'
    <2>1. job' \in [Jobs -> Job]
      BY <1>1, <1>3 DEF IInv, Shape
    <2> QED BY <1>1, <2>1 DEF IInv, Shape
  <1>6. OneJobEach'
    <2>1. \A q \in Replicas : WorkedBy(q)' \subseteq WorkedBy(q)
      BY <1>1, <1>3 DEF WorkedBy, InState
    <2> QED BY <2>1 DEF IInv, OneJobEach
  <1>7. StatusNotAhead'
    BY <1>1 DEF IInv, StatusNotAhead
  <1> QED BY <1>2, <1>4, <1>5, <1>6, <1>7 DEF IInv

(* A channel switched on joins the channels enabled since each job of that user
   was enqueued. *)
LEMMA SetPreferenceKeepsIInv ==
  ASSUME IInv, NEW u \in Users, NEW c \in ChannelSet, SetPreference(u, c)
  PROVE  IInv'
  <1> DEFINE gains(j) == job[j].to = u /\ <<u, c>> \in off
  <1>1. /\ off' = IF <<u, c>> \in off THEN off \ {<<u, c>>} ELSE off \cup {<<u, c>>}
        /\ UNCHANGED <<day, status, active, cron, fired, notice, delivered>>
        /\ job' = [j \in Jobs |-> IF gains(j) THEN [job[j] EXCEPT !.on = @ \cup {c}] ELSE job[j]]
    BY DEF SetPreference, calendar, schedule
  <1>2. ASSUME NEW j \in Jobs
        PROVE  /\ job'[j] \in Job /\ job'[j].state = job[j].state /\ job'[j].to = job[j].to
               /\ job'[j].tries = job[j].tries /\ job'[j].by = job[j].by
               /\ job'[j].off = job[j].off /\ job'[j].channel = job[j].channel
               /\ job'[j].step = job[j].step
               /\ job'[j].on = IF gains(j) THEN job[j].on \cup {c} ELSE job[j].on
               /\ ~gains(j) => job'[j] = job[j]
    <2>1. job[j] \in Job
      BY DEF IInv, Shape
    <2>2. CASE gains(j)
      <3>1. job'[j] = [job[j] EXCEPT !.on = @ \cup {c}]
        BY <1>1, <2>2
      <3>2. PICK x \in Job : x = job[j]
        BY <2>1
      <3>3. PICK on \in SUBSET ChannelSet : on = job[j].on \cup {c}
        BY <2>1 DEF Job
      <3>4. job'[j] = [x EXCEPT !.on = on]
        BY <3>1, <3>2, <3>3
      <3> HIDE DEF gains
      <3> QED BY <2>2, <3>2, <3>3, <3>4 DEF Job
    <2>3. CASE ~gains(j)
      <3>1. job'[j] = job[j]
        BY <1>1, <2>3
      <3> QED BY <2>1, <2>3, <3>1
    <2> QED BY <2>2, <2>3
  <1> HIDE DEF gains
  <1>3. Shape'
    <2>1. job' \in [Jobs -> Job]
      BY <1>1, <1>2
    <2> QED BY <1>1, <2>1 DEF IInv, Shape
  <1>4. CronSound' /\ StatusNotAhead'
    BY <1>1 DEF IInv, CronSound, StatusNotAhead, At
  <1>5. OneJobEach'
    <2>1. \A q \in Replicas : WorkedBy(q)' = WorkedBy(q)
      BY <1>2 DEF WorkedBy, InState
    <2> QED BY <2>1 DEF IInv, OneJobEach
  <1>6. ASSUME NEW j \in Jobs PROVE JobOk(j)'
    <2>1. JobSound(j) /\ AttemptSound(j) /\ Tells(j)
      BY DEF IInv, JobOk
    <2>2. job[j].on \subseteq job'[j].on
      BY <1>2
    <2>3. JobSound(j)'
      <3>1. InState(j, "none") => ~gains(j)
        BY <2>1, NamesAssumption DEF JobSound, NoJob, gains
      <3>2. ~InState(j, "none") => Enabled(job[j].to)' \subseteq job'[j].on
        <4> SUFFICES ASSUME job[j].state # "none", NEW d \in ChannelSet, <<job[j].to, d>> \notin off'
                     PROVE  d \in job'[j].on
          BY <1>2 DEF Enabled, InState
        <4>1. CASE <<job[j].to, d>> \notin off
          BY <2>1, <2>2, <4>1 DEF JobSound, InState, Enabled
        <4>2. CASE <<job[j].to, d>> \in off
          <5>1. job[j].to = u /\ d = c
            BY <1>1, <4>2
          <5> QED BY <1>2, <4>2, <5>1 DEF gains
        <4> QED BY <4>1, <4>2
      <3> QED BY <1>2, <2>1, <2>2, <3>1, <3>2 DEF JobSound, InState
    <2>4. AttemptSound(j)'
      <3>1. Now(j)' = Now(j)
        BY <1>2 DEF Now
      <3> QED BY <1>1, <1>2, <2>1, <3>1 DEF AttemptSound, InState, Decided, Untouched
    <2>5. Tells(j)'
      BY <1>1, <1>2, <2>1, <2>2 DEF Tells, InState, Decided
    <2> QED BY <2>3, <2>4, <2>5 DEF JobOk
  <1> QED BY <1>3, <1>4, <1>5, <1>6 DEF IInv

-----------------------------------------------------------------------------
(* Every step *)

LEMMA StepKeepsIInv == IInv /\ [Next]_vars => IInv'
  <1> SUFFICES ASSUME IInv, [Next]_vars PROVE IInv'
    OBVIOUS
  <1>1. CASE Tick
    BY <1>1, TickKeepsIInv
  <1>2. ASSUME NEW p \in Choices, SetPreference(p[1], p[2]) PROVE IInv'
    <2>1. p[1] \in Users /\ p[2] \in ChannelSet
      BY NamesAssumption
    <2> QED BY <1>2, <2>1, SetPreferenceKeepsIInv
  <1>3. ASSUME NEW r \in Replicas, Fire(r) \/ Scheduled(r) \/ Crash(r) PROVE IInv'
    <2>1. CASE Scheduled(r)
      BY <2>1, StatusesKeepIInv, WindowsKeepIInv, EnqueueKeepsIInv DEF Scheduled
    <2> QED BY <1>3, <2>1, FireKeepsIInv, CrashKeepsIInv
  <1>4. ASSUME NEW r \in Replicas, NEW j \in Jobs,
               TakeJob(r, j) \/ Dispatch(r, j) \/ AttemptFails(r, j)
        PROVE  IInv'
    BY <1>4, TakeJobKeepsIInv, DispatchKeepsIInv, AttemptFailsKeepsIInv
  <1>5. CASE UNCHANGED vars
    <2>1. UNCHANGED <<people, dispatches, day, status, cron, fired, active>>
      BY <1>5 DEF vars, calendar, schedule, people
    <2> QED BY <2>1, CronStep DEF IInv, Shape, CronSound, StatusNotAhead, At
  <1> QED BY <1>1, <1>2, <1>3, <1>4, <1>5 DEF Next

(* The inductive invariant of the reminders holds in every state: what the job of
   each reminder, its rows and its deliveries have to do with each other at each
   step of dispatch. *)
THEOREM Inductive == Spec => []IInv
  <1>1. Init => IInv
    BY InitIInv
  <1>2. IInv /\ [Next]_vars => IInv'
    BY StepKeepsIInv
  <1> QED BY <1>1, <1>2, PTL DEF Spec

(* setPreference and dispatch: a channel that was disabled ever since a reminder
   was enqueued does not get it, whatever attempts fail and replicas crash. *)
THEOREM DisabledIsSilent == Spec => []OptOutHolds
  BY Inductive, IInvSuffices, PTL

(* dispatch and process: a row marked sent went out, no more often than attempts
   were made, and a job that is done has decided every channel not disabled. *)
THEOREM RowsTell == Spec => []NoticesTell
  BY Inductive, IInvSuffices, PTL

(* updateDeadlineStatuses: no deadline is called due or overdue before its day,
   however late the updates of a run that day come. *)
THEOREM StatusesWait == Spec => []StatusNotAhead
  BY Inductive, IInvSuffices, PTL

-----------------------------------------------------------------------------
(* What is owed comes: what a run, a row and a job do on the way *)

LEMMA TailFacts ==
  ASSUME NEW s \in Seq(WindowSet), s # <<>>
  PROVE  /\ IsIn(Head(s), s)
         /\ \A n : IsIn(n, Tail(s)) => IsIn(n, s)
         /\ \A n : IsIn(n, s) => n = Head(s) \/ IsIn(n, Tail(s))
         /\ (\A i, k \in DOMAIN s : s[i] = s[k] => i = k) =>
              /\ ~IsIn(Head(s), Tail(s))
              /\ \A i, k \in DOMAIN Tail(s) : Tail(s)[i] = Tail(s)[k] => i = k
  <1>1. /\ Len(s) \in Nat /\ Len(s) >= 1 /\ DOMAIN s = 1..Len(s) /\ Head(s) = s[1]
        /\ DOMAIN Tail(s) = 1..(Len(s) - 1)
        /\ \A i \in 1..(Len(s) - 1) : Tail(s)[i] = s[i + 1]
    OBVIOUS
  <1>2. 1 \in DOMAIN s /\ \A i \in DOMAIN Tail(s) : i + 1 \in DOMAIN s /\ i + 1 # 1
    BY <1>1
  <1>3. \A i \in DOMAIN s : i # 1 => i - 1 \in DOMAIN Tail(s) /\ Tail(s)[i - 1] = s[i]
    BY <1>1
  <1>4. \A i, k \in DOMAIN Tail(s) : i + 1 = k + 1 => i = k
    BY <1>1
  <1>5. IsIn(Head(s), s)
    BY <1>1, <1>2 DEF IsIn
  <1>6. \A n : IsIn(n, Tail(s)) => IsIn(n, s)
    <2> SUFFICES ASSUME NEW i \in DOMAIN Tail(s) PROVE \E k \in DOMAIN s : s[k] = Tail(s)[i]
      BY DEF IsIn
    <2> QED BY <1>1, <1>2
  <1>7. \A n : IsIn(n, s) => n = Head(s) \/ IsIn(n, Tail(s))
    <2> SUFFICES ASSUME NEW i \in DOMAIN s, i # 1 PROVE IsIn(s[i], Tail(s))
      BY <1>1 DEF IsIn
    <2> QED BY <1>3 DEF IsIn
  <1>8. ASSUME \A i, k \in DOMAIN s : s[i] = s[k] => i = k
        PROVE  /\ ~IsIn(Head(s), Tail(s))
               /\ \A i, k \in DOMAIN Tail(s) : Tail(s)[i] = Tail(s)[k] => i = k
    <2>1. ASSUME NEW i \in DOMAIN Tail(s) PROVE Tail(s)[i] # Head(s)
      BY <1>1, <1>2, <1>8
    <2>2. ASSUME NEW i \in DOMAIN Tail(s), NEW k \in DOMAIN Tail(s), Tail(s)[i] = Tail(s)[k]
          PROVE  i = k
      BY <1>1, <1>2, <1>4, <1>8, <2>2
    <2> QED BY <2>1, <2>2 DEF IsIn
  <1> QED BY <1>5, <1>6, <1>7, <1>8

LEMMA OwnRun ==
  ASSUME IInv, NEW r \in Replicas, NEW run, Runs(r, run)
  PROVE  cron'[r] = run /\ \A q \in Replicas : q # r => cron'[q] = cron[q]
  BY DEF Runs, IInv, CronSound

LEMMA RunFacts ==
  ASSUME IInv, NEW r \in Replicas
  PROVE  /\ cron[r] \in Run /\ cron[r].windows \in Seq(WindowSet) /\ cron[r].today \in Nat
         /\ cron[r].to \subseteq active /\ fired[r] \in Nat /\ fired[r] <= day
         /\ cron[r].at # "idle" => cron[r].today = fired[r]
         /\ At(r, "enqueuing") => cron[r].windows # <<>>
  BY DEF IInv, CronSound, Run, At

(* What every step of a run's own leaves alone. *)
LEMMA ScheduledEffects ==
  ASSUME NEW r \in Replicas, Scheduled(r)
  PROVE  /\ \E run : Runs(r, run)
         /\ UNCHANGED <<day, people, fired, notice, delivered, owed>>
         /\ owed \cap excused \subseteq excused'
         /\ UNCHANGED job \/ \E w \in RoleRows, j \in Jobs : Enqueue(r, w, j)
  <1> DEFINE Effects == /\ \E run : Runs(r, run)
                        /\ UNCHANGED <<day, people, fired, notice, delivered, owed>>
                        /\ owed \cap excused \subseteq excused'
                        /\ UNCHANGED job \/ \E w \in RoleRows, j \in Jobs : Enqueue(r, w, j)
  <1>1. MarkOverdue(r) => Effects
    BY DEF MarkOverdue, At, account, dispatches
  <1>2. MarkDueToday(r) => Effects
    BY DEF MarkDueToday, At, account, dispatches
  <1>3. StatusesFail(r) => Effects
    BY DEF StatusesFail, At, account, dispatches, calendar
  <1>4. FindWindow(r) => Effects
    BY DEF FindWindow, At, dispatches, calendar
  <1>5. WindowFails(r) => Effects
    BY DEF WindowFails, At, dispatches, calendar
  <1>6. WindowDone(r) => Effects
    BY DEF WindowDone, At, account, dispatches, calendar
  <1>7. RunDone(r) => Effects
    BY DEF RunDone, At, account, dispatches, calendar
  <1>8. ASSUME NEW w \in RoleRows, EnqueueFails(r, w) PROVE Effects
    BY <1>8 DEF EnqueueFails, At, dispatches, calendar
  <1>9. ASSUME NEW w \in RoleRows, NEW j \in Jobs, Enqueue(r, w, j) PROVE Effects
    <2>1. \E run : Runs(r, run)
      BY <1>9 DEF Enqueue, At
    <2>2. UNCHANGED <<day, people, fired, notice, delivered, owed>> /\ owed \cap excused \subseteq excused'
      BY <1>9 DEF Enqueue, account, calendar, At
    <2> QED BY <1>9, <2>1, <2>2
  <1> QED BY <1>1, <1>2, <1>3, <1>4, <1>5, <1>6, <1>7, <1>8, <1>9 DEF Scheduled

(* Steps of other parts, and of the other replicas, leave a run alone. *)
LEMMA RunMoves ==
  ASSUME IInv, [Next]_vars, NEW r \in Replicas
  PROVE  \/ cron'[r] = cron[r] /\ fired'[r] = fired[r]
         \/ Fire(r) \/ Scheduled(r) \/ Crash(r)
  <1>1. ASSUME NEW q \in Replicas, q # r, Fire(q) \/ Scheduled(q) \/ Crash(q)
        PROVE  cron'[r] = cron[r] /\ fired'[r] = fired[r]
    <2>1. \E run : Runs(q, run)
      BY <1>1, ScheduledEffects DEF Fire, Crash, At
    <2>2. fired' = fired \/ fired' = [fired EXCEPT ![q] = day]
      BY <1>1, ScheduledEffects DEF Fire, Crash, At
    <2>3. fired'[r] = fired[r]
      BY <1>1, <2>2 DEF IInv, CronSound
    <2> QED BY <1>1, <2>1, <2>3, OwnRun
  <1>2. ASSUME UNCHANGED schedule
        PROVE  cron'[r] = cron[r] /\ fired'[r] = fired[r]
    BY <1>2 DEF schedule
  <1>3. CASE UNCHANGED vars
    BY <1>2, <1>3 DEF vars
  <1>4. ASSUME Tick \/ \E p \in Choices : SetPreference(p[1], p[2]) PROVE UNCHANGED schedule
    BY <1>4 DEF Tick, SetPreference
  <1>5. ASSUME NEW q \in Replicas, NEW j \in Jobs, TakeJob(q, j) \/ Dispatch(q, j) \/ AttemptFails(q, j)
        PROVE  UNCHANGED schedule
    BY <1>5 DEF TakeJob, Dispatch, AttemptFails, CreateNotice, NoAddress, ToTheCatch, Send, MarkSent,
         MarkFailed
  <1> QED BY <1>1, <1>2, <1>3, <1>4, <1>5 DEF Next

(* A job keeps its recipient and its window once it is enqueued. *)
LEMMA AddressKept ==
  ASSUME IInv, [Next]_vars, NEW j \in Jobs
  PROVE  \/ job'[j].to = job[j].to /\ job'[j].window = job[j].window
         \/ \E r \in Replicas, w \in RoleRows : Enqueue(r, w, j)
  <1> DEFINE Kept == job'[j].to = job[j].to /\ job'[j].window = job[j].window
  <1>0. /\ job \in [Jobs -> Job] /\ job[j] \in Job
    BY DEF IInv, Shape
  <1>1. ASSUME UNCHANGED job PROVE Kept
    BY <1>1
  <1>2. CASE UNCHANGED vars \/ Tick
    BY <1>1, <1>2 DEF vars, Tick, dispatches
  <1>3. ASSUME NEW p \in Choices, SetPreference(p[1], p[2]) PROVE Kept
    <2>1. CASE job'[j] = job[j]
      BY <2>1
    <2>2. CASE job'[j] = [job[j] EXCEPT !.on = @ \cup {p[2]}]
      BY <1>0, <2>2 DEF Job
    <2> QED BY <1>3, <2>1, <2>2 DEF SetPreference
  <1>4. ASSUME NEW r \in Replicas, Fire(r) \/ Scheduled(r),
               ~\E w \in RoleRows : Enqueue(r, w, j)
        PROVE  Kept
    <2>1. ASSUME NEW w \in RoleRows, NEW i \in Jobs, Enqueue(r, w, i) PROVE Kept
      <3>1. i # j
        BY <1>4, <2>1
      <3>2. \E record : Becomes(i, record)
        BY <2>1 DEF Enqueue, Becomes, At
      <3> QED BY <1>0, <3>1, <3>2 DEF Becomes
    <2>2. CASE Fire(r)
      BY <1>1, <2>2 DEF Fire, At, dispatches
    <2> QED BY <1>1, <1>4, <2>1, <2>2, ScheduledEffects
  <1>5. ASSUME NEW s PROVE /\ Ended(job[j], s).to = job[j].to
                           /\ Ended(job[j], s).window = job[j].window
    BY <1>0 DEF Ended, Job
  <1>6. ASSUME NEW r \in Replicas, Crash(r) PROVE Kept
    <2>1. job'[j] = job[j] \/ \E s : job'[j] = Ended(job[j], s)
      BY <1>6 DEF Crash, AfterFailure
    <2> QED BY <1>5, <2>1
  <1>7. ASSUME NEW r \in Replicas, NEW i \in Jobs, TakeJob(r, i) \/ Dispatch(r, i) \/ AttemptFails(r, i)
        PROVE  Kept
    <2>1. \E record : Becomes(i, record)
      BY <1>7 DEF TakeJob, Dispatch, AttemptFails, CreateNotice, NoAddress, ToTheCatch, Send, MarkSent,
         MarkFailed
    <2>2. CASE i # j
      BY <1>0, <2>1, <2>2 DEF Becomes
    <2>3. ASSUME NEW record \in Job, Becomes(j, record), record.to = job[j].to,
                 record.window = job[j].window
          PROVE  Kept
      BY <1>0, <2>3 DEF Becomes
    <2>4. CASE TakeJob(r, j)
      <3>1. PICK y \in Job : /\ y.to = job[j].to /\ y.window = job[j].window
                             /\ Becomes(j, From(1, y))
        <4>1. InState(j, "waiting")
          BY <2>4 DEF TakeJob
        <4>2. PICK y \in Job :
                /\ y = Taken(r, j)
                /\ y.to = job[j].to /\ y.window = job[j].window
          BY <4>1, TakenFields
        <4>3. Becomes(j, From(1, y))
          BY <2>4, <4>2 DEF TakeJob
        <4> QED BY <4>2, <4>3
      <3>2. 1 \in Nat \ {0}
        OBVIOUS
      <3> QED BY <2>3, <3>1, <3>2, FromFields
    <2>5. CASE j \in WorkedBy(r) /\ Becomes(j, GoesOn(j))
      <3>1. job[j].channel + 1 \in Nat \ {0}
        BY <2>5, AtWork
      <3> QED BY <1>0, <2>3, <2>5, <3>1, FromFields DEF GoesOn
    <2>6. ASSUME NEW step, Becomes(j, [job[j] EXCEPT !.step = step]) PROVE Kept
      <3>1. job'[j] = [job[j] EXCEPT !.step = step]
        BY <1>0, <2>6 DEF Becomes
      <3> QED BY <1>0, <3>1 DEF Job
    <2>7. ASSUME Becomes(j, AfterFailure(j)) PROVE Kept
      <3>1. \E s : job'[j] = Ended(job[j], s)
        BY <1>0, <2>7 DEF Becomes, AfterFailure
      <3> QED BY <1>5, <3>1
    <2>8. CASE Dispatch(r, j)
      BY <2>5, <2>6, <2>8 DEF Dispatch, CreateNotice, NoAddress, ToTheCatch, Send, MarkSent,
         MarkFailed, Doing
    <2>9. CASE AttemptFails(r, j)
      BY <2>7, <2>9 DEF AttemptFails
    <2> QED BY <1>7, <2>2, <2>4, <2>8, <2>9
  <1> QED BY <1>2, <1>3, <1>4, <1>6, <1>7 DEF Next

(* A run's own steps, by what they do to the windows ahead of it. *)
Early(stage) == stage \in {"overdue", "due today", "windows"}
Same(r) == cron'[r].today = cron[r].today /\ cron'[r].windows = cron[r].windows
NextWindow(r) ==
  /\ cron[r].windows # <<>> /\ cron'[r].windows = Tail(cron[r].windows)
  /\ cron'[r].today = cron[r].today
Marks(r) == Early(cron[r].at) /\ Early(cron'[r].at) /\ Same(r)
Finds(r) ==
  /\ Early(cron[r].at) /\ At(r, "enqueuing")' /\ Same(r)
  /\ cron[r].windows # <<>> /\ Falls(cron[r].today, Head(cron[r].windows))
  /\ cron'[r].to = active
Skips(r) ==
  /\ Early(cron[r].at) /\ Early(cron'[r].at) /\ NextWindow(r)
  /\ \A o \in owed : o[2] = Head(cron[r].windows) /\ Falls(cron[r].today, o[2]) => o \in excused'
Takes(r) ==
  /\ At(r, "enqueuing") /\ At(r, "enqueuing")' /\ Same(r)
  /\ \E w \in cron[r].to :
       /\ cron'[r].to = cron[r].to \ {w}
       /\ \/ <<w, Head(cron[r].windows)>> \in excused'
          \/ \E j \in Jobs : Enqueue(r, w, j)
Finishes(r) == At(r, "enqueuing") /\ cron[r].to = {} /\ Early(cron'[r].at) /\ NextWindow(r)
Rests(r) == Early(cron[r].at) /\ cron[r].windows = <<>> /\ cron'[r] = NoRun

LEMMA RunCases ==
  ASSUME IInv, NEW r \in Replicas, Scheduled(r)
  PROVE  Marks(r) \/ Finds(r) \/ Skips(r) \/ Takes(r) \/ Finishes(r) \/ Rests(r)
  <1>1. cron[r] \in Run /\ (At(r, "enqueuing") => cron[r].windows # <<>>)
    BY RunFacts
  <1>2. \A run : Runs(r, run) => cron'[r] = run
    BY OwnRun
  <1>3. ASSUME MarkOverdue(r) \/ MarkDueToday(r) \/ StatusesFail(r)
        PROVE  Marks(r)
    <2>1. PICK stage \in {"due today", "windows"} : cron'[r] = [cron[r] EXCEPT !.at = stage]
      BY <1>2, <1>3 DEF MarkOverdue, MarkDueToday, StatusesFail, At
    <2>2. Early(cron[r].at)
      BY <1>3 DEF MarkOverdue, MarkDueToday, StatusesFail, At, Early
    <2>3. Early(stage)
      BY DEF Early
    <2> QED BY <1>1, <2>1, <2>2, <2>3 DEF Marks, Same, Run
  <1>4. ASSUME Runs(r, [cron[r] EXCEPT !.windows = Tail(@)]), At(r, "windows"),
               cron[r].windows # <<>>,
               \A o \in owed : o[2] = Head(cron[r].windows) /\ Falls(cron[r].today, o[2]) => o \in excused'
        PROVE  Skips(r)
    <2>1. cron'[r] = [cron[r] EXCEPT !.windows = Tail(cron[r].windows)]
      BY <1>2, <1>4
    <2>2. /\ cron'[r].at = cron[r].at /\ cron'[r].today = cron[r].today
          /\ cron'[r].windows = Tail(cron[r].windows)
      BY <1>1, <2>1 DEF Run
    <2>3. Early(cron[r].at)
      BY <1>4 DEF Early, At
    <2> QED BY <1>4, <2>2, <2>3 DEF Skips, NextWindow
  <1>5. ASSUME FindWindow(r) PROVE Finds(r) \/ Skips(r)
    <2>1. At(r, "windows") /\ cron[r].windows # <<>>
      BY <1>5 DEF FindWindow
    <2>2. CASE ExactDay(cron[r].today, Head(cron[r].windows)) /\ Open
      <3>1. cron'[r] = [cron[r] EXCEPT !.at = "enqueuing", !.to = active]
        BY <1>2, <1>5, <2>2 DEF FindWindow, At
      <3>2. /\ cron'[r].at = "enqueuing" /\ cron'[r].today = cron[r].today
            /\ cron'[r].windows = cron[r].windows /\ cron'[r].to = active
        BY <1>1, <3>1 DEF Run
      <3> QED BY <2>1, <2>2, <3>2 DEF Finds, Same, ExactDay, At, Early
    <2>3. CASE ~(ExactDay(cron[r].today, Head(cron[r].windows)) /\ Open)
      <3>1. Runs(r, [cron[r] EXCEPT !.windows = Tail(@)])
        BY <1>5, <2>3 DEF FindWindow, At
      <3>2. excused' = IF Open THEN excused ELSE owed
        BY <1>5 DEF FindWindow, At
      <3> QED BY <1>4, <2>1, <2>3, <3>1, <3>2 DEF ExactDay
    <2> QED BY <2>2, <2>3
  <1>6. ASSUME WindowFails(r) PROVE Skips(r)
    <2>1. /\ At(r, "windows") /\ cron[r].windows # <<>>
          /\ Runs(r, [cron[r] EXCEPT !.windows = Tail(@)])
          /\ excused' = excused \cup {o \in owed : o[2] = Head(cron[r].windows)}
      BY <1>6 DEF WindowFails
    <2> QED BY <1>4, <2>1
  <1>7. ASSUME NEW w \in RoleRows, EnqueueFails(r, w) PROVE Takes(r)
    <2>1. /\ At(r, "enqueuing") /\ w \in cron[r].to
          /\ cron'[r] = [cron[r] EXCEPT !.to = cron[r].to \ {w}]
          /\ <<w, Head(cron[r].windows)>> \in excused'
      BY <1>2, <1>7 DEF EnqueueFails, TheOthers
    <2>2. /\ cron'[r].at = cron[r].at /\ Same(r) /\ cron'[r].to = cron[r].to \ {w}
      BY <1>1, <2>1 DEF Run, Same
    <2> QED BY <2>1, <2>2 DEF Takes, At
  <1>8. ASSUME NEW w \in RoleRows, NEW j \in Jobs, Enqueue(r, w, j) PROVE Takes(r)
    <2>1. /\ At(r, "enqueuing") /\ w \in cron[r].to
          /\ cron'[r] = [cron[r] EXCEPT !.to = cron[r].to \ {w}]
      BY <1>2, <1>8 DEF Enqueue
    <2>2. /\ cron'[r].at = cron[r].at /\ Same(r) /\ cron'[r].to = cron[r].to \ {w}
      BY <1>1, <2>1 DEF Run, Same
    <2> QED BY <1>8, <2>1, <2>2 DEF Takes, At
  <1>9. ASSUME WindowDone(r) PROVE Finishes(r)
    <2>1. /\ At(r, "enqueuing") /\ cron[r].to = {}
          /\ cron'[r] = [cron[r] EXCEPT !.at = "windows", !.windows = Tail(cron[r].windows)]
      BY <1>2, <1>9 DEF WindowDone
    <2>2. /\ cron'[r].at = "windows" /\ cron'[r].today = cron[r].today
          /\ cron'[r].windows = Tail(cron[r].windows)
      BY <1>1, <2>1 DEF Run
    <2> QED BY <1>1, <2>1, <2>2 DEF Finishes, NextWindow, Early
  <1>10. ASSUME RunDone(r) PROVE Rests(r)
    BY <1>2, <1>10 DEF RunDone, Rests, At, Early
  <1> QED BY <1>3, <1>5, <1>6, <1>7, <1>8, <1>9, <1>10 DEF Scheduled

(* Where a run can be: each step's own way on. *)
LEMMA Stages ==
  /\ ~Early("idle") /\ ~Early("enqueuing")
  /\ \A r \in Replicas : Early(cron[r].at) => ~At(r, "idle") /\ ~At(r, "enqueuing")
  BY DEF Early, At

LEMMA FireRun ==
  ASSUME IInv, NEW r \in Replicas, Fire(r)
  PROVE  /\ At(r, "idle") /\ fired[r] < day /\ fired'[r] = day /\ Early(cron'[r].at)
         /\ cron'[r].today = day /\ cron'[r].windows = Windows
  <1> DEFINE run == [at |-> "overdue", today |-> day, windows |-> Windows, to |-> {}]
  <1>1. /\ At(r, "idle") /\ fired[r] < day /\ Runs(r, run) /\ fired' = [fired EXCEPT ![r] = day]
    BY DEF Fire
  <1>2. cron'[r] = run /\ fired'[r] = day
    BY <1>1, OwnRun DEF IInv, CronSound
  <1> QED BY <1>1, <1>2 DEF Early

LEMMA CrashRun ==
  ASSUME IInv, NEW r \in Replicas, Crash(r)
  PROVE  At(r, "idle")' /\ cron'[r].windows = <<>> /\ fired'[r] = fired[r]
  BY OwnRun DEF Crash, NoRun, At

LEMMA WindowsStaySound == IInv /\ WindowsSound /\ [Next]_vars => WindowsSound'
  <1> SUFFICES ASSUME IInv, WindowsSound, [Next]_vars, NEW r \in Replicas
               PROVE  /\ \A i, k \in DOMAIN cron'[r].windows :
                           cron'[r].windows[i] = cron'[r].windows[k] => i = k
                      /\ At(r, "enqueuing")' => Falls(cron'[r].today, Head(cron'[r].windows))
    BY DEF WindowsSound
  <1>1. /\ \A i, k \in DOMAIN cron[r].windows : cron[r].windows[i] = cron[r].windows[k] => i = k
        /\ At(r, "enqueuing") => Falls(cron[r].today, Head(cron[r].windows))
        /\ cron[r].windows \in Seq(WindowSet)
    BY RunFacts DEF WindowsSound
  <1>2. CASE cron'[r] = cron[r]
    BY <1>1, <1>2 DEF At
  <1>3. CASE Fire(r)
    <2>1. Early(cron'[r].at) /\ cron'[r].windows = Windows
      BY <1>3, FireRun
    <2> QED BY <2>1, ListsAssumption DEF Early, At
  <1>4. CASE Crash(r)
    BY <1>4, CrashRun DEF At
  <1>5. CASE NextWindow(r) /\ ~At(r, "enqueuing")'
    BY <1>1, <1>5, TailFacts DEF NextWindow
  <1>6. CASE Same(r) /\ (At(r, "enqueuing")' => At(r, "enqueuing") \/ Finds(r))
    BY <1>1, <1>6 DEF Same, Finds
  <1>7. CASE Rests(r)
    BY <1>7 DEF Rests, NoRun, At
  <1>8. CASE Marks(r) \/ Skips(r) \/ Finishes(r)
    <2>1. Early(cron'[r].at) /\ (Same(r) \/ NextWindow(r))
      BY <1>8 DEF Marks, Skips, Finishes
    <2>2. ~At(r, "enqueuing")'
      BY <2>1 DEF Early, At
    <2> QED BY <1>5, <1>6, <2>1, <2>2
  <1>9. CASE Finds(r) \/ Takes(r)
    BY <1>6, <1>9 DEF Finds, Takes
  <1> QED BY <1>2, <1>3, <1>4, <1>7, <1>8, <1>9, RunMoves, RunCases

LEMMA OwedMoves ==
  ASSUME IInv, [Next]_vars
  PROVE  /\ active' = active /\ owed \cap excused \subseteq excused'
         /\ owed' = owed \/ \E r \in Replicas : Fire(r)
  <1> DEFINE Kept == active' = active /\ owed \cap excused \subseteq excused' /\ owed' = owed
  <1>1. ASSUME UNCHANGED <<people, account>> PROVE Kept
    BY <1>1 DEF people, account
  <1>2. CASE UNCHANGED vars \/ Tick
    BY <1>1, <1>2 DEF vars, Tick
  <1>3. ASSUME NEW p \in Choices, SetPreference(p[1], p[2]) PROVE Kept
    BY <1>3 DEF SetPreference, account
  <1>4. ASSUME NEW r \in Replicas, Scheduled(r) PROVE Kept
    BY <1>4, ScheduledEffects DEF people
  <1>5. ASSUME NEW r \in Replicas, Crash(r) PROVE Kept
    BY <1>5 DEF Crash, people
  <1>6. ASSUME NEW r \in Replicas, Fire(r) PROVE active' = active /\ owed \cap excused \subseteq excused'
    BY <1>6 DEF Fire, people, At
  <1>7. ASSUME NEW r \in Replicas, NEW j \in Jobs, TakeJob(r, j) \/ Dispatch(r, j) \/ AttemptFails(r, j)
        PROVE  Kept
    <2>1. UNCHANGED <<people, account>>
      BY <1>7 DEF TakeJob, Dispatch, AttemptFails, CreateNotice, NoAddress, ToTheCatch, Send, MarkSent,
         MarkFailed
    <2> QED BY <1>1, <2>1
  <1> QED BY <1>2, <1>3, <1>4, <1>5, <1>6, <1>7 DEF Next

LEMMA HasKept ==
  ASSUME IInv, [Next]_vars, NEW o, o[1][1] \in Users, Has(o)
  PROVE  Has(o)'
  <1>1. PICK j \in Jobs : job[j].to = o[1][1] /\ job[j].window = o[2]
    BY DEF Has
  <1>2. ASSUME NEW r \in Replicas, NEW w \in RoleRows, Enqueue(r, w, j) PROVE FALSE
    <2>1. job[j].state = "none" /\ JobSound(j)
      BY <1>2 DEF Enqueue, At, InState, IInv, JobOk
    <2>2. job[j].to = None
      BY <2>1 DEF JobSound, InState, NoJob
    <2> QED BY <1>1, <2>2, NamesAssumption
  <1>3. job'[j].to = job[j].to /\ job'[j].window = job[j].window
    BY <1>2, AddressKept
  <1> QED BY <1>1, <1>3 DEF Has

(* Enqueued, the reminder is there. *)
LEMMA Enqueued ==
  ASSUME IInv, NEW r \in Replicas, NEW w \in RoleRows, NEW j \in Jobs, Enqueue(r, w, j)
  PROVE  /\ job'[j].to = w[1] /\ job'[j].window = Head(cron[r].windows)
         /\ job[j].to = None /\ \A i \in Jobs : i # j => job'[i] = job[i]
  <1>1. At(r, "enqueuing") /\ job' = [job EXCEPT ![j] = Reminder(w[1], Head(cron[r].windows))]
    BY DEF Enqueue
  <1>2. Head(cron[r].windows) \in WindowSet /\ w[1] \in Users
    BY <1>1, RunFacts, HeadAndTail DEF Users
  <1>3. \A x : x = Reminder(w[1], Head(cron[r].windows)) =>
          x.to = w[1] /\ x.window = Head(cron[r].windows)
    BY <1>2, ReminderFields
  <1>4. job[j].state = "none" /\ JobSound(j)
    BY DEF Enqueue, At, InState, IInv, JobOk
  <1>5. job[j].to = None
    BY <1>4 DEF JobSound, InState, NoJob
  <1> QED BY <1>1, <1>3, <1>5 DEF IInv, Shape

LEMMA AheadKept ==
  ASSUME IInv, [Next]_vars, NEW r \in Replicas, NEW o \in owed, o \in active \X WindowSet,
         Ahead(r, o)
  PROVE  Ahead(r, o)' \/ o \in excused' \/ Has(o)'
  <1> DEFINE n == o[2]
             ahead == cron[r].windows
  <1>1. \/ Early(cron[r].at) /\ Falls(cron[r].today, n) /\ IsIn(n, ahead)
        \/ /\ At(r, "enqueuing")
           /\ \/ n = Head(ahead) /\ o[1] \in cron[r].to
              \/ Falls(cron[r].today, n) /\ IsIn(n, Tail(ahead))
    BY DEF Ahead, Early
  <1>2. /\ ahead \in Seq(WindowSet) /\ (At(r, "enqueuing") => ahead # <<>>)
        /\ ahead # <<>> => \/ ~IsIn(n, ahead) \/ n = Head(ahead) \/ IsIn(n, Tail(ahead))
        /\ ahead = <<>> => ~IsIn(n, ahead)
    <2>1. ahead \in Seq(WindowSet) /\ (At(r, "enqueuing") => ahead # <<>>)
      BY RunFacts
    <2>2. ahead # <<>> => \/ ~IsIn(n, ahead) \/ n = Head(ahead) \/ IsIn(n, Tail(ahead))
      BY <2>1, TailFacts
    <2>3. ~IsIn(n, <<>>)
      BY DEF IsIn
    <2> QED BY <2>1, <2>2, <2>3
  <1>3. ~At(r, "idle") /\ (Early(cron[r].at) => ~At(r, "enqueuing"))
    BY <1>1 DEF Early, At
  <1>4. CASE cron'[r] = cron[r]
    BY <1>4 DEF Ahead, At
  <1>5. ~Fire(r)
    BY <1>3 DEF Fire, At
  <1>6. CASE Crash(r)
    BY <1>3, <1>6 DEF Crash, At
  <1>7. Early(cron'[r].at) /\ Falls(cron'[r].today, n) /\ IsIn(n, cron'[r].windows) => Ahead(r, o)'
    BY DEF Ahead, Early
  <1>8. At(r, "enqueuing")' /\ n = Head(cron'[r].windows) /\ o[1] \in cron'[r].to => Ahead(r, o)'
    BY DEF Ahead
  <1>9. At(r, "enqueuing")' /\ Falls(cron'[r].today, n) /\ IsIn(n, Tail(cron'[r].windows)) => Ahead(r, o)'
    BY DEF Ahead
  <1>10. CASE Marks(r)
    BY <1>1, <1>3, <1>7, <1>10 DEF Marks, Same
  <1>11. CASE Finds(r)
    <2>1. o[1] \in cron'[r].to
      BY <1>11 DEF Finds
    <2> QED BY <1>1, <1>2, <1>3, <1>8, <1>9, <1>11, <2>1 DEF Finds, Same
  <1>12. CASE Skips(r)
    BY <1>1, <1>2, <1>3, <1>7, <1>12 DEF Skips, NextWindow
  <1>13. CASE Takes(r)
    <2>1. PICK w \in cron[r].to :
            /\ cron'[r].to = cron[r].to \ {w}
            /\ <<w, Head(ahead)>> \in excused' \/ \E j \in Jobs : Enqueue(r, w, j)
      BY <1>13 DEF Takes
    <2>2. At(r, "enqueuing") /\ At(r, "enqueuing")' /\ Same(r)
      BY <1>13 DEF Takes
    <2>3. CASE n = Head(ahead) /\ o[1] = w
      <3>1. o = <<w, Head(ahead)>>
        BY <2>3
      <3>2. w \in RoleRows
        BY RunFacts DEF IInv, Shape
      <3>3. ASSUME NEW j \in Jobs, Enqueue(r, w, j) PROVE Has(o)'
        BY <2>3, <3>2, <3>3, Enqueued DEF Has
      <3> QED BY <2>1, <3>1, <3>3
    <2> QED BY <1>1, <1>3, <1>8, <1>9, <2>1, <2>2, <2>3 DEF Same
  <1>14. CASE Finishes(r)
    BY <1>1, <1>3, <1>7, <1>14 DEF Finishes, NextWindow
  <1>15. ~Rests(r)
    BY <1>1, <1>2, <1>3 DEF Rests
  <1> QED BY <1>4, <1>5, <1>6, <1>10, <1>11, <1>12, <1>13, <1>14, <1>15, RunMoves, RunCases

LEMMA StepKeepsOwed == IInv /\ OwedComes /\ [Next]_vars => OwedComes'
  <1> SUFFICES ASSUME IInv, OwedComes, [Next]_vars PROVE OwedComes'
    OBVIOUS
  <1>1. active' = active /\ active \subseteq RoleRows /\ owed \subseteq active \X WindowSet
    BY OwedMoves DEF IInv, Shape, OwedComes
  <1>2. ASSUME NEW o \in owed, o \notin excused'
        PROVE  Has(o)' \/ \E r \in Replicas : Ahead(r, o)'
    <2>1. o \in active \X WindowSet /\ o[1][1] \in Users
      BY <1>1 DEF Users
    <2>2. o \notin excused
      BY <1>2, OwedMoves
    <2>3. Has(o) \/ \E r \in Replicas : Ahead(r, o)
      BY <2>2 DEF OwedComes
    <2> QED BY <1>2, <2>1, <2>3, HasKept, AheadKept
  <1>3. CASE owed' = owed
    BY <1>1, <1>2, <1>3 DEF OwedComes
  <1>4. ASSUME NEW r \in Replicas, Fire(r) PROVE OwedComes'
    <2>1. owed' = owed \cup {<<w, n>> : w \in active, n \in {k \in WindowSet : Falls(day, k)}}
      BY <1>4 DEF Fire, At
    <2>2. owed' \subseteq active' \X WindowSet
      BY <1>1, <2>1
    <2>3. ASSUME NEW o \in owed', o \notin owed PROVE Ahead(r, o)'
      <3>1. o[2] \in WindowSet /\ Falls(day, o[2])
        BY <2>1, <2>3
      <3>2. IsIn(o[2], Windows)
        BY <3>1 DEF WindowSet, IsIn
      <3>3. Early(cron'[r].at) /\ cron'[r].today = day /\ cron'[r].windows = Windows
        BY <1>4, FireRun
      <3> QED BY <3>1, <3>2, <3>3 DEF Ahead, Early
    <2> QED BY <1>2, <2>2, <2>3 DEF OwedComes
  <1> QED BY <1>3, <1>4, OwedMoves

-----------------------------------------------------------------------------
(* One reminder at most for a role row, a window and a replica *)

LEMMA BehindKept ==
  ASSUME IInv, WindowsSound, [Next]_vars, NEW w \in RoleRows, NEW r \in Replicas,
         NEW n \in WindowSet, Behind(w, r, n)
  PROVE  Behind(w, r, n)'
  <1> DEFINE ahead == cron[r].windows
  <1>1. /\ fired[r] \in Nat /\ day \in Nat /\ n \in Nat /\ Due \in Nat
        /\ ahead \in Seq(WindowSet)
    BY RunFacts, DayFacts, ListsAssumption
  <1>2. CASE Fire(r)
    <2>1. fired'[r] = day /\ fired[r] < day
      BY <1>2, FireRun
    <2>2. Due <= fired[r] + n
      BY <1>1 DEF Behind
    <2>3. Due < fired'[r] + n
      BY <1>1, <2>1, <2>2
    <2> QED BY <2>3 DEF Behind
  <1>3. CASE cron'[r] = cron[r] /\ fired'[r] = fired[r]
    BY <1>3 DEF Behind, At
  <1>4. CASE Crash(r)
    <2>1. At(r, "idle")' /\ fired'[r] = fired[r]
      BY <1>4, CrashRun
    <2> QED BY <2>1 DEF Behind
  <1>5. CASE Scheduled(r)
    <2>1. fired'[r] = fired[r]
      BY <1>5, ScheduledEffects
    <2>2. CASE Due < fired[r] + n
      BY <2>1, <2>2 DEF Behind
    <2>3. CASE Due # fired[r] + n
      BY <2>1, <2>2, <2>3 DEF Behind
    <2>4. ASSUME Due = fired[r] + n, ~IsIn(n, cron'[r].windows) PROVE Behind(w, r, n)'
      BY <2>1, <2>4 DEF Behind
    <2>5. CASE Due = fired[r] + n /\ ~IsIn(n, ahead)
      <3>1. CASE Same(r)
        BY <2>4, <2>5, <3>1 DEF Same
      <3>2. CASE NextWindow(r)
        BY <1>1, <2>4, <2>5, <3>2, TailFacts DEF NextWindow
      <3>3. CASE Rests(r)
        <4>1. At(r, "idle")'
          BY <3>3 DEF Rests, NoRun, At
        <4> QED BY <2>1, <2>5, <4>1 DEF Behind
      <3> QED BY <1>5, <3>1, <3>2, <3>3, RunCases DEF Marks, Finds, Skips, Takes, Finishes
    <2>6. CASE Due = fired[r] + n /\ At(r, "enqueuing") /\ n = Head(ahead) /\ w \notin cron[r].to
      <3>1. ahead # <<>>
        BY <2>6, RunFacts
      <3>2. CASE Takes(r)
        <4>1. At(r, "enqueuing")' /\ Same(r) /\ w \notin cron'[r].to
          BY <2>6, <3>2 DEF Takes
        <4> QED BY <2>1, <2>6, <4>1 DEF Behind, Same
      <3>3. CASE Finishes(r)
        <4>1. ~IsIn(n, Tail(ahead))
          BY <1>1, <2>6, <3>1, TailFacts DEF WindowsSound
        <4> QED BY <2>4, <2>6, <3>3, <4>1 DEF Finishes, NextWindow
      <3>4. ~Early(cron[r].at)
        BY <2>6 DEF Early, At
      <3> QED BY <1>5, <3>2, <3>3, <3>4, RunCases DEF Marks, Finds, Skips, Rests
    <2>7. CASE At(r, "idle")
      <3>1. ~Early(cron[r].at) /\ ~At(r, "enqueuing")
        BY <2>7 DEF Early, At
      <3> QED BY <1>5, <3>1, RunCases DEF Marks, Finds, Skips, Takes, Finishes, Rests
    <2> QED BY <2>2, <2>3, <2>5, <2>6, <2>7 DEF Behind
  <1> QED BY <1>2, <1>3, <1>4, <1>5, RunMoves

(* Enqueueing puts the row behind the run, for the window at hand. *)
LEMMA EnqueueBehind ==
  ASSUME IInv, WindowsSound, NEW r \in Replicas, NEW w \in RoleRows, NEW j \in Jobs,
         Enqueue(r, w, j), NEW n, n = Head(cron[r].windows)
  PROVE  ~Behind(w, r, n) /\ Behind(w, r, n)'
  <1>1. At(r, "enqueuing") /\ w \in cron[r].to /\ Runs(r, [cron[r] EXCEPT !.to = @ \ {w}])
    BY DEF Enqueue
  <1>2. /\ cron[r] \in Run /\ cron[r].windows \in Seq(WindowSet) /\ cron[r].windows # <<>>
        /\ fired[r] \in Nat /\ cron[r].today = fired[r] /\ n \in Nat
    <2>1. cron[r].windows # <<>> /\ cron[r].at # "idle"
      BY <1>1, RunFacts DEF At
    <2> QED BY <2>1, RunFacts, HeadAndTail, ListsAssumption
  <1>3. Due = fired[r] + n
    BY <1>1, <1>2 DEF WindowsSound, Falls
  <1>4. cron'[r] = [cron[r] EXCEPT !.to = cron[r].to \ {w}] /\ fired'[r] = fired[r]
    BY <1>1, OwnRun DEF Enqueue
  <1>5. /\ cron'[r].at = cron[r].at /\ cron'[r].windows = cron[r].windows
        /\ w \notin cron'[r].to
    BY <1>2, <1>4 DEF Run
  <1>6. ~(Due < fired[r] + n)
    BY <1>2, <1>3
  <1>7. IsIn(n, cron[r].windows)
    BY <1>2, TailFacts
  <1>8. ~At(r, "idle")
    BY <1>1 DEF At
  <1>9. ~Behind(w, r, n)
    BY <1>1, <1>6, <1>7, <1>8 DEF Behind
  <1>10. At(r, "enqueuing")' /\ Due = fired'[r] + n
    BY <1>1, <1>3, <1>4, <1>5 DEF At
  <1>11. Behind(w, r, n)'
    BY <1>5, <1>10 DEF Behind
  <1> QED BY <1>9, <1>11

LEMMA StepKeepsOrigins == IInv /\ WindowsSound /\ OnePerOrigin /\ [Next]_vars => OnePerOrigin'
  <1> SUFFICES ASSUME IInv, WindowsSound, OnePerOrigin, [Next]_vars,
                      NEW u \in Users, NEW n \in WindowSet
               PROVE  \E f \in [Of(u, n)' -> Origins(u, n)] :
                        /\ \A i, j \in Of(u, n)' : f[i] = f[j] => i = j
                        /\ \A j \in Of(u, n)' : Behind(f[j][1], f[j][2], n)'
    BY DEF OnePerOrigin, Origins
  <1>1. PICK f \in [Of(u, n) -> Origins(u, n)] :
          /\ \A i, j \in Of(u, n) : f[i] = f[j] => i = j
          /\ \A j \in Of(u, n) : Behind(f[j][1], f[j][2], n)
    BY DEF OnePerOrigin
  <1>2. \A j \in Of(u, n) : f[j][1] \in RoleRows /\ f[j][2] \in Replicas
    BY DEF Origins
  <1>3. \A j \in Of(u, n) : Behind(f[j][1], f[j][2], n)'
    BY <1>1, <1>2, BehindKept
  <1>4. CASE Of(u, n)' = Of(u, n)
    BY <1>1, <1>3, <1>4
  <1>5. ASSUME NEW r \in Replicas, NEW w \in RoleRows, NEW j \in Jobs, Enqueue(r, w, j),
               Of(u, n)' # Of(u, n)
        PROVE  \E g \in [Of(u, n)' -> Origins(u, n)] :
                 /\ \A i, k \in Of(u, n)' : g[i] = g[k] => i = k
                 /\ \A i \in Of(u, n)' : Behind(g[i][1], g[i][2], n)'
    <2>1. /\ job'[j].to = w[1] /\ job'[j].window = Head(cron[r].windows)
          /\ job[j].to = None /\ \A i \in Jobs : i # j => job'[i] = job[i]
      BY <1>5, Enqueued
    <2>2. j \notin Of(u, n)
      BY <2>1, NamesAssumption DEF Of
    <2>3. u = w[1] /\ n = Head(cron[r].windows) /\ Of(u, n)' = Of(u, n) \cup {j}
      BY <1>5, <2>1, <2>2 DEF Of
    <2>4. ~Behind(w, r, n) /\ Behind(w, r, n)'
      BY <1>5, <2>3, EnqueueBehind
    <2>5. \A i \in Of(u, n) : f[i] # <<w, r>>
      BY <1>1, <2>4
    <2>6. <<w, r>> \in Origins(u, n)
      BY <2>3 DEF Origins
    <2>7. PICK g \in [Of(u, n)' -> Origins(u, n)] :
            g[j] = <<w, r>> /\ \A i \in Of(u, n) : g[i] = f[i]
      <3> DEFINE h == [i \in Of(u, n)' |-> IF i = j THEN <<w, r>> ELSE f[i]]
      <3>1. h[j] = <<w, r>> /\ \A i \in Of(u, n) : h[i] = f[i]
        BY <2>2, <2>3
      <3>2. h \in [Of(u, n)' -> Origins(u, n)]
        BY <2>3, <2>6
      <3> QED BY <3>1, <3>2
    <2>8. \A i, k \in Of(u, n)' : g[i] = g[k] => i = k
      BY <1>1, <2>3, <2>5, <2>7
    <2>9. \A i \in Of(u, n)' : Behind(g[i][1], g[i][2], n)'
      <3> SUFFICES ASSUME NEW i \in Of(u, n)' PROVE Behind(g[i][1], g[i][2], n)'
        OBVIOUS
      <3>1. CASE i = j
        BY <2>4, <2>7, <3>1
      <3>2. CASE i \in Of(u, n)
        BY <1>3, <2>7, <3>2
      <3> QED BY <2>3, <3>1, <3>2
    <2> QED BY <2>8, <2>9
  <1>6. ASSUME Of(u, n)' # Of(u, n)
        PROVE  \E r \in Replicas, w \in RoleRows, j \in Jobs : Enqueue(r, w, j)
    <2>1. PICK j \in Jobs : ~(job'[j].to = job[j].to /\ job'[j].window = job[j].window)
      BY <1>6 DEF Of
    <2> QED BY <2>1, AddressKept
  <1> QED BY <1>4, <1>5, <1>6

LEMMA OriginsBound ==
  ASSUME OnePerOrigin, NEW u \in Users, NEW n \in WindowSet
  PROVE  Cardinality(Of(u, n))
           <= Cardinality({w \in RoleRows : w[1] = u}) * Cardinality(Replicas)
  <1>1. PICK f \in [Of(u, n) -> Origins(u, n)] : \A i, j \in Of(u, n) : f[i] = f[j] => i = j
    BY DEF OnePerOrigin
  <1>2. f \in Injection(Of(u, n), Origins(u, n))
    BY <1>1 DEF Injection, IsInjective
  <1>3. IsFiniteSet({w \in RoleRows : w[1] = u}) /\ IsFiniteSet(Replicas)
    BY FinitenessAssumption, FS_Subset
  <1>4. /\ IsFiniteSet(Origins(u, n))
        /\ Cardinality(Origins(u, n))
             = Cardinality({w \in RoleRows : w[1] = u}) * Cardinality(Replicas)
    BY <1>3, FS_Product DEF Origins
  <1> QED BY <1>2, <1>4, FS_Injection

LEMMA RInvSuffices == RInv => RemindersAreOwed
  <1> SUFFICES ASSUME RInv PROVE RemindersAreOwed
    OBVIOUS
  <1>1. ASSUME Firing = {}, NEW o \in owed \ excused
        PROVE  \E j \in Jobs : job[j].to = o[1][1] /\ job[j].window = o[2]
    <2>1. \A r \in Replicas : At(r, "idle")
      BY <1>1 DEF Firing
    <2>2. \A r \in Replicas : ~Ahead(r, o)
      BY <2>1 DEF Ahead, At
    <2> QED BY <2>2 DEF RInv, OwedComes, Has
  <1>2. \A u \in Users, n \in WindowSet :
          Cardinality({j \in Jobs : job[j].to = u /\ job[j].window = n})
            <= Cardinality({w \in RoleRows : w[1] = u}) * Cardinality(Replicas)
    BY OriginsBound DEF RInv, Of
  <1> QED BY <1>1, <1>2 DEF RemindersAreOwed

LEMMA InitRInv == Init => RInv
  <1> SUFFICES ASSUME Init PROVE RInv
    OBVIOUS
  <1>1. IInv
    BY InitIInv
  <1>2. \A r \in Replicas : cron[r] = NoRun
    BY DEF Init
  <1>3. WindowsSound
    BY <1>2 DEF WindowsSound, NoRun, At
  <1>4. OwedComes
    BY DEF Init, OwedComes
  <1>5. \A u \in Users, n \in WindowSet : Of(u, n) = {}
    BY NamesAssumption DEF Init, Of, NoJob
  <1>6. OnePerOrigin
    <2> SUFFICES ASSUME NEW u \in Users, NEW n \in WindowSet, Of(u, n) = {}
                 PROVE  \E f \in [Of(u, n) -> Origins(u, n)] :
                          /\ \A i, j \in Of(u, n) : f[i] = f[j] => i = j
                          /\ \A j \in Of(u, n) : Behind(f[j][1], f[j][2], n)
      BY <1>5 DEF OnePerOrigin
    <2>1. [j \in Of(u, n) |-> j] \in [Of(u, n) -> Origins(u, n)]
      OBVIOUS
    <2> QED BY <2>1
  <1> QED BY <1>1, <1>3, <1>4, <1>6 DEF RInv

(* DeadlineReminderJob.run: whoever was on the company's staff when the job of the
   day fired has a reminder, unless this recipient's enqueueing, this window or
   the whole replica failed; and no role row gets more than one per window and
   replica, however many days the job fires. *)
THEOREM RemindersComeOnce == Spec => []RemindersAreOwed
  <1>1. RInv /\ [Next]_vars => RInv'
    BY StepKeepsIInv, WindowsStaySound, StepKeepsOwed, StepKeepsOrigins DEF RInv
  <1> QED BY <1>1, InitRInv, RInvSuffices, PTL DEF Spec

=============================================================================
