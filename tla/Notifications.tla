---------------------------- MODULE Notifications ----------------------------
(***************************************************************************)
(* Reminders of one filing deadline, from the daily job to the channels:    *)
(* DeadlineReminderJob, the notification-dispatch queue and its processor,  *)
(* NotificationsService.                                                    *)
(*                                                                          *)
(* Every replica of the worker fires the job each day.  The job looks at    *)
(* one window after the other, and enqueues one reminder for each active    *)
(* role row of the company.  Dispatching a reminder goes through the        *)
(* channels, for each a row created, a message sent and the row updated; an *)
(* attempt that fails in between is made again from the first channel.      *)
(*                                                                          *)
(* A delivery is counted; texts and addresses are left out, but not whether *)
(* there is an address.  A window's deadlines and their role rows are read  *)
(* at once.                                                                 *)
(***************************************************************************)
EXTENDS Naturals, Sequences, FiniteSets

CONSTANTS
  RoleRows,   \* rows of user_company_roles: <<user, role>>
  Channels,   \* in the order tried
  Reachable,  \* <<user, channel>> with an address; in_app needs none
  Windows,    \* days before the deadline, in the order looked at: 30, 14, 7, 3, 1
  Due,        \* the day of the deadline
  LastDay,    \* bound: the clock
  Replicas,   \* of the worker
  Jobs,       \* bound: reminders enqueued, numbered
  Choices,    \* bound: the preferences that change, <<user, channel>>
  Attempts,   \* attempts of a job: 3 in the code
  None

Users == {r[1] : r \in RoleRows}
ChannelSet == {Channels[k] : k \in DOMAIN Channels}
WindowSet == {Windows[k] : k \in DOMAIN Windows}

ASSUME NumbersAssumption == Attempts \in Nat \ {0} /\ Due \in Nat /\ LastDay \in Nat

ASSUME ListsAssumption ==
  /\ Channels \in Seq(ChannelSet) /\ \A i, k \in DOMAIN Channels : Channels[i] = Channels[k] => i = k
  /\ Windows \in Seq(WindowSet) /\ \A i, k \in DOMAIN Windows : Windows[i] = Windows[k] => i = k
  /\ WindowSet \subseteq Nat

ASSUME NamesAssumption ==
  /\ None \notin Users \cup {"queued", "sent", "failed"}
  /\ Choices \subseteq Users \X ChannelSet

ASSUME FinitenessAssumption == IsFiniteSet(RoleRows) /\ IsFiniteSet(Replicas) /\ IsFiniteSet(Jobs)

VARIABLES
  day,        \* the clock
  status,     \* filing_deadlines.status
  active,     \* the role rows that are active
  off,        \* <<user, channel>> disabled for filing deadlines
  cron,       \* the daily job of each replica
  fired,      \* the last day it fired
  job,        \* the jobs of the queue
  notice,     \* notifications.status of the rows of each job's last attempt
  delivered,  \* how often each job's message went out on a channel
  owed,       \* history: reminders the daily jobs that fired have to enqueue
  excused     \* history: those that a failure took away

calendar == <<day, status>>
people == <<active, off>>
schedule == <<cron, fired>>
dispatches == <<job, notice, delivered>>
account == <<owed, excused>>
vars == <<calendar, people, schedule, dispatches, account>>

-----------------------------------------------------------------------------
NoRun == [at |-> "idle", today |-> 0, windows |-> <<>>, to |-> {}]
At(r, stage) == cron[r].at = stage
Runs(r, run) == cron' = [cron EXCEPT ![r] = run]
Firing == {r \in Replicas : ~At(r, "idle")}

(* `by` is the replica at work on the job, `off` the preferences it has read,
   `channel` the one it is at, and `step` what it does next there.  History:
   `on` are the channels enabled at some moment since the job was enqueued. *)
NoJob == [state |-> "none", to |-> None, window |-> 0, tries |-> 0, by |-> None,
          off |-> {}, channel |-> 1, step |-> "create", on |-> {}]
InState(j, s) == job[j].state = s
WorkedBy(r) == {j \in Jobs : InState(j, "active") /\ job[j].by = r}
Enabled(u) == {c \in ChannelSet : <<u, c>> \notin off}

Init ==
  /\ day = 0 /\ status = "upcoming"
  /\ active \in SUBSET RoleRows
  /\ off = {}
  /\ cron = [r \in Replicas |-> NoRun] /\ fired = [r \in Replicas |-> 0]
  /\ job = [j \in Jobs |-> NoJob]
  /\ notice = [x \in Jobs \X ChannelSet |-> None]
  /\ delivered = [x \in Jobs \X ChannelSet |-> 0]
  /\ owed = {} /\ excused = {}

-----------------------------------------------------------------------------
(* The world around: the clock and the preferences; the staff stays *)

Tick ==
  /\ day < LastDay
  /\ day' = day + 1
  /\ UNCHANGED <<status, people, schedule, dispatches, account>>

(* setPreference *)
SetPreference(u, c) ==
  /\ off' = IF <<u, c>> \in off THEN off \ {<<u, c>>} ELSE off \cup {<<u, c>>}
  /\ job' = [j \in Jobs |-> IF job[j].to = u /\ <<u, c>> \in off
                            THEN [job[j] EXCEPT !.on = @ \cup {c}] ELSE job[j]]
  /\ UNCHANGED <<calendar, active, schedule, notice, delivered, account>>

-----------------------------------------------------------------------------
(* The daily job *)

(* A deadline is a date at midnight UTC, and the job's day begins at midnight where it
   runs.  In UTC, and east of it, the two fall on the same day; west of it a deadline
   would count as the day before's. *)
Falls(today, w) == Due = today + w
Open == status \in {"upcoming", "due_today"}

(* run, by each replica's own scheduler. *)
Fire(r) ==
  /\ At(r, "idle") /\ fired[r] < day
  /\ fired' = [fired EXCEPT ![r] = day]
  /\ Runs(r, [at |-> "overdue", today |-> day, windows |-> Windows, to |-> {}])
  /\ owed' = owed \cup {<<w, n>> : w \in active, n \in {k \in WindowSet : Falls(day, k)}}
  /\ UNCHANGED <<calendar, people, dispatches, excused>>

\* mutant: what is due on the day itself counts as past
PastOnTheDay(today) == Due <= today

Past(today) == Due < today

(* updateDeadlineStatuses, first update *)
MarkOverdue(r) ==
  /\ At(r, "overdue")
  /\ status' = IF Past(cron[r].today) /\ Open THEN "overdue" ELSE status
  /\ Runs(r, [cron[r] EXCEPT !.at = "due today"])
  /\ UNCHANGED <<day, people, fired, dispatches, account>>

(* ... and second *)
MarkDueToday(r) ==
  /\ At(r, "due today")
  /\ status' = IF Due = cron[r].today /\ status = "upcoming" THEN "due_today" ELSE status
  /\ Runs(r, [cron[r] EXCEPT !.at = "windows"])
  /\ UNCHANGED <<day, people, fired, dispatches, account>>

(* One phase's failure leaves the other alone. *)
StatusesFail(r) ==
  /\ At(r, "overdue") \/ At(r, "due today")
  /\ Runs(r, [cron[r] EXCEPT !.at = "windows"])
  /\ UNCHANGED <<calendar, people, fired, dispatches, account>>

ExactDay(today, w) == Falls(today, w)

(* sendRemindersForWindow: the deadlines of the day, and the company's people. *)
FindWindow(r) ==
  /\ At(r, "windows") /\ cron[r].windows # <<>>
  /\ Runs(r, IF ExactDay(cron[r].today, Head(cron[r].windows)) /\ Open
             THEN [cron[r] EXCEPT !.at = "enqueuing", !.to = active]
             ELSE [cron[r] EXCEPT !.windows = Tail(@)])
  /\ excused' = IF Open THEN excused ELSE owed
  /\ UNCHANGED <<calendar, people, fired, dispatches, owed>>

(* Its failure leaves the other windows alone. *)
WindowFails(r) ==
  /\ At(r, "windows") /\ cron[r].windows # <<>>
  /\ Runs(r, [cron[r] EXCEPT !.windows = Tail(@)])
  /\ excused' = excused \cup {o \in owed : o[2] = Head(cron[r].windows)}
  /\ UNCHANGED <<calendar, people, fired, dispatches, owed>>

Reminder(u, w) == [NoJob EXCEPT !.state = "waiting", !.to = u, !.window = w, !.on = Enabled(u)]

Enqueue(r, w, j) ==
  /\ At(r, "enqueuing") /\ w \in cron[r].to
  /\ InState(j, "none") /\ \A i \in Jobs : InState(i, "none") => j <= i
  /\ job' = [job EXCEPT ![j] = Reminder(w[1], Head(cron[r].windows))]
  /\ Runs(r, [cron[r] EXCEPT !.to = @ \ {w}])
  /\ UNCHANGED <<calendar, people, fired, notice, delivered, account>>

\* mutant: the first recipient whose reminder cannot be enqueued ends the window
NobodyElse(r, w) == {}

TheOthers(r, w) == cron[r].to \ {w}

(* One recipient's failure leaves the others alone. *)
EnqueueFails(r, w) ==
  /\ At(r, "enqueuing") /\ w \in cron[r].to
  /\ Runs(r, [cron[r] EXCEPT !.to = TheOthers(r, w)])
  /\ excused' = excused \cup {<<w, Head(cron[r].windows)>>}
  /\ UNCHANGED <<calendar, people, fired, dispatches, owed>>

WindowDone(r) ==
  /\ At(r, "enqueuing") /\ cron[r].to = {}
  /\ Runs(r, [cron[r] EXCEPT !.at = "windows", !.windows = Tail(@)])
  /\ UNCHANGED <<calendar, people, fired, dispatches, account>>

RunDone(r) ==
  /\ At(r, "windows") /\ cron[r].windows = <<>>
  /\ Runs(r, NoRun)
  /\ UNCHANGED <<calendar, people, fired, dispatches, account>>

Scheduled(r) ==
  \/ MarkOverdue(r) \/ MarkDueToday(r) \/ StatusesFail(r)
  \/ FindWindow(r) \/ WindowFails(r)
  \/ \E w \in RoleRows : EnqueueFails(r, w) \/ \E j \in Jobs : Enqueue(r, w, j)
  \/ WindowDone(r) \/ RunDone(r)

-----------------------------------------------------------------------------
(* The queue and dispatch *)

Now(j) == Channels[job[j].channel]
Becomes(j, record) == job' = [job EXCEPT ![j] = record]

Ended(record, s) == [record EXCEPT !.state = s, !.by = None, !.channel = 1, !.step = "create"]

(* The loop goes on with the next channel that is not disabled, if any. *)
From(k, record) ==
  LET left == {i \in k..Len(Channels) : Channels[i] \notin record.off}
  IN  IF left = {} THEN Ended(record, "done")
      ELSE [record EXCEPT !.step = "create",
                          !.channel = CHOOSE i \in left : \A n \in left : i <= n]
GoesOn(j) == From(job[j].channel + 1, job[j])
Notes(j, s) == notice' = [notice EXCEPT ![<<j, Now(j)>>] = s]
Doing(r, j, step) ==
  j \in WorkedBy(r) /\ job[j].step = step

\* mutant: the preferences are not read
NoneOff(u) == {}

DisabledFor(u) == {c \in ChannelSet : <<u, c>> \in off}

(* External: a worker has one job at a time.  The preferences are read first. *)
Taken(r, j) == [job[j] EXCEPT !.state = "active", !.tries = @ + 1, !.by = r,
                              !.off = DisabledFor(job[j].to)]
TakeJob(r, j) ==
  /\ WorkedBy(r) = {} /\ InState(j, "waiting")
  /\ Becomes(j, From(1, Taken(r, j)))
  /\ notice' = [x \in Jobs \X ChannelSet |-> IF x[1] = j THEN None ELSE notice[x]]
  /\ UNCHANGED <<calendar, people, schedule, delivered, account>>

CreateNotice(r, j) ==
  /\ Doing(r, j, "create")
  /\ Notes(j, "queued")
  /\ Becomes(j, [job[j] EXCEPT !.step = "send"])
  /\ UNCHANGED <<calendar, people, schedule, delivered, account>>

HasAddress(j) == Now(j) = "in_app" \/ <<job[j].to, Now(j)>> \in Reachable

(* An update that fails in the loop leaves it to the catch. *)
ToTheCatch(j) == UNCHANGED notice /\ Becomes(j, [job[j] EXCEPT !.step = "mark failed"])

NoAddress(r, j) ==
  /\ Doing(r, j, "send") /\ ~HasAddress(j)
  /\ (Notes(j, "failed") /\ Becomes(j, GoesOn(j))) \/ ToTheCatch(j)
  /\ UNCHANGED <<calendar, people, schedule, delivered, account>>

(* The channel's answer may be lost after the message went out. *)
Send(r, j) ==
  \E ok, out \in BOOLEAN :
    /\ Doing(r, j, "send") /\ HasAddress(j)
    /\ ok => out
    /\ delivered' = IF out THEN [delivered EXCEPT ![<<j, Now(j)>>] = @ + 1] ELSE delivered
    /\ Becomes(j, [job[j] EXCEPT !.step = IF ok THEN "mark sent" ELSE "mark failed"])
    /\ UNCHANGED <<calendar, people, schedule, notice, account>>

MarkSent(r, j) ==
  /\ Doing(r, j, "mark sent")
  /\ (Notes(j, "sent") /\ Becomes(j, GoesOn(j))) \/ ToTheCatch(j)
  /\ UNCHANGED <<calendar, people, schedule, delivered, account>>

\* mutant: what went wrong is only logged
OnlyLogged(r, j) ==
  /\ Doing(r, j, "mark failed")
  /\ Becomes(j, GoesOn(j))
  /\ UNCHANGED <<calendar, people, schedule, notice, delivered, account>>

(* The catch. *)
MarkFailed(r, j) ==
  /\ Doing(r, j, "mark failed")
  /\ Notes(j, "failed")
  /\ Becomes(j, GoesOn(j))
  /\ UNCHANGED <<calendar, people, schedule, delivered, account>>

\* mutant: a failed job is always tried again
AlwaysRetried(j) == Ended([job[j] EXCEPT !.tries = @ - 1], "waiting")

AfterFailure(j) ==
  Ended(job[j], IF job[j].tries < Attempts THEN "waiting" ELSE "failed")

(* External: an exception that leaves dispatch ends the attempt: of the query
   for preferences, of a create, and of the catch's own update. *)
AttemptFails(r, j) ==
  /\ j \in WorkedBy(r) /\ job[j].step \in {"create", "mark failed"}
  /\ Becomes(j, AfterFailure(j))
  /\ UNCHANGED <<calendar, people, schedule, notice, delivered, account>>

(* External: the replica dies anywhere; the queue counts it as a failed attempt. *)
Crash(r) ==
  /\ Runs(r, NoRun)
  /\ job' = [j \in Jobs |-> IF j \in WorkedBy(r) THEN AfterFailure(j) ELSE job[j]]
  /\ excused' = IF At(r, "idle") THEN excused ELSE owed
  /\ UNCHANGED <<calendar, people, fired, notice, delivered, owed>>

Dispatch(r, j) ==
  \/ CreateNotice(r, j) \/ NoAddress(r, j) \/ Send(r, j)
  \/ MarkSent(r, j) \/ MarkFailed(r, j)

Next ==
  \/ Tick
  \/ \E p \in Choices : SetPreference(p[1], p[2])
  \/ \E r \in Replicas : Fire(r) \/ Scheduled(r) \/ Crash(r)
  \/ \E r \in Replicas, j \in Jobs : TakeJob(r, j) \/ Dispatch(r, j) \/ AttemptFails(r, j)

(* A worker that is up keeps taking jobs and working on the one it has. *)
Work(r) == \E j \in Jobs : TakeJob(r, j) \/ Dispatch(r, j)
Fairness == \A r \in Replicas : WF_vars(Work(r))

Spec == Init /\ [][Next]_vars /\ Fairness

-----------------------------------------------------------------------------
(* Properties *)

TypeOK ==
  /\ day \in 0..LastDay /\ status \in {"upcoming", "due_today", "overdue"}
  /\ active \subseteq RoleRows /\ off \subseteq Users \X ChannelSet
  /\ \A j \in Jobs :
       /\ job[j].state \in {"none", "waiting", "active", "done", "failed"}
       /\ job[j].tries \in 0..Attempts
       /\ InState(j, "active") => job[j].by \in Replicas /\ job[j].tries > 0
  /\ \A r \in Replicas : Cardinality(WorkedBy(r)) <= 1

(* RELEASE.md: failures are "isolated per reminder window and per recipient".
   Whoever was on the company's staff when the job of the day fired has a
   reminder, unless it was this recipient's enqueueing, this window or the whole
   replica that failed. And however many days the job fires, a role row gets one
   reminder per window and replica. *)
RemindersAreOwed ==
  /\ Firing = {} =>
       \A o \in owed \ excused :
         \E j \in Jobs : job[j].to = o[1][1] /\ job[j].window = o[2]
  /\ \A u \in Users, n \in WindowSet :
       Cardinality({j \in Jobs : job[j].to = u /\ job[j].window = n})
         <= Cardinality({w \in RoleRows : w[1] = u}) * Cardinality(Replicas)

(* A channel that was disabled ever since a reminder was enqueued does not get
   it, through failed attempts, crashes and preferences changed under way. *)
OptOutHolds ==
  \A j \in Jobs, c \in ChannelSet : delivered[<<j, c>>] > 0 => c \in job[j].on

(* What the notifications page lists is so: a row marked sent went out, no more
   often than attempts were made; and a job that is done leaves no row of its
   last attempt undecided, and none out but for the channels disabled. *)
NoticesTell ==
  /\ TypeOK
  /\ \A j \in Jobs, c \in ChannelSet :
       /\ delivered[<<j, c>>] <= job[j].tries
       /\ notice[<<j, c>>] = "sent" => delivered[<<j, c>>] > 0
       /\ InState(j, "done") =>
            /\ notice[<<j, c>>] # "queued"
            /\ notice[<<j, c>>] = None => c \in job[j].off

(* No deadline is called overdue or due before its day, by however slow a job. *)
StatusNotAhead ==
  /\ status = "overdue" => Due < day
  /\ status = "due_today" => Due <= day

-----------------------------------------------------------------------------
(* The inductive invariant *)

Run == [at : {"idle", "overdue", "due today", "windows", "enqueuing"}, today : Nat,
        windows : Seq(WindowSet), to : SUBSET RoleRows]
Job == [state : {"none", "waiting", "active", "done", "failed"}, to : Users \cup {None},
        window : WindowSet \cup {0}, tries : 0..Attempts, by : Replicas \cup {None},
        off : SUBSET ChannelSet, channel : Nat,
        step : {"create", "send", "mark sent", "mark failed"}, on : SUBSET ChannelSet]
Shape ==
  /\ day \in 0..LastDay /\ status \in {"upcoming", "due_today", "overdue"}
  /\ active \subseteq RoleRows /\ off \subseteq Users \X ChannelSet
  /\ job \in [Jobs -> Job]
  /\ notice \in [Jobs \X ChannelSet -> {None, "queued", "sent", "failed"}]
  /\ delivered \in [Jobs \X ChannelSet -> Nat]

(* The job of the day looks at the day it fired on. *)
CronSound ==
  /\ cron \in [Replicas -> Run] /\ fired \in [Replicas -> Nat]
  /\ \A r \in Replicas : fired[r] <= day /\ (At(r, "idle") \/ cron[r].today = fired[r])
  /\ \A r \in Replicas : cron[r].to \subseteq active
  /\ \A r \in Replicas : At(r, "enqueuing") => cron[r].windows # <<>>

(* A job not enqueued is blank.  The channels that `off` leaves were enabled when
   it was read; those enabled now are among `on`. *)
JobSound(j) ==
  /\ InState(j, "none") => job[j] = NoJob
  /\ ~InState(j, "none") => job[j].to \in Users /\ Enabled(job[j].to) \subseteq job[j].on
  /\ InState(j, "waiting") => job[j].tries < Attempts
  /\ InState(j, "active") => /\ job[j].by \in Replicas /\ job[j].tries > 0
                            /\ ChannelSet \ job[j].off \subseteq job[j].on

(* The channels behind the one at hand are decided, those ahead untouched. *)
Decided(j, c) == notice[<<j, c>>] # "queued" /\ (notice[<<j, c>>] = None => c \in job[j].off)
Untouched(j, c) == notice[<<j, c>>] = None /\ delivered[<<j, c>>] < job[j].tries
AttemptSound(j) ==
  InState(j, "active") =>
    /\ job[j].channel \in DOMAIN Channels /\ Now(j) \notin job[j].off
    /\ \A i \in DOMAIN Channels : i < job[j].channel => Decided(j, Channels[i])
    /\ \A i \in DOMAIN Channels : i > job[j].channel => Untouched(j, Channels[i])
    /\ job[j].step = "create" => Untouched(j, Now(j))
    /\ job[j].step = "send" => delivered[<<j, Now(j)>>] < job[j].tries
    /\ job[j].step = "mark sent" => delivered[<<j, Now(j)>>] > 0

Tells(j) ==
  \A c \in ChannelSet :
    /\ delivered[<<j, c>>] > 0 => c \in job[j].on
    /\ delivered[<<j, c>>] <= job[j].tries
    /\ notice[<<j, c>>] = "sent" => delivered[<<j, c>>] > 0
    /\ InState(j, "done") => Decided(j, c)

JobOk(j) == JobSound(j) /\ AttemptSound(j) /\ Tells(j)

OneJobEach == \A r \in Replicas : \A i, j \in WorkedBy(r) : i = j

IInv == Shape /\ StatusNotAhead /\ CronSound /\ OneJobEach /\ \A j \in Jobs : JobOk(j)

(* A run enqueues for the window of its day, and meets each window once. *)
WindowsSound ==
  \A r \in Replicas :
    /\ \A i, k \in DOMAIN cron[r].windows : cron[r].windows[i] = cron[r].windows[k] => i = k
    /\ At(r, "enqueuing") => Falls(cron[r].today, Head(cron[r].windows))

(* A reminder that is owed is enqueued, excused, or still ahead of a run. *)
Has(o) == \E j \in Jobs : job[j].to = o[1][1] /\ job[j].window = o[2]
IsIn(n, windows) == \E k \in DOMAIN windows : windows[k] = n
Ahead(r, o) ==
  \/ /\ cron[r].at \in {"overdue", "due today", "windows"}
     /\ Falls(cron[r].today, o[2]) /\ IsIn(o[2], cron[r].windows)
  \/ /\ At(r, "enqueuing")
     /\ \/ o[2] = Head(cron[r].windows) /\ o[1] \in cron[r].to
        \/ Falls(cron[r].today, o[2]) /\ IsIn(o[2], Tail(cron[r].windows))
OwedComes ==
  /\ owed \subseteq active \X WindowSet
  /\ \A o \in owed \ excused : Has(o) \/ \E r \in Replicas : Ahead(r, o)

(* Each job of a window is the reminder of one role row by one replica, which has
   fired on the day of that window and does not get to that row again. *)
Origins(u, n) == {w \in RoleRows : w[1] = u} \X Replicas
Of(u, n) == {j \in Jobs : job[j].to = u /\ job[j].window = n}
Behind(w, r, n) ==
  \/ Due < fired[r] + n
  \/ /\ Due = fired[r] + n
     /\ \/ At(r, "idle") \/ ~IsIn(n, cron[r].windows)
        \/ At(r, "enqueuing") /\ n = Head(cron[r].windows) /\ w \notin cron[r].to
OnePerOrigin ==
  \A u \in Users, n \in WindowSet :
    \E f \in [Of(u, n) -> Origins(u, n)] :
      /\ \A i, j \in Of(u, n) : f[i] = f[j] => i = j
      /\ \A j \in Of(u, n) : Behind(f[j][1], f[j][2], n)

RInv == IInv /\ WindowsSound /\ OwedComes /\ OnePerOrigin

(* Every reminder in the queue is dispatched or given up after its attempts. *)
RemindersEnd ==
  \A j \in Jobs : InState(j, "waiting") ~> job[j].state \in {"done", "failed"}
=============================================================================
