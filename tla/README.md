# PinoyTax AI: a verification of its core services

TLA+ modules of the API in `apps/api` and of its web client in `apps/web`, TLC
configurations that check them on small instances, and proofs checked by TLAPS. Paths below
are relative to the repository, `…/` stands for `apps/api/src/modules/`.

The API is a NestJS process (or several) over one PostgreSQL database. Its services
are asynchronous methods: every `await` of a query is a place where another request
runs. Almost no method uses a transaction across its checks and its write, few rows
have a unique index, and no statement writes conditionally on what was read. What can
go wrong is therefore what the modules are about: **a check that no longer holds when
the write that relies on it happens.**

## 1. Inventory

| Component | State it keeps | Operations that change it | What is hard | What makes it correct |
|---|---|---|---|---|
| Firm service `…/firm` | firms, memberships, client companies (`firm_id`), assignments, engagement requests | create firm; invite, accept, change role, revoke staff; create, invite, answer, remove client; assign and revoke access | checks and writes are awaits apart; two firms compete for a company; the owner's consent is on a different row than the effect | a firm never loses its owner; nobody gets access without his and the company's consent; what was revoked stays revoked |
| Firm guard, company guard `…/identity/guards` | none | one query before the handler | its answer is used after more awaits | a removed client is out of the firm's reach |
| Authentication `…/identity/auth.service.ts` | accounts, lock and counter, sessions, one-time tokens | register, verify, login, refresh, logout, revoke, forgot, reset; seeding at boot | rotation, reset, lock and verification racing on one account; expiry; failures between two writes | no session before verification; a token exchanged is dead; a reset ends what came before; the limit locks |
| Payroll `…/payroll` | employees, runs, payslips | add employee; create, compute, finalize run | a long loop of writes with nothing locking the run; it can stop half way and be repeated | a finalized run is clean, final, and pays nobody twice; payslips stay in the company |
| Compliance `…/compliance` | deadlines, flagged issues, rollups | scan; change an issue | scans from the queue and from requests overlap; retries repeat what was done; the profile changes meanwhile | scanning again doubles nothing; the calendar follows the profile; every scan ends |
| Job queue `apps/api/src/queue` | jobs, attempts | enqueue, take, retry, give up | at-least-once delivery | a job is done or given up |
| Company profile and staff `…/org` | companies, roles per company | create, update; invite, accept, revoke staff | two updates compare with what each read; acceptance takes the id of any row and races revocation | a change of classification is followed by a scan; nobody works for a company on another's acceptance; a revoked role stays revoked |
| Notifications `…/notifications` | notifications, preferences | dispatch; daily reminders | retry after some channels were sent; a reminder is sent on one day only; two replicas | each reminder once per channel; a missed day is noticed |
| Tax engine `…/tax-engine` | rules, rates, computations | compute, confirm | brackets and rounding at their limits; confirm looks at nothing | amounts agree with the bracket table, once the table is all there, and never exceed it before |
| Seed script `apps/api/prisma` | roles, permissions, forms, tax rules and rates | a sequence of upserts | it commits row by row, may stop, be repeated, and run while the API answers | a run that ended left everything, whatever stopped before it; what is found half way does no harm |
| Documents `…/documents` | documents, versions, objects | upload, new version | object store and database are written apart; versions are counted, then numbered | version numbers are distinct; the current version exists |
| Web session client `apps/web/src/lib` | access token, refresh in flight, profile shown | request, refresh, retry; boot, login, logout | one refresh for many 401s; lost answers; reloads; a login during a refresh | who is shown is who acts; a logout ends the session; nobody is turned away while his session lives |
| Pages `apps/web/src/app/(dashboard)` | the lists loaded, the forms | load, change, patch or reload | answers come in any order or not at all, and replace whole rows | a page ends up showing what its user did, and gets past its skeleton |
| AI assistant `…/ai` | conversations, messages | send message | an external call between two inserts | answers follow questions and rest on what is in force |
| Audit, domain events, branches, forms, admin, config | append-only records, single rows, or none | — | none: single writes or pure reads | — |

Interaction: controllers call a guard and then a service; services share tables only.
`OrgService` and `FirmService` emit `company.created` / `company.updated` in the process;
`ComplianceService` turns them into jobs; a worker process takes the jobs. Payroll asks
the tax engine for amounts. RabbitMQ events go out best-effort and nobody reads them here. The web
client knows the API by its answers only.

## 2. The modules

| Module | Models | Lines it stands for |
|---|---|---|
| `FirmAccess` | the firm service with the two guards and `OrgService.createCompany` | `firm.service.ts`, `firm.controller.ts`, `firm-permissions.guard.ts`, `permissions.guard.ts` |
| `CompanyStaff` | role rows of a company, invitations, the guard's direct half | `org.service.ts`, `permissions.guard.ts` |
| `Sessions` | accounts, sessions, one-time tokens, admin seeding | `auth.service.ts`, `main.ts` |
| `Payroll` | employees, runs, payslips | `payroll.service.ts` |
| `Compliance` | the filing calendar of one company, its queue, profile updates | `compliance.service.ts`, `queue/`, `org.service.ts` |
| `Seeding`, `SeedData` | the seed script, one entry for each upsert; its rates | `apps/api/prisma/seed.ts` |
| `TaxEngine` | the bracket loop, computations and payslips, the service's confirm | `tax-engine.service.ts`, `compute-tax.dto.ts` |
| `Notifications` | the daily job, the dispatch queue, the channels | `deadline-reminder.job.ts`, `notifications.service.ts`, `notification-dispatch.processor.ts` |
| `Documents`, `Archive` | the document vault, and the promise it implements | `documents.service.ts`, `storage.service.ts` |
| `AiAssistant` | retrieval and the turns of a conversation | `ai-assistant.service.ts`, `knowledge-base.service.ts` |
| `WebSession` | one browser tab: tokens, the shared refresh, boot, login, logout | `api-client.ts`, `auth-context.tsx`, `require-auth.tsx` |
| `Screens` | what each page of the dashboard loads, changes, patches and reloads | `app/(dashboard)/**/page.tsx`, `hooks/` |
| `ChatPage` | the assistant's page | `ai-assistant/page.tsx` |
| `…Proofs` (8) | theorems and proofs | |
| `MC…` (8) | constants, bounds and symmetry for TLC | |

The convention is the same everywhere. **Tables are variables.** A row that is never
deleted and is unique on a key is a function of the key; where ids matter they come from a
bounded set. **A request in flight is a record** (`call[s]`, `scan[s]`) of what it has read and
of the await it stands at. An action is the code between two awaits: it reads the
tables only where the code queries them, otherwise its own record. A Prisma
`$transaction` or a single statement is one step. **Guards** are the early returns and the exceptions.
A failed check is a request that ends: it changes nothing, so it is left out as an
action, the caller's slot simply stays free. **Histories** (commented as such) record who consented,
what overlapped or what a session rests on; no guard reads one. A definition commented
`mutant` is a plausible mistake in the definition after it: no action uses it, and the
property named in `PROJECT.json` must fail when it takes that definition's place.

### FirmAccess
`member`, `firmOf`, `ownerOf`, `assignment`, `invitation` are the tables. `Begin` is the
controller with its guard's query; `Read` the service's query; then one action per method
performs the write with what was read. `joined` and `engaged` are histories: who entered which
firm by his own act, and which company was put under which firm by its owner or was
created there: an acceptance adds to `engaged` only if the account that answers owns the company (`OwnersWord`),
so that an answer by anybody else would give a firm a company nobody engaged it for. `overlapped` whether two requests were ever in flight at a time.

### CompanyStaff
`role` is `user_company_roles`, keyed by user, company and role. A request carries the account that made it (`by`) and the row's id,
which for an acceptance may be any row's; the query of `acceptInvitation` (`IsPending`) decides whether it is the account's own.
`delegates` stands for the firm's
half of the guard: those whose assignment carries `staff:invite`, who come and go by
`FirmAccess`. Histories: who founded, who ever was a delegate, who invited whom to what, who accepted which row, and the rows revoked while
an acceptance had read them (`overtaken`). `MCAccess` puts both sides over the same users and companies (`Org` is the company's). `GuardMayPass` keeps the guard's `findFirst`: of a user's active rows any may be taken.

### Sessions
An account stands for its address, a session for its refresh token. `status`, `lockedUntil` and
`failed` are the lock; `sessionState`, `tokenState` combine `revoked_at` / `used_at` with
expiry, which `LockRunsOut`, `SessionExpires`, `TokenExpires` drive. Login is `LoginRead`, then
`LoginSucceeds` or `FailedLogin` and `LockAccount`, then `IssueTokenPair`; refresh is `RefreshRead`,
`Rotate`, `IssueTokenPair`. `Fail` is a query that throws, or a restart, at any await. `interrupted` records that
one did, `overlapped` that two requests were in flight at a time.

### Payroll
`payslips[r][e]` counts the rows of an employee in a run. A computation is
`ComputePayrollRun`, `MarkProcessing`, `ListStaff`, `ClearPayslips`, `CreatePayslip` once per employee,
`ComputeDone`; finalizing is `FinalizePayrollRun`, `MarkFinalized`. Whether a payslip has errors
depends on the employee's numbers and on the rates of the period, neither of which any
code changes. `shared` records the runs on which two requests were in flight at once.

### Compliance
One company: no statement concerns two. `deadlines`, `open` and `rollups` count rows, since nothing
makes them unique. `EnqueueComplianceScan` is the event handler, `TakeJob` and `RequestScan` start
a scan, `Advance` is its steps in their order, `Fail` ends it and gives a job back until its
attempts are used up. BullMQ and Redis are external: modelled as at-least-once delivery with
a limit of attempts, as `queue.module.ts` configures them.

### Seeding and TaxEngine
A run of the script is a position in its list; `Upsert` commits one row, `Stop` ends it anywhere, and runs may
overlap. `SeedList` has an entry for every upsert of every loop, in order: permissions, roles and their grants, the firms' likewise, tax rules and their
rates, form templates, the administrator; `GrantsFindTheirPermission` says that a grant's permission is upserted before it, as `findUniqueOrThrow` requires.
`TaxEngine` computes with the rates that are `present` when it looks; the list is its constant `Script`. The run `tax_confirm` takes `SeedList`;
`tax` takes only its tax rules, all that the engine looks up. What is proved holds of any list of distinct rows that has them.
`Confirm` is the service's: any computation of the company, whatever its status or result. That the tax page
offers the button only for a draft with a result is the page's own care. The engine's bracket loop is a
fold over the rates in the seeded order; bases are whole pesos, amounts whole centavos, and a rounding that meets exactly half a centavo
may go either way, as its floating point value has it.

### Notifications
`cron[r]` is the daily job of a worker replica with what it has read: the windows left, the
role rows left. `job[j]` is a reminder in the queue with its attempts and the channel it
stands at; `notice` is the row of a job and channel, `delivered` counts messages out. `Crash` stops a
replica; the queue gives its job to another. An update of a row that throws inside a channel lands in the same `catch` as the channel itself (`ToTheCatch`).
Days are numbers: a deadline is a date at midnight UTC and the job's day begins at midnight where it runs, which is the same day in UTC and east of it.

### Documents
`UploadDocument` / `UploadNewVersion` are the look-ups and the count of versions, `Put` writes the bucket, `CreateDocument`
and `CreateVersion` are the transactions, `Fail` ends an upload at either. `Kept` maps this state to
`Archive`, where an upload once kept only gains company: `NeverLost` is that refinement.

### AiAssistant
The retriever is a function of the terms of a question. A turn reads the conversation, saves the question,
retrieves, calls the model, saves the answer and touches the conversation, each an await that may fail.

### WebSession, Screens, ChatPage
In `WebSession` a request is sent, served and received in three steps, and the network may lose it before or
after it is served. `Again` is the single retry after a 401, `AllResumed` the promise that all waiting
callers share, `Reload` a hard reload. The routes of `/auth` are atomic here, since `Sessions` has
their awaits; a cookie and the token issued with it are applied together; a locked account is
not told apart from a wrong password; a request a reload left unserved never is.

`Screens` names one definition per component that loads (`Mounts`, `Settles`, `OnDemand`) and one per handler
(`Do`: what the server alters, what is patched from the answer, what is loaded again), and runs
them by the same few actions: this pattern is the code's own, repeated on every page. A list is abstracted to the user's own changes it holds.
Changes of one row (`OfRow`) are told from changes of others: the answer to a patch carries the row as the server had it when it stored the change (`got`), and
replaces the row shown, whatever came in between. `RowButton`, `SaveForm` and `RemoveButton` are the ways a page sends a change: from a row's button that stays enabled,
from a form that waits for its answer, or removing the row.

## 3. What is checked

All passing runs explore the complete state space of their instance. Where a run serves two situations, a variable `scope` in its `MC`
module picks one in the first state; properties that need it name it.

| Run | Instance | Shows |
|---|---|---|
| `access` | 2 users, 1 company, 2 requests. "overlap": 1 firm, staffers are admins, 2 requests at a time; "turns": 2 firms, staffers are bookkeepers, 2 engagement requests, 1 at a time; "staff": the company's own roles, 2 requests at a time | `OneActiveOwner`: a firm has exactly one active owner whatever races. `ConsentOnBothSides`: no access without consent of both sides. `TablesAgreeUnlessOverlapped`, `DecisionsLastUnlessOverlapped`: each method's checks suffice as long as no two requests overlap. `FounderStaysOwner`, `RolesByConsent`, `OnlyOwnersInvite` under every interleaving; `RevokedForGood` but for an acceptance that had read the row before |
| `sessions` | "race": 1 account, 3 sessions, 3 tokens, 2 requests; "turns": 4 sessions, 1 request, failures, seeding | `SessionsOfVerified`, `ResetEndsSessions` always; `LocksUnlessInterrupted`: the limit locks if no query fails; `SessionsUnlessOverlapped`, `LinksUnlessOverlapped`: as long as no two requests overlap, one login has one live token and only a reset link changes a password |
| `payroll_race` | 2 companies, 2 employees, 2 runs, 2 requests, failures | `OwnStaffOnly` always; `CleanUnlessShared`, `UntouchedUnlessShared` for runs whose requests never overlapped |
| `compliance` | "scans": 1 worker, 1 requested scan; "queue": 1 worker, 2 jobs, a clock crossing a quarter; 2 attempts | `OnceUnlessOverlapped`, `CalendarFollowsProfile` with overlapping scans, updates and failures; `JobsEnd` (liveness) |
| `tax` | one row, one seed run of the tax rules, bases and salaries around the limits | `SeededIsExact`: after a complete run amounts are the schedule's; `NeverOvercharged`: before, never more |
| `notifications` | 2 users, 2 channels, windows of 2 and 1 days, 1 replica, 2 attempts | `RemindersAreOwed`, `OptOutHolds`, `NoticesTell`, `StatusNotAhead`; `RemindersEnd` (liveness) |
| `content` | vault: 2 companies, 2 folders, 2 documents, 4 uploads, 2 at a time; assistant: 3 turns, 2 at a time | `CompaniesStayApart`, `NumberedUnlessOverlapped`, `VersionsAreStored`: no row is without its object, `NeverLost` (refinement of `Archive`); `BestSourcesCited`, `AnswersFollowQuestions`, `RequestsAlternate` |
| `web` | one tab, 2 users, 2 requests, 4 acts; each of 19 pages, 2 changes, of one row or of two, 3 loads at a time; 4 questions over 3 visits | `ActsAsShown`, `NotTurnedAway`, `CountedTwiceAtMost`; `PageFollowsUser`; `ShowsConversation`; `NothingHangs` (liveness) |

Runs that end in a violation show where the code differs from what the repository says of it:

| Run | What the counterexample does | What is said |
|---|---|---|
| `firm_takeover` | a second firm's older engagement request is accepted after the first firm's, and moves a managed company | `firm.service.ts:335` refuses that: "This company is already managed by a firm." |
| `sessions_replay` | two refreshes read one live session; both get a successor | `SECURITY.md:21`: "can be replayed at most once" |
| `payroll_reopened` | a computation that read the run before it was finalized sets it to processing | `API.md:58`: "immutable afterward" |
| `tax_confirm` | a computation without an amount is stored, and its id is sent to confirm | `USER_MANUAL.md:55`: "Once a result exists" it is confirmed |

Met while modelling, without a run of its own:

- Firm: an assignment checked before the client was removed is written after it, and the staffer reaches the former
  client (`firm.service.ts:470`, against `ADMIN_MANUAL.md:84`); an acceptance overtaken by a revocation revives the
  membership (`firm.service.ts:198`); two requests that both find no pending invitation each insert one (`:349`), and of two answers to one
  request, both of which read it pending, the second overwrites the first (`:391`); a firm-created company has no business owner, so removing it
  leaves it out of everyone's reach (`firm.service.ts:418`, against `ADMIN_MANUAL.md:43`).
- Staff: the same revival (`org.service.ts:173`), the one exception in `RevokedForGood`; a revoked role can never be invited again (`org.service.ts:129`);
  a user with two roles passes or fails the guard by whichever row `findFirst` returns (`permissions.guard.ts:58`).
- Accounts: a login in flight across a reset creates a session with the old password (`auth.service.ts:361`); a login that
  read the account before the lock writes `active` over it (`auth.service.ts:163`); an account whose
  verification link expired can get no other (`auth.service.ts:72`, against `mailer.service.ts:70`).
- Taxes: rates found while the script runs, or after it stopped, make amounts too small, and nothing tells so; a computation already confirmed
  can be confirmed again (`tax-engine.service.ts:167`, against `API.md:67`: "Confirm a draft computation").
- Payroll: two overlapping computations pay an employee twice (`payroll.service.ts:160`), and a finalization that
  overlaps one can end unclean. No route edits an employee, so a payslip with errors stays so.
- Compliance: two overlapping scans double the calendar (`compliance.service.ts:189`, against its own comment at
  `:86`); two overlapping profile updates each compare with what they read, so a change may bring no scan, as may one whose event is lost with its process (`org.service.ts:58`); no route files a
  deadline, so the completed count of a rollup stays zero.
- Notifications: a day the job misses loses its reminders (`deadline-reminder.job.ts:83`); two replicas send each twice (`:108`); a retry sends
  again on channels already sent; a channel disabled after an attempt read the preferences is still sent to by that attempt (`notifications.service.ts:69`).
- Documents: two overlapping uploads share a version number (`documents.service.ts:116`); the link leads to the first version's object (`:151`), under the last one's name.
- Assistant: turns that overlap do not see each other and interleave their messages (`ai-assistant.service.ts:65`); after a failed call the question stays without an
  answer, and the window may from then on open with one (`:128`).
- Web: a login or logout that overlaps the page's own refresh leaves one user shown and another's token in use, or a
  session alive after its logout (`auth-context.tsx:48`); a wrong password counts twice, for a 401 is retried even on the
  login itself (`api-client.ts:91`); a run whose details cannot be had leaves the reports on their skeleton (`reports/page.tsx:67`, hence the
  exception in `SkeletonsEnd`); the roles and firm staff pages replace a row by an answer that lacks the user and role the row shows
  (`org.service.ts:213`, `firm.service.ts:152`, against `types.ts:287`, `:319`).
- Pages: the buttons of a row stay enabled while a change of it is under way, and each answer replaces the whole row: of two changes of one row the older
  answer may come last and take the newer change off the page (`companies/[companyId]/page.tsx:122`, `notifications/page.tsx:94`), until the list is loaded again. A load
  answered before a change may be shown after it (`page.tsx:90`), and of two loads of the forms the older may come last (`forms/page.tsx:53`). These are the exceptions
  in `PageFollowsUser`, with the reload that fails. New conversation, clicked while an answer is awaited, gets that answer (`ai-assistant/page.tsx:120`).

### Bounds, and why they are enough
Two requests at a time: every property relates what one request read to what another wrote, and
a third adds no new kind of overlap (the proofs below cover any number). Rows are few but
allow the interesting case: two firms and two engagement requests for a takeover; three sessions for a login,
its refresh and a rival; a limit of two failed logins so that it is reached and passed; two
employees so that a computation can stop half way; two jobs so that a change can follow the
creation; two attempts so that a retry and a final failure both happen; months 2 and 3 so
that the clock crosses a quarter; two windows, so that one failing leaves the other; bases on, next to and above the limits of the
brackets; a history window of two messages and three turns, so that it slides; two requests of a tab, so that a refresh is
shared. `FailedCap`, `Jobs`, `LastMonth`, `LastDay`, `Tokens`, `SessionIds`, `Invitations`, `MaxUploads`, `MaxTurns`,
`MaxActs`, `Ids`, `MaxQuestions`, `MaxVisits` are the named bounds. Deadlock is checked for access and taxes; elsewhere, once the bounded ids are
used up, or a run is finalized with nothing left to do, the system really stops.
Symmetry is declared over interchangeable users, companies, rows and slots; not where liveness is checked.

Some bounds restrict what the environment does, and each is named in its `MC` module. In "turns" of `access` and `sessions`
(`InTurn`) one request runs at a time. In "overlap" (`OneOfEach`) there is one firm and one engagement request, and staffers are
admins, whom the guard lets through, and the firms' side rests in "staff"; in "race" (`ThreeSessions`) three sessions. Session ids are taken in order (`InOrder`), and the
first session of a browser tab is one fixed user's (`FirstOf`): nothing tells ids or users apart. No day passes over a reminder that
waits or is being sent (`DaysBetween`), because its dispatch does not look at the clock; a daily job may take days. A panel of a page has
two loads under way at most, a page three (`FewLoads`). The bases of `tax` are whole pesos because TLC computes in 32 bits: an annual
base in centavos, times a rate, is beyond them. None of the other bounds is in the proofs.

### Fairness
`FirmAccess`, `CompanyStaff`, `Sessions`, `Payroll`, `Documents`, `AiAssistant`, `TaxEngine` and `ChatPage` are checked for safety only: their clients owe nothing.
`Compliance` and `Notifications` assume one weak fairness per worker, of taking a job or advancing the one it has: BullMQ's
worker loop takes a job whenever one waits, and a promise whose query returns goes on. `WebSession` and `Screens` assume that
a request is answered or given up, and that the page handles what comes: `fetch` settles, and the event loop runs the continuation. Nothing
is assumed of failures, of the user, of the event's way to the queue, or of the clock.

## 4. What is proved

For all values of the constants, under the named assumptions of the modules, which TLC evaluates on every run:
`None` is no row's id, no user and no status; roles are those of the DTO; limits and attempts are positive; the bounds on turns and acts
are numbers, and so are the ids of a page's changes; the assistant's history window is even, as 10 is; the seeded rows are
distinct and hold every rate the engine looks up; a grant comes after its permission; its bases and salaries are natural numbers; the channels and the windows of the reminders are distinct; the role rows, replicas and queue places of
`Notifications` are finite. A module that runs as an instance has its assumption in the `MC` module that instantiates it (`OrgAssumption`,
`WindowAssumption`, `WebAssumption`), and its theorems are about the instance's own specification (`Org!Spec`, `Assistant!Spec`,
`Tab!Spec`, `Chat!Spec`), not about the restricted one the run checks.

Four theorems have a hypothesis of their own. `CalendarIsComplete` assumes `OneEditor`, one profile update at a time,
as in the run. It cannot be dropped: two updates that overlap both compare with what they read, and the second may
change the class without an event. `AnswersAreGrounded` assumes `FindsBest`: for each single question the retriever, a pure function,
ranks its sources right. That is a fact about sorting a list, out of the prover's reach; the run has it for its questions and sources.
`SeededAmounts` and `NothingOvercharged` assume `EngineIsRight`: what the bracket loop makes of a base is the schedule's amount, and
never more with some of the rates missing. That is a fact about two folds, the same in every state. What the theorems add is the system around
it: no request, however it interleaves with the script, other requests and the clients that confirm, stores an amount made of other rules, another base or
other rates. TLC evaluates `EngineIsRight` for the run's bases and salaries within seconds; it is no assumption of `MCTaxEngine`, so that the run
itself shows what a wrong bracket loop breaks.

| Theorem | States |
|---|---|
| `AccessProofs`: `TypeCorrect`, `FirmKeepsItsOwner`, `AccessNeedsConsent`, `TurnsKeepTables`, `TurnsKeepDecisions` | of `FirmAccess`: `[]TypeOK`, `[]OneActiveOwner`, `[]ConsentOnBothSides`, `[]TablesAgreeUnlessOverlapped`, `DecisionsLastUnlessOverlapped` |
| `AccessProofs`: `StaffTyped`, `FounderIsOwner`, `StaffConsents`, `StaffCannotInvite`, `RevocationLasts` | of `CompanyStaff`: `[]TypeOK`, `[]FounderStaysOwner`, `[]RolesByConsent`, `[]OnlyOwnersInvite`, `RevokedForGood` |
| `SessionsProofs`: `SessionsTyped`, `SessionsNeedVerification`, `ExchangedStaysRevoked`, `ResetLeavesOnlyRaced`, `LimitAlwaysLocks`, `TurnsKeepSessions`, `TurnsNeedLink` | `[]TypeOK`, `[]SessionsOfVerified`, `[]ExchangedIsRevoked`, `[]ResetEndsSessions`, `[]LocksUnlessInterrupted`, `[]SessionsUnlessOverlapped`, `LinksUnlessOverlapped` |
| `PayrollProofs`: `PayrollTyped`, `PayslipsOfOwnStaff`, `FinalizedClean`, `FinalizedUntouched` | `[]TypeOK`, `[]OwnStaffOnly`, `[]CleanUnlessShared`, `UntouchedUnlessShared` |
| `ComplianceProofs`: `Inductive`, `ScansRepeatSafely`, `CalendarIsComplete` | `[]IInv`, `[]OnceUnlessOverlapped`, `[]CalendarFollowsProfile` |
| `NotificationsProofs`: `Inductive`, `DisabledIsSilent`, `RowsTell`, `StatusesWait`, `RemindersComeOnce` | `[]IInv`, `[]OptOutHolds`, `[]NoticesTell`, `[]StatusNotAhead`, `[]RemindersAreOwed` |
| `TaxEngineProofs`: `SeededAmounts`, `NothingOvercharged` | `[]SeededIsExact` and `[]NeverOvercharged`, if `EngineIsRight` |
| `ContentProofs`: `VaultIsSound`, `ListedIsStored`, `TenantsStayApart`, `VersionsInOrder`, `VaultIsAnArchive` | of `Documents`: `[]IInv`, `[]VersionsAreStored`, `[]CompaniesStayApart`, `[]NumberedUnlessOverlapped`, and `Spec => NeverLost`: the vault implements `Archive` |
| `ContentProofs`: `AnswersFollow`, `DialogueSent`, `AnswersAreGrounded` | of `AiAssistant`: `[]AnswersFollowQuestions`, `[]RequestsAlternate`, and `[]BestSourcesCited` if `FindsBest` |
| `WebProofs`: `TabActsAsShown`, `NobodyTurnedAway`, `PasswordsCountedTwiceAtMost` | of `WebSession`: `[]ActsAsShown`, `[]NotTurnedAway`, `[]CountedTwiceAtMost` |
| `WebProofs`: `PagesFollowTheirUser`, `PageShowsConversation` | of `Screens`: `[]PageFollowsUser`; of `ChatPage`: `[]ShowsConversation` |

Each rests on an inductive invariant `IInv` of its module, which includes the types. The promises alone are not
inductive, because between a check and its write only the request's own record says that
the check was passed. So `IInv` adds what a request in flight may still rely on:

- `FirmAccess!IInv`: the promises, `RowsOfFirms` (rows name firms and companies that exist), and
  `InFlight`, what the record of each request implies about rows that can only change one way (a firm stays a firm,
  the owner's membership is never revoked, a consent once given is history).
- `CompanyStaff!IInv`: the promises, `Recorded` (whoever has a row beyond "none" was invited; an owner row is the founder's), and
  `InFlight` (an acceptance or revocation works on a row of an invitation, an acceptance on its own account's, an invitation never on an owner's; a row revoked
  while an acceptance had read it is `overtaken`).
- `Sessions!IInv`: the promises, `TokensOfAccounts` (a verified account used a token), and
  `RequestHolds`: a request about to sign has a verified account, its predecessor is revoked, and its
  password is the present one unless a reset raced it. The lock is in it only until a query fails: a failure
  between the counter and the lock does leave an account at its limit and open.
- `Payroll!IInv`: the promises and `RequestHolds`: on a run that is not shared, the one request in flight
  still finds the status and the payslips it read.
- `Compliance!IInv`: the promise; `ScanShape`, what a scan holds at each await; `JobsApart`, no two workers have one job;
  `OneScan`, as long as none overlapped, at most one scan is in flight and the row it found missing is still missing. The calendar needs more, `CalendarComes`: while the calendar is incomplete an event, a waiting or failed job, or a
  scan that has planned for the present class is there to complete it; `EditsPresent` says that an update compares with the
  company's class.
- `Notifications!IInv`: `CronSound` for each replica's daily job and `JobOk` for each reminder: what has been tried, what is stored and what went
  out agree at every await of the dispatch, at most once per attempt; `OneJobEach`, a replica works on one reminder. `RInv` counts:
  `OwedComes` (whoever the day's job found is reminded, ahead of it, or excused by a failure), and `OnePerOrigin`, an injection from a
  person's reminders to the role rows and replicas they come from, which bounds them.
- `TaxEngine!IInv`: the types, `RequestsFormed` and `RowsFormed`, and `Seed!IInv`, whose `DoneIsThere` says that every run's rows so far are in the
  database, so that the end of one leaves all. The amounts need `SumsOK` next to it: the dues
  of a request so far are a sum of what the rules it looked up may make of its base, with all their rates if it is `settled`; a row's amount is such a
  sum for all its rules.
- `Documents!IInv`: the promises; `KeysAreOwn`, a storage key belongs to one upload, in flight or done;
  `WritesWhatIsStored`, an upload about to write its rows has its object; `FiledWhereLookedUp`; `OwnKeyIsListed`. `Numbering` adds that the count an
  upload took is still the number of versions, unless a rival overlapped. The
  refinement follows action by action: only `CreateDocument` and `CreateVersion` change `Kept`, and they add a fresh key.
- `AiAssistant!IInv`: `InTurn`, what a turn in flight has said by the await it stands at, and what it has not; `InOrder`, no two turns in
  flight have one number; `LogsOK`, the promise message by message. `Unbroken` is what the window needs: a conversation without a failure or
  an overlap has at most one turn in flight, its log alternates, and what the turn read is what came before its question; an even
  window of it then opens with a question. `SourcesOwn` adds that a turn about to call the model, and every answer, has the sources of its own
  question.
- `WebSession!IInv`: `Base` whatever overlaps: what each request of the tab may ask at which stage, the token is the cookie's or none, and `Left`, how often
  a login under way may still be counted; `Orderly` until two of boot, login, logout and refresh overlap: a refresh under way holds the
  cookie's own session (`RefreshOK`), who is shown is the cookie's user (`CookieIsShown`), and a retried request has a fresh token
  (`RetriesAreFresh`), so that no second 401 turns anyone away (`NobodyOut`).
- `Screens!IInv`: a load brings only what was stored when the server answered it (`LoadsOK`), and so does the row in the answer to a change (`StoredOK`); `OwnOK`, every change that is done is shown already,
  or a load under way will bring it and none will take it back, unless an older answer of its row did; `FormsOK`, the filter of the forms page is that of the one load under way.
- `ChatPage!IInv`: `InStep`, what the page shows at each await of a question, compared with the server's log.

What holds only of requests that do not overlap is a theorem too, of the specification in which they may: a history records
the overlap, and a second invariant, inductive next to `IInv`, says that without one the request in flight is alone and still finds what it read
(`Alone` with `StillAsRead` in `FirmAccess`, `Alone` with `StillSo` and `LinesExist` in `Sessions`).

The proofs have one lemma per action; steps that touch the same rows share a lemma. The runs check the promises on small
instances; the type invariants and the rest of each `IInv` are proved for all of them.

Model-checked only, because it is out of the prover's reach: all liveness (`JobsEnd`, `RemindersEnd`, `NothingHangs`), for which it would need
ENABLED, and the two hypotheses about pure functions, `EngineIsRight`, whose bracket loop and whose schedule are folds over lists and
sets, and `FindsBest`, which sorts one: what they compute for every input is an induction over data. Every other property of a passing run
is a theorem. No module uses a RECURSIVE operator.

## 5. Not modelled, and why

Dates, names, permission codes inside an assignment, login history, mails, audit and
RabbitMQ records: no property here depends on them. Payroll leaves the amounts to `TaxEngine`. In `Sessions` the access token is a
stateless JWT; its 15 minutes are in `WebSession` only. Two tabs of one browser share the cookie but no
code, and are left out. Row-level security is not in force (`prisma.service.ts:32`). Branches, the forms library, admin
listings and firm insights are single writes or pure reads. Two firm-service methods that
edit descriptive fields are left out. In the web interface: what is rendered of a row, search boxes,
client-side paging, and the four pages behind the links of a mail.

## 6. Plan

1. Refinement: `Payroll` implements a two-step abstract run (open, final) on unshared runs; `Sessions`
   an abstract single-use token; `CompanyStaff` and `FirmAccess` one access relation that only consent extends.
2. `WebSession` composed with the awaits of `Sessions`; two tabs on one cookie.
