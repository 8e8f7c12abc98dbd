# UMS Helpdesk ticket API: a TLA+ model

This directory holds TLA+ modules for the helpdesk API in `src/` (TypeScript,
Express, Prisma, Postgres), the TLC runs that check them on small instances, and
TLAPS proofs of the main results for every value of the constants. Paths below
start at the repository's root, which is `src/` here: the service code is in
`src/src/services/`.

    tlc -workers 2 -config TicketRouting.cfg MCTicketService.tla
    tlapm TicketTrailProofs.tla

## 1. The system

One Node process, or many serverless copies of it, serves HTTP requests against
one Postgres database. Nothing is shared in memory between requests except the
reminder's dedupe keys and the event publisher; every invariant lives in the
database, and most hard behaviour comes from requests that overlap there. The last
column says where a component is modelled.

| Component | State | Operations | Talks to | Hard behaviour | What makes it correct | Module |
|---|---|---|---|---|---|---|
| Ticket state machine (`src/src/lib/transitions.ts`, `scoping.ts`) | none | `TRANSITIONS`, `assertCanPerform`, `assertCanViewTicket` | every ticket operation | judged on a snapshot | each event follows a rule of the table | `Transitions`, `TicketLifecycle`, `TicketTable` |
| Ticket service (`TicketService.ts`, `AssignmentService.ts`) | ticket rows, events, comments, notifications | create, assign, forward, redirect, progress, close, request/approve/refuse close, request/approve/refuse redirect, comment, severity, category | users, publisher, storage | check and write are separate statements; the guard of the write compares the status alone | trail is a chain, row matches trail, one outcome per ask, one close, closed is final | `TicketService` |
| User directory and sessions (`UserService.ts`, `AuthService.ts`, `middleware/auth.ts`) | user rows; cookies at the clients | ensureFromSession, create/revive, update, deactivate, password and Google login, logout | all operations call ensureFromSession | no transaction anywhere; write-back of values read earlier | one row per person, roles only as granted, deletion sticks | `UserDirectory` |
| Downstream publisher (`lib/events/`) | none | publish after commit, two attempts | create, close, approveClose | crash between commit and publish, repeated delivery | only what committed is published | `TicketService` (in part) |
| Categories (`CategoryService.ts`) | category rows | list, create, update, remove | assignCategory, create | uniqueness by query; delete under tickets | no dangling category; names unique while requests come one at a time | `CategoryService` |
| Daily reminder (`jobs/daily-reminder.ts`, `lib/dedupe.ts`) | in-memory key set | one run per cron call | tickets, notifications | restart, two instances, key set before the insert | at most one reminder per agent and day from one life of an instance, and no lost one | `DailyReminder` |
| Attachments, blob sweep (`jobs/blob-sweep.ts`, storage) | blobs, attachment rows | upload, attach, sweep | ticket and comment creation | the sweep's snapshot against an attach | no file attached within the grace time is deleted, orphans go eventually | `BlobSweep` |
| Realtime (`lib/realtime.ts`, `middleware/realtimeCollect.ts`, `lib/prisma.ts`) | a sink per request | collect, emit after the response | every write | lost emits | no event for a rolled-back change | `Inbox` (in part) |
| Notification inbox (`NotificationService.ts`) | notification rows | list, mark one, mark all, delete all | ensureFromSession | rows found and then written by id; lost pushes | others' rows are untouched, unread rows are shown | `Inbox` |
| List, history, analytics | none | queries | tickets | several queries, no snapshot | a list shows what its caller could open, and leaves out nothing that was there throughout | `TicketReads` (in part) |
| Ticket codes (`lib/ids.ts`) | a Postgres sequence | nextTicketCode | create | gaps after rollback | unique | – |
| HTTP shell, OpenAPI | none | routing, validation | – | none | – | – |

## 2. What is modelled

### Modules

Tickets:

- `Transitions` – the table of `transitions.ts` as a function from action to rule,
  `CanPerform` for `assertCanPerform`, `CanView` for `assertCanViewTicket`, and the
  audience queries (`ActiveLeads`, `ActiveStaff`).
- `TicketService` – the fourteen mutations of a ticket as concurrent requests.
  `ticket[t]` is the row, `events[t]` its `TicketEvent` rows that bear a status,
  each with the notifications inserted by the same transaction, `comments[t]` the
  comments, `published[t]` what downstream systems were told, and `req[p]` the local
  variables of the handler that process `p` runs.
- `TicketLifecycle` – an abstract specification: status, whose ask is pending, and
  the trail of statuses of one ticket, each operation one atomic step.
- `TicketTable` – a second one: the columns of all ticket rows that other parts read,
  each committed transaction one atomic change that follows the table.
- `TicketProperties` – the properties of the service and the refinement mappings.

Built on the table instead of the service, which `ImplementsTable` justifies:

- `CategoryService` – `category[c]` and the two-step requests `creq[p]` that create,
  rename, switch off and remove categories, open tickets and categorise them.
  `rivals` is a history field: who got a name between its look-up and its write.
- `TicketReads` – `read[r]`, a list or a dashboard in progress, one query per step,
  over rows and categories that change in between. `ever` and `always` are history
  fields: what the caller could see at some moment of the list, and throughout.

The rest:

- `UserDirectory` – user rows, cookies, and the requests of users, administrators
  and people who sign in, one SQL statement per step. `granted` is a history.
- `UserHistory` – `UserDirectory` with a second history, `outdated[p]`: the row that
  request `p` is about has changed since `p` read it. It restricts nothing.
- `Inbox` – notification rows from draft to stored, rolled back or deleted, the sink
  of each request, the push after the response, and the inbox requests. `seen` is
  what a user's screen has shown.
- `DailyReminder` – extends `Inbox`: the jobs of several instances with their keys,
  restarts, failures, days and changing backlogs.
- `BlobSweep` – files by age, the requests that store and attach them, and sweeps
  that list, look up and delete in separate steps.

`UserProperties`, `InboxProperties`, `ReminderProperties`, `BlobProperties` and
`ReadProperties` hold the properties; the modules named `MC...` the instances for
TLC; `TicketProofs`, `TicketTrailProofs`, `TicketRefinementProofs`, `UserProofs`,
`CategoryProofs`, `InboxProofs`, `ReminderProofs` and `BlobProofs` the theorems.

### How a request becomes steps

A ticket handler opens a transaction at READ COMMITTED (Prisma's default on
Postgres), reads the row, checks authority, status and target on that snapshot,
and then runs `updateMany({ where: { id, status: before.status } })`. `Begin` is the
read with all its checks; a request they refuse writes nothing and is not a step.
The write action (`Assign`, `Forward`, ...) is the UPDATE, the event, the comment
and the notifications up to COMMIT. These are one step: the UPDATE takes the row
lock and keeps it, and an UPDATE that had to wait re-evaluates its WHERE clause on
the committed row, so no other ticket transaction is visible between the UPDATE
and the COMMIT. When the WHERE does not match, `Conflict` rolls back (409).
`refuseRedirect` reads the event table between the two, with a snapshot of its own:
`ReadRequestEvent`. `requestClose` and `addComment` read outside their transaction,
which makes no difference at this isolation level. `addComment` and
`assignCategory` write without any condition, and the model does too. Handlers
write only the columns they name, so a write starts from `ticket[t]`, while
everything computed from `before` (the event's old values, who is notified) is
taken from the snapshot. `create`, `close` and `approveClose` go on to `Publish`
after the commit. `Fail` ends any request anywhere: a statement fails, the process
stops; the transaction rolls back and what was not published never is.

A user request reads the caller's row in `requireAuth` and keeps the role and
department of that read (`Begin`). Everything in `UserService` and `AuthService`
runs outside transactions: each statement whose result a later one depends on is
a step of its own. `Serve` stands for all ticket mutations and inbox requests as far
as the user table is concerned: their first write is `EnsureFromSession`. The same
rule makes the steps of `CategoryService` (look-up, write) and of the reads.

In `Inbox` a transaction's inserts are steps of their own, because the sink of
`lib/prisma.ts` is filled at the insert and not at the commit: `Create`, then
`Commit` or `Rollback`, then a response that may still be an error (`FailLate`), and
only a response below 400 pushes. A push reaches the screen or is lost.

A reminder job goes through the agents that were there at its start: backlog query
and `trySet` for one agent, then the insert, then the next agent. `trySet` is one
step, since nothing is awaited between `has` and `add`; the insert is another. The
backlog query, which is awaited before, is part of that step: the backlogs that the
model lets change at any time make the same answers possible.

A sweep lists, reads the references and deletes file by file. Uploads through
multer happen before the transaction of their request, uploads of the browser
before the request at all; `Validate` asks the store whether the named files exist.
A file's age matters only against the grace time, so `Ripen` makes a file old; a
file that a request still in flight stored itself does not ripen, because
`src/vercel.json:10` ends a request after 60 seconds and the grace time is an hour.
All files are under the prefix that the sweep lists, and the early returns of a
deployment without blob storage, which do nothing, are left out.

### Abstractions

- Texts (title, notes, reasons, names of people), codes and DTOs are left out.
- `closedAt` is a flag; the value of a time never matters to a property.
- Events and comments are kept in commit order. The code orders them by
  `createdAt`, the start of the transaction; the two differ when a transaction waited
  for a row lock. This is listed as a hazard that no property covers.
- In `TicketService` the user directory is constant; `UserDirectory` is where it
  changes. `Active` may be any subset of the users.
- Cookies do not expire in `UserDirectory`, and the `X-Mock-*` sessions of
  the test suite are left out; without them the insert branch of
  `ensureFromSession` is unreachable, because rows are never removed.
- A row that `deactivate` or `update` looks up cannot disappear again, so their
  existence checks are part of `BeginDeactivate` and `LookupUser`.
- A change of an address (there is none after creation) and the domain allowlist
  are left out: addresses are those the allowlist admits.
- Ids that grow with the time of creation (tickets, notifications, files in the
  store's order) are numbers; ordering by them is the code's ordering by `createdAt`.
  Overlapping creates of tickets may commit in another order than they began; in
  `CategoryService` they are numbered as they commit.
- The catalogue starts empty. Names that collided before this code kept it (the
  comment at `CategoryService.ts:28`) are not in the model.
- Lists filter by status and scope only; the other filters narrow the same `where`.

## 3. The runs

`CHECK_DEADLOCK FALSE` everywhere: a server without requests waits, and the bounds
below stop clients for good.

| Run | States | Question |
|---|---|---|
| `TicketRouting` | 62,669 | overlapping create, assign, forward, redirect, progress, close: the trail is a chain, nothing changes silently, every actor had the authority when it looked, the right people were told, only what committed is published |
| `TicketAsks` | 271,092 | close and redirect requests of a Lead, an Agent and a member of staff, with `refuseRedirect`'s second read: one outcome per ask, row and trail agree, asker and assignee hear, a refusal undoes its ask, and the service implements `TicketLifecycle` and `TicketTable` |
| `TicketTriage` | 329,165 | severity, comments and categories against closing: `AttributesMatchTrail`, `ClosedIsFinal`, `RecordsWhatItReplaces` |
| `UserRequests` | 612,289 | two overlapping requests over two users: no made-up role, and what the checks of `UserService` promise is broken by outdated reads only |
| `UserSignIns` | 691,728 | a newcomer and known users sign in and send requests while administrators create and delete: one row per person, only POST /users revives one, and a cookie for a deactivated user only if the row changed during the login |
| `InboxDelivery` | 146,291 | transactions, pushes and inbox requests: no news of what did not commit, only the owner's requests change a row, an unread row gets on the screen (liveness) |
| `Reminders` | 656,080 | two jobs on one instance, a restart, a failure, two working days: one reminder a day per life, keys without reminders are failures |
| `ReminderProgress` | 86,656 | the same, the second day a holiday, with fairness: a lasting backlog is reminded (liveness) |
| `BlobSweeps` | 21,102 | uploads, transactions and a sweep: fresh files stay, orphans go (liveness) |
| `TicketReads` | 1,107,772 | categories and lists over a changing table: no dangling category, duplicates and blanks only from overlaps, lists bracketed by what was visible |

`StaleAssigneeCloses` and `PatchIsReverted` are violation runs, described in "What the
code does not keep" below.

### Bounds

- Ticket runs: one ticket (operations on different tickets share no row), two
  processes (each hazard is a race of two requests; a third ticket request only adds
  another instance of the same status guard); `MaxEvents` and `MaxComments` cut off
  requests on a ticket whose trail is long, late enough for ask – decide – ask
  again and for a close after a reassignment. Each run opens the operations whose
  interplay it is about. `TicketAsks` has one member of staff: the second department
  is only a target there.
- User runs: an administrator, a member of staff and, for sign-ins, a free id and a
  Google account whose address nobody has, or whose address the member of staff has.
- `InboxDelivery`: two users, two requests, two notifications on a page of one, so
  that a read notification competes with an unread one for the page.
- `Reminders`, `ReminderProgress`: two agents, two jobs, one instance. Keys and
  lives are indexed by instance, and the proof of `OncePerLife` covers any number of
  them. On two working days the same agent has two keys; the liveness run has one
  working day, because its property is about a single one. `MaxNotes` may stop an
  insert, which `BacklogIsReminded` excepts by name.
- `BlobSweeps`: two files, two requests, one sweep at a time. `ListLimit` covers all
  files in this run, since the code asks for one page and never for the next.
- `TicketReads`: two tickets on pages of one with the first page only (with the
  second page it is the same result, in three times the states), two categories for one
  name, two requests that change them, one read. The tickets move only by closing,
  which is what takes a ticket out of the status filter; the summary query is the one
  by category. `MaxTicketRequests` = 1 keeps one request that writes a ticket's category
  in flight; with 2 the result is the same, over 1,907,669 states.
- Violations: the smallest instance that shows the case.

### Fairness

Only liveness properties use it, and each assumption is a fact of the system:

- `Inbox`: a user's screen fetches the inbox again and again (it does so when it
  mounts, on reconnecting, and by polling), hence WF of `List(u)`. Nothing else is fair:
  pushes may all be lost and requests may hang.
- `DailyReminder`: a job that has started goes on (`Proceed`); it may fail
  instead, and no job has to start.
- `BlobSweep`: requests end (`maxDuration` in `src/vercel.json:10`), time passes,
  and the cron of `src/vercel.json:15` starts one sweep after the other. Sweeps may fail
  at every step; `SF` of `ReadReferences` and `Delete` says that they do not fail at
  the same step each time.

### What the code does not keep

Each configuration below refutes one sentence of a comment or a document. The first
two are runs of `PROJECT.json`, which quotes their sentences under "findings"; the
others are kept beside them for a reader who wants to see the counterexample.

| Configuration | Module | Property | Sentence | What refutes it |
|---|---|---|---|---|
| `StaleAssigneeCloses` | `MCTicketService` | `OnlyAssigneeCloses` | `transitions.ts:107` | close by the assignee overlaps a reassignment |
| `PatchIsReverted` | `MCUserDirectory` | `OnlyAdminsChangeRoles` | `middleware/auth.ts:107` | any request of a user overlaps the PATCH of that user |
| `StaleRefusal` | `MCTicketService` | `RefusalRestoresStatus` | `TicketService.ts:1054` | a refusal overlaps another refusal and a new ask |
| `StaleAskerIsTold` | `MCTicketService` | `AskersAlwaysHear` | `TicketService.ts:1036` | the same: the asker of the first ask is told |
| `CommentAfterClose` | `MCTicketService` | `NoCommentOnceClosed` | `src/docs/feature-plan.md:157` | a comment overlaps a close |
| `StaffWithoutDept` | `MCUserDirectory` | `DeptStaffHasDept` | `UserService.ts:154` | two PATCH of one user |
| `TwoCreates` | `MCUserDirectory` | `ActiveOwnerIsAConflict` | `UserService.ts:186` | two POST of one address |
| `RemindedTwice` | `MCDailyReminder` | `OncePerDay` | `src/docs/test-design.md:116` | a restart between two jobs of a day |
| `ShortPage` | `BlobProperties` | `OrphansGo` | `blob-sweep.ts:30` | referenced files fill the only page (one file here, 1000 in the code) |
| `AttachedIsSwept` | `BlobProperties` | `ReferencedSurvive` | `blob-sweep.ts:31` | a browser upload older than an hour, attached while a sweep deletes |

The passing runs have the counterpart of most of them: what holds although requests
overlap, or unless the very row was written in between (`RefusalUndoesTheAsk`,
`AskersHear`, `RolesChangeKnowingly`, `StaffNeedDepartments`,
`CreateSparesActiveRows`, `OncePerLife`, `FreshFilesSurvive`). A login that overlaps a
DELETE may still hand out a cookie, which `CookiesAreForTheActive` allows in that case
only; `requireAuth` looks at the row again before the cookie is of any use.

A conditional UPDATE that compares the status alone cannot tell a row that changed
and came back, or changed in another column, from one that did not change, and a
comment has no condition at all. Redirects to the current department, notifications
of a former assignee or asker and categories written after a close follow from it.
The user table has no conditional UPDATE anywhere, and the sweep deletes what it
looked up earlier.

Documents and code also differ without any overlap, and the model follows the code:

- `src/docs/feature-plan.md` lets `assignAgent` start from Pending only and
  `overrideSeverity` from any open status; the table allows both from Pending,
  Assigned and InProgress.
- `feature-plan.md:410` blocks the deletion of a category in use; the foreign key
  sets it to null.
- `src/src/lib/realtime.ts:19` says that the cron's reminders are not pushed, but the
  sink's middleware wraps `POST /jobs/daily-reminder` too.
- A `?status=` of unknown words filters nothing.
- `src/src/openapi/components.ts:233` gives `open` a minimum of 0; it is the
  difference of two counts that run in parallel.

## 4. What is proved

For every directory, any number of tickets, users, processes, categories, events,
notifications, instances and files, under the named `ASSUME`s of the modules:
`NULL` lies outside the value sets; directories, seeds and operation sets have their
types; the seeded users obey the two unique indexes of `schema.prisma`, seeded
department staff have a department, and a seeded Google account is that of the row's
address (`SeedRowsAssumption`); the ticket table is finite and the summary has the
query by category (`ReadAssumption`). TLC evaluates them in the runs.

| Theorem | Statement |
|---|---|
| `TicketProofs`: `TypeCorrect` | `[]TypeOK` |
| `TicketTrailProofs`: `TrailIsAChain`, `ClosesAtMostOnce`, `AsksAreTracked` | `[]AuditChain`, `[]ClosesOnce`, `[]AskIsTracked` |
| `TicketTrailProofs`: `RowsMatchTrails`, `OnlyCommitsArePublished` | `[]AttributesMatchTrail`, `[]PublishedIsCommitted` |
| `TicketTrailProofs`: `ClosedStaysClosed` | `ClosedIsFinal` |
| `TicketTrailProofs`: `NothingChangesSilently`, `TrailsFollowTheTable` | `[]NoSilentChange`, `[]TrailFollowsTable` |
| `TicketTrailProofs`: `ActorsHadAuthority`, `TheRightPeopleAreTold`, `AsksHaveProof` | `[]AuthorityWasHeld`, `[]TheRightPeopleKnow`, `[]CloseRequestsHaveProof` |
| `TicketTrailProofs`: `OldValuesAreRecorded`, `AssigneesAreTold` | `RecordsWhatItReplaces`, `AssigneeHears` |
| `TicketTrailProofs`: `AskersAreTold`, `RefusalsUndoTheirAsk` | `AskersHear`, `RefusalUndoesTheAsk` |
| `TicketRefinementProofs`: `ServiceImplementsLifecycle`, `ServiceImplementsTable` | `Lifecycle!Spec`, `Table!TableSpec` |
| `UserProofs`: `TypeCorrect`, `RolesAreGranted` | `[]TypeOK`, `[]OnlyGrantedRoles` |
| `UserProofs`: `DeletionSticks`, `PeopleAreNotDuplicated` | `OnlyCreateRevives`, `[]OneRowPerPerson` |
| `UserProofs`: `StaffHaveDepartments`, `RolesAreAdministered` | `StaffNeedDepartments`, `RolesChangeKnowingly` |
| `UserProofs`: `CreateSparesTheActive`, `LoginsAreForTheActive` | `CreateSparesActiveRows`, `CookiesAreForTheActive` |
| `CategoryProofs`: `NoDanglingReference`, `OnlyOverlapDuplicates` | `[]CategoriesExist`, `[]DuplicatesNeedOverlap` |
| `CategoryProofs`: `BlankNamesAreDeletions`, `ListsAreBracketed` | `[]BlankMeansRemoved`, `[]ListIsBracketed` |
| `InboxProofs`: `TypeCorrect`, `NewsIsCommitted`, `OwnersDecide` | `[]TypeOK`, `[]NoPhantomNews`, `OnlyTheOwner` |
| `ReminderProofs`: `RemindsOncePerLife`, `KeysStandForReminders` | `[]OncePerLife`, `[]KeysAreAnswered` |
| `BlobProofs`: `TypeCorrect`, `FreshFilesAreKept`, `MidFlightIsKept` | `[]TypeOK`, `[]FreshFilesSurvive`, `[]MidFlightIsSafe` |

Each follows from the specification of its module; each proof module defines an
inductive invariant `IInv` (two layers of it for tickets).

- Tickets. `TypeOK` is not inductive: a write copies the request's argument and
  prior status into the row. With `SnapshotChecked` (in `TicketProofs`) it is: a request
  about to write passed its checks on `before`, and nothing changes `before` later. From
  that invariant, `StepShape` says what any step does to a ticket: it leaves row and
  trail alone except for the category, or it opens the ticket, or it appends one event
  whose `from` is the row's status before the step and whose `to` is its status after,
  with the ask columns set or cleared as the event's type demands. The key fact is
  `RowMatches`: the UPDATE commits only when the current status is the snapshot's.
  Chain, single close, ask tracking, the attributes and finality of Closed follow from
  the shape; the refinement maps each shape to the lifecycle step of the same name and
  the rest to stuttering. Publications need one fact more, `PublisherCommitted`: a
  request that goes on to publish has written its row, and what could be told of a row
  can be told of it later.
  `NoSilentChange` needs only that trails grow by one event at a time, and that a step
  which adds none leaves the audited columns alone. Authority does not follow from
  the trail alone, because no write looks at it. The invariant is that every assignee
  and every department in a row, *and in every snapshot on which a request was let
  through*, was put there by some event (`RowsHaveBasis`, `SnapshotsHaveBasis`);
  trails only grow, so a basis once there is there when the request writes. Close
  requests and comments are counted: the only step that adds an ask to a trail also
  adds a comment by its author.
  What a write says of the row (old values, audience, restored status) comes from the
  snapshot. `OnTime` names a write whose trail has not grown since its read; then
  `NoSilentChange` makes the snapshot the row (`OnTimeFacts`), and `InformedStep` says
  what each operation computes from it. `refuseRedirect` reads a second time, so its
  proof needs one invariant more, `PriorIsCurrent`: while no event is added, the status
  taken from the newest ask is the one before the pending ask.
- The table. `ServiceImplementsTable` maps each commit to one `Move`, `Open` or
  `Categorise` on the columns that other modules read. The crux is that a write
  changes the row as it is at the commit: columns that the handler does not name
  keep whatever overlapping requests gave them.
- Users. Rows are never removed and grants never withdrawn, so what a request has
  read of a row stays true in the sense the invariant needs however long the request
  takes: the row is there and its role was granted. `RequestOK` says what each
  operation carries; `Lasting` carries it across the steps of the others.
  One row per person adds `Identities` (the two unique indexes, and that a linked
  account is that of the row's address) and `Linking`: an address never changes, so
  the row that a sign-in found by its address still is the one to link.
  The four promises that overlapping requests break are proved with their exact
  proviso, for any number of requests: `outdated` is a history of which requests rely
  on a row that has changed, and `HistoryWatches` shows that it restricts nothing.
  The invariant `WatchIInv` says that what a request has read and still relies on is
  what the row holds, *unless* the request is outdated; each step of another request
  either leaves the row alone or sets that mark (`StillFresh`). What a request writes
  on a row that is not outdated keeps the promise, so a promise is broken only by a
  request that `ActsOutdated`.
- Categories. The foreign key compares at the write itself, so references need no
  memory. Names do: a request that is to write a name knows in `rivals` every
  category that got the name since its look-up, and that is the only way to a duplicate.
- Dashboard. The count by category sees only categories with a row, by the foreign
  key. From then on each of them has its row or is marked as removed, since ids are
  never used again; what the look-up of the names does not find has been removed.
- List. `ever` only grows and `always` only shrinks while a list runs, so an answer
  once within these bounds stays there (`BoundsMoveApart`). What a single query finds
  lies between the two because `InScope` and `CanView` agree on every row
  (`ScopesAgree`). The rest is counting: the order is strict and total, so no two
  tickets share a place (`PlacesDiffer`) and a page holds at most `PageSize`; the place
  of a ticket is at least the number of those before it in `always` and at most
  that in `ever` (`PlaceIsLed`).
- Inbox. A request's sink holds rows that it inserted itself: drafts while its
  transaction is open, committed when its status is 200. What a pending markRead has
  found belongs to its caller, and ownership never changes.
- Reminder. A job about to insert has its key in the memory of its instance, and no
  record bears it: `trySet` keeps later jobs out, and its answer kept this one out if
  an earlier one had been there. A key is set by a job that is to insert in its
  next step, and reminders are not taken back, so a key loses its answer only when
  that job fails: one key, one failure. A restart empties the keys.
- Blobs. A sweep holds only files that were old when it listed them, and old files
  do not become fresh again; what a request stored itself is fresh until its
  commit.

Only model-checked: the liveness properties `UnreadIsShown`, `BacklogIsReminded` and
`OrphansGo`, since fairness and ENABLED are out of the prover's reach, and the
violation runs, whose counterexamples are their point. Every invariant and every
action property of a passing run is a theorem. `AsksHaveProof` is proved only: that the
comment and the ask commit together is one step of the model, which no run tests.

## 5. Not modelled

- How often a subscriber sees a downstream event: the publisher tries twice, and the
  repository promises nothing about duplicates.
- `tickets:changed` and `categories:changed` broadcasts: they carry no state, and a
  screen answers each with a fetch.
- Text search, the other list filters, the shape of DTOs, the average handling time,
  and department names of the dashboard (departments are never deleted).
- The OAuth exchange, bcrypt, the domain allowlist and token expiry: libraries and
  checks of one request.
- When a notification was read: a second markRead writes `readAt` again, and one that
  finds its row deleted fails. The model keeps whether a row is read.
- The rollback of a transaction's statements: commits are one step, Postgres' word is
  taken for it.
- Ticket codes: one call of a Postgres sequence, unique by the database.
- The HTTP shell (routing, validation, envelopes, a library's login rate limit) and
  the OpenAPI document: no state.

What could come next: `TicketService` composed with `UserDirectory`, for roles that
change while a ticket request is in flight, and the publisher's two attempts with what
a subscriber may assume of them.
