# Verification of the document workflow backend

The backend is a Django application (REST, Celery tasks, WebSockets, PostgreSQL)
for the document flow, the personnel and the communication of a company.  This
directory holds TLA+ modules that model its core, TLC configurations that check
them on small instances, and TLAPS proofs.  Every definition is translated from
the source; `PROJECT.json` maps it to its lines.

## The system

What makes the system hard to get right is stated once in `config/settings.py`:
`ATOMIC_REQUESTS` is commented out, so a request is a series of database
statements, each its own transaction, unless the code opens one.  Several
server processes and Celery workers run such series side by side.  A saved
model object writes every column it was loaded with (`BaseModel.save`), and is
inserted again if its row was deleted meanwhile.

| Component | State | Operations | What must hold | Module |
|---|---|---|---|---|
| compose workflow (`apps/compose`) | `Compose`, `Approver`, `Signer`, `BaseDocument` rows | create, approve, reject, sign, add-approvers, custom_update, update, restore | approval before signature before curator; a text is registered once, and in the end; a signature covers the text it was given on | ComposeWorkflow, ComposeRequests, ComposeSerial |
| compose register numbers (`apps/compose/services.py`) | `Compose.register_number_int` | generate: largest number of the journal plus one | no number twice | - |
| docflow registration (`apps/docflow`) | `RegCounter`, `BaseDocument.register_number` | `allocate_reg_number`, create | no number twice, no waiting forever | RegNumbers, RegCounter |
| docflow review and execution | `Reviewer`, `Assignment`, `Assignee`, `InboxItem` | review, assign, acquaint, perform, verify, remove from control; fan-out by signals | the inbox of a document equals its current reviewers and assignees | DocFlow, FanOut |
| business trips (`apps/compose`) | `BusinessTrip`, its stops, bookings, IABS history | create the certificate, mark arrival and departure, reset, change the route, extend | one place at a time; nobody arrives before he has left | Trips |
| negotiation | negotiation rows | negotiate | all negotiators answer | - |
| attendance (`apps/hr`) | ingest cursor, `DailySummary`, the cached map of persons | two Celery tasks with outages and retries | no day lost to an outage, a rollback or a retry; a reconciled day keeps its events | Attendance |
| work schedules (`apps/hr`) | the company's schedules, an employee's | set-default, assign, bulk assignment | one default | Schedules |
| payroll (`apps/hr`) | periods with two locks, cells | nightly generation, approval of the mid and the final window | an approved window is not rewritten | Payroll |
| manager ordering (`apps/core`) | `sort_order`, `is_primary` | create, sync, delete, move, reorder, set-primary | one leader, the order kept | ManagerOrder |
| policy (`apps/policy`) | roles, rules, cache | evaluate, invalidate | a revoked right is not served from the cache | - |
| notifications | delivery log, pairing codes | send with retries, pair | at most one message per key | - |
| chat (`apps/wchat`, `config/consumers.py`) | chats, messages, receipts | send, edit, read, delete over WebSockets | read marks and last messages agree with what exists | Chat |
| company sync (`apps/user`, `apps/company`) | accounts, signers | nightly import, deactivation of leavers, manual update | one active account each, leavers disabled | StaffSync |
| news, calendar, sessions, files, reference data, PDF | plain rows, I/O | create, read, update, delete | little that a model would show | - |

How they interact: a signature that completes a compose calls registration, which
creates a docflow `BaseDocument` with a review or an assignment, renders a PDF,
stores a file and may start Celery tasks (action log, trips, IABS).  Docflow
signals keep the inbox in step with reviewers and assignees.  Every part writes
the action log through Celery.

The hard behaviours, each at its line, are the hazards in `PROJECT.json`.

## Reading the modules

Every module has its variables, an `Init`, one action per operation or statement,
`Next` and the specification, and its properties at the end.  The granularity is that
of the code's transactions: where a request is one transaction, or where it is the
sequence of requests that is hard, an action is a whole request (ComposeWorkflow,
DocFlow); where statements of several requests or tasks interleave, an action is a
statement (ComposeRequests, RegCounter, FanOut, Schedules, Attendance, Payroll, Chat,
Trips, StaffSync, and ManagerOrder but for its deletions and reorder).  Where a
statement waits for a lock, it is two steps: one takes the snapshot of the rows it will write,
the other writes those of them that are still there.

Variables called history (`over`, `oldSigners`, `oldApprovers`, `racing`, `astray`,
`disorder`, `blind`, `doubt`, `muddled`, `overtaken`, `restored`, `reconciled`; in FanOut
also the fields `late` and `alone`) stand for nothing in the database.  They record
that a step happened by which a property is lost in the code as it is; the property then
says exactly where it stops.  What makes each exception necessary is told below.

An operator `Slip_A` is the action `A` with a plausible mistake.  No specification
uses it: it serves to see that the properties notice such a mistake.

## Plan

Done, in this order: the compose workflow as whole requests and statement by statement,
register numbers, DocFlow with its fan-outs, and then the parts with state of their own:
attendance, payroll, managers, chat, trips, accounts, schedules.

What would be next: the decree linked to a trip notice (`approve_decree`,
`sign_decree`, `register_decree`), which duplicates the compose workflow for a second
document; negotiation, whose update changes a text that is signed; the compose register numbers;
attendance exceptions; concurrent edits in ComposeRequests.  Every safety property of a
passing run has a proof; further ones would strengthen what the existing properties
leave out, such as `NoRegistrationIsLost` for curators without an assistant.

## ComposeWorkflow

One composed document.  `signers` and `approvers` are functions whose domains are
the live row ids; a row is a record of the columns the workflow reads.  `curator`,
`content`, `status` and `isSigned` are columns of the compose, where `content` is
the number of times the text changed, and a signer row remembers (`over`) the
text its signature was given on, which the code does not store.  `docs` counts
the `BaseDocument` rows of each text.

Every action is a whole request: `Approve`, `RejectApproval`, `Sign`,
`RejectSigning`, `AddApprover`, `CustomUpdate`, `AuthorUpdate`, `RestoreCompose`.
`Sign` contains the deletion of the approvers its signer had added, the hand-over to
the curator's assistant and `RegisterDocumentAfterSigning`.  An exception in a
registration (assignment, PDF, file store) is `BreakOff`: the `BaseDocument` may be
there, the compose is not done.  A curator without an active assistant makes the
handler raise after the signature is saved.  `AuthorUpdate` is the full update with
the lists of approvers and signers; the rows of a list are keyed by user and visited
one after the other, and as each visit looks at the approvers again, the outcome
depends on which row is first and which is last.

Left out: the check that the caller is the person of the row; right to update; text
comparison (an edit changes the text); `is_active` of assistants (one relation);
negotiator and invited signers (they take the same path as `signer`); deletion of a
compose; read marks (their saves are in ComposeRequests); trip notices linked to a decree.  An author adds at most one
approver and one signer per update, never empties the list of signers and
names a curator by the curator field only.  Row keys are the smallest free ones, and
may be used again after a deletion.

### Runs

- `ComposeWorkflow.cfg`: two signers, one approver, two possible curators of whom
  only one has an assistant; one edit, one update by the author, one approver
  added on the side, one failed registration.  Each bound is one because each
  property is about what a single such event disturbs; together they meet in every
  order (3.7 million states).  Checks the type invariant, `OneDocumentPerText`,
  `VisibleAfterApproval`, `CuratorAskedLast`, `EditWithdrawsSignatures` and
  `CuratorSignsBeforeRegistration`.
- `ComposeWorkflowLive.cfg`: two edits, no updates, nothing added on the side and no
  failure.  `EventuallyRegistered` and `VisibleOnceAllApproved`.  Fairness: everyone
  who is asked answers in the end, an approver by approving and a signer by
  signing, and a signature that is given registers without failing.  The code makes
  nobody answer; this is the assumption under which the workflow is meant to end,
  and no fairness is put on edits, refusals or restores.
- `ComposeWorkflowStall.cfg` (violated): `RegisteredOnceAllSigned`.  An approver added
  on the side who approves after the last signature leaves the document complete
  and unregistered: only `sign` registers.
- `ComposeWorkflowStale.cfg` (violated): `SignedTextIsCurrent`.  An author's update of
  the text withdraws signatures only if an approver is pending at that moment.

`VisibleAfterApproval` is a property of steps: none but the addition of an approver on
the side lets a signer see the document before every approval is given.  It and
`EditWithdrawsSignatures` speak of tables in which a user has one signer row
(`NoTwins`): the author's update keys rows by user and does not see the second.

The properties of the first run say where they stop: `OneDocumentPerText` allows
one more document for each approver added on the side (his approval can ask the
curator again after the document is done) and each registration that broke off.

## ComposeRequests and ComposeSerial

`ComposeRequests` runs the handlers of ComposeWorkflow statement by statement for a
set of requests.  `req` holds where each request stands and the rows it loaded.
Saving a loaded row writes all of it, and inserts it if it was deleted.  One step is one
write, with the reads that decide about it; the loading of a row is a step of its
own.  So the two checks of `sign`, whether to hand over to the curator's assistant
and whether to register, are two steps, as are the creation of the `BaseDocument` and the
last save of the compose.

`ComposeSerial` adds `before`, the database at the last moment no request was running.

- `ComposeSerial.cfg`: one request at a time, with edits, approvers added on the side and
  failed registrations.  `ImplementsWorkflow`: at the quiet moments the system
  behaves as ComposeWorkflow.  This ties the two modules together: the properties of
  ComposeWorkflow hold of the code when requests do not overlap.  (It is also proved.)
- `ComposeRequests.cfg`: two requests at a time on a document with two signers, two
  approvers and possibly a curator; approvals, signatures, refusals and readings, no edits
  and no failures (`AnswerSpec`).  Edits among other requests are left out:
  there a reset and a saved copy can undo each other, as the hazards say.
  `NoLostRegistration` and `NoLostApproval`: whatever the interleaving, the last
  signature and the last approval are noticed, up to the old copies told of next.
  Two requests are enough for a request to miss another's write, and they are alike
  (symmetry); four row keys leave room for rows created twice.  5.1 million states.
- `ComposeRequestsCurator.cfg` (violated): `CuratorSignsLast`.  Of two last signers the first
  does not hand over, as the second's signature is missing, and then registers, as it
  has arrived in between: the curator is never asked.

Reading is a request, too: when an approver or a signer opens the document for the first
time, `retrieve` of his view loads his row, sets `read_time` and saves the row whole
(`LoadSignerRow`, `SaveSignerRow` and the same for approvers).  `read_time` itself is not kept,
so a reading may find it empty at any time.  A copy that was loaded before another
request wrote the row undoes what that request did: over a signer's row it hides the
document again (the last approval is lost on him) or takes his signature back; over
an approver's row it takes his approval back, and a second reading that had loaded the row
with the approval brings it in again, when nobody looks whether it was the last.
`oldSigners` and `oldApprovers` are the rows over which such a copy was saved, by a
reading or by a signer's refusal.  `NoLostApproval` ends with the first old
copy over an approver's row, and does not speak of the signers whose own row was so
written; `NoLostRegistration` ends with the first old copy of either kind.  Without
these exceptions TLC finds both violated: a signer who opens the document while the
last approval arrives may never see it in his list.
`MCBound` follows no behaviour past the first such row of an approver, where both
properties end, nor past the second of a signer, and bounds by `MCMaxDocs` the
registrations that a signature taken back and given again repeats.

`CHECK_DEADLOCK FALSE` in these runs: without a restore a registered document is at rest.

## RegNumbers and RegCounter

`RegNumbers` is the promise: within a journal and a year each request takes the next number.
`RegCounter` is `allocate_reg_number` with the creation of the document around it.
A `Key` is a journal with a year.  `counter` is the committed `next_no` (0 while there is no
row), `lock` the transaction that holds the row or has inserted it, `pc`, `key`, `order` the request's
own state and `number` the number its document bears.  `Get` is the locking read, `DoesNotExist`
the read that finds no row, `Create` the insertion, `GetAgain` the violation of the
unique index after which `get_or_create` reads again, `Save` the update and the commit,
`File` giving the number to the document.  Any request may fail at any point.
What PostgreSQL does (a locking read waits and sees the committed row, an insertion
of a key another transaction has inserted waits for it) is assumed.  A number an
author types into the document afterwards, and a counter changed in the admin pages,
are not modelled.

- `RegCounter.cfg`: three requests for two keys: one pair competes for the first row of
  a key while a third comes later or uses another key.  `DistinctNumbers`,
  `TakesNumbersAtomically` (refinement of `RegNumbers`) and `EveryRequestEnds`, under weak
  fairness of each request: the server runs it, and locks are released.  Every request
  is made once, so weak fairness is enough for the one that waits.
  `CHECK_DEADLOCK FALSE`: when every request has ended, nothing is left to do.

## DocFlow

One registered document.  `reviewers`, `assignments` and `assignees` are tables keyed by row id;
`toReview` and `toExecute` are the two kinds of inbox items.  Every action is a
whole request with the signals its saves and deletions fire: registration with a list
of reviewers, review and acquaintance, assignment and its nested PUT, child assignments, project
resolutions and their verification, performing for oneself and as a controller for all,
removal from control, and deletions.

Two behaviours of the code show here.  `sync_fanout_to_assignee` compares the inbox of
the *document* with the assignees of *one* assignment, so with two assignments the
inbox follows the one saved last: `DocFlowInbox.cfg` violates `ExecuteInboxExact`, what
its docstring promises.  And the deletion of an assignment with assignees fails: Django
deletes the assignment before the assignees' signal handlers run, the handler looks up
`instance.assignment`, and the `DoesNotExist` rolls all back.  `AssigneesKeepReviewer`
rests on that.

Left out: a reviewer moved to another document, rows edited inside a PUT of the document,
plain PUTs of reviewer and assignee rows, a child assignment with another
reviewer than its parent, an update that changes reviewer or kind of an assignment,
lists that repeat a user, deletion of the document, comments, overlapping execution fan-outs.

`DocFlow.cfg`: two people, one with an assistant, two reviewer rows, two
assignments, two assignees at a time; one change of reviewers and two of the execution, which is
enough for a second assignment and its update or deletion.  Invariants
`DocTypeOK`, `ReviewInboxExact`, `ExecuteInboxOfOneAssignment`; action properties
`AssigneesKeepReviewer`, `DoneStaysDone`, `PerformedByReader`.  `CHECK_DEADLOCK FALSE`:
everything may be done.

## The office: five parts with tasks and stale saves

`MCOffice` puts five modules side by side, with the variable `part` saying which one
moves: they share no state, so their product would show nothing more.  In
`Office.cfg`, `x` and `y` are two workers, requests or people, alike in each part
(symmetry).  `CHECK_DEADLOCK FALSE`: the bounds end every part.  No fairness is assumed
anywhere here: a broken task, a lost hook or a worker that dies is an ordinary event
in this code, and everything checked is safety.

**Attendance** (`hr/tasks/sync_daily_attendance.py`).  The back-fill holds the cursor's row in
one transaction, moves it over the days missed, syncs today and afterwards syncs
yesterday again; the watch syncs today only.  Reports come in pages, an employee is
looked up in a cached map that one worker builds while the others, finding it locked,
take everybody for unknown.  What happens to one record stays with it: any exception while
its row is saved undoes that row alone, is logged, and the day goes on (`UpsertFails`).  An
empty report, or one without the employee, is as good as any other (`FetchNothing`).  An
outage commits what is there, any other exception rolls back and the task is tried
again, and a worker may die at any point.  A task that runs over midnight, which would
have to start minutes before it, is not modelled.  Three days of which two are working days
(so a day is skipped), one event per day, two workers, one retry, three tasks: a late task can
meet a reconciled day, and a retry a moved cursor.

`CursorPassesStoredDays`: the cursor moves forward only, and a working day it passes
has a row, unless the run that passes it has itself passed over the record (`skip`).
So the code does not promise that every day has its row: a day on which saving failed, or
the terminals had nothing to say, is passed like any other, and no later task comes back to it but
yesterday's reconciliation.  What it promises is that outages, rollbacks and retries leave no
further gap.  `ReconciledDayComplete`: a day that a run has synced again without passing the
employee over (`reconciled`) keeps all events.  Two tasks that find no row insert one each; nothing in the
database prevents it although a comment in the file says "one row per user+date", and a row found
twice is never saved again: the error is logged like any other, and the property exempts such days.

**Payroll** (`hr/services/payroll_generator.py`, `hr/views/v1/payrolls`).  A generation reads the periods and
their locks, then writes the cell of each; the approvals of the mid and final window lock
them.  A month of two days, one in each window, two periods, two generations at a time and
three in all, two requests that send to review with what they loaded before.
`ApprovedIsClosed`, `LockedHoursStand`.  Exempt: the generation
that was writing when the window was decided (`racing`).  A rejected window stays locked.
Sheets of a branch have no department, so the unique constraint does not hold them apart, and
with two of them generation fails every night.

**Chat**.  Sending inserts the message and leaves the last message and the delivery to a hook
after the commit; edits and deletions load a row, or the chat, and save it whole
later.  Two users, two messages, two stale rows: enough for a message to be committed after a later
one and for a hook to be overtaken.  `ReadStaysRead`, `NoGapBelowRead`, `LastMessageIsNewest`.
The exceptions (`astray`) are ids that commit out of order and a last message set from
old data.  A stale save brings back a deleted chat, and an edit a deleted message.

**Trips**.  The stops of one certificate.  A mark checks a row, loads it, saves it, creates
the next stop and saves the trip's status as separate statements.  Two regions besides the sender's, one
request under way while resets, changed routes and repeated certificates come in between, three stops.
`DepartureStands`, `OnePlaceAtATime`, `OneOpenStop`.  Not followed further are states
after a save of rows changed since they were loaded (`MCNotOvertaken`): nothing is promised of
them.  `disorder` names the other exceptions: the certificate created twice, a departure
reset.  `UpdateTripVerifications` reads `region_ids` where its serializer gives
`regions`, so that call deletes the stops nobody has visited and leaves the trip inactive; the model has
it as it is.  A reset of the sender's departure leaves the trip `on_trip`.

**StaffSync** (`user/tasks.py`).  The import reads a chunk of the register, creates accounts, then updates
them, row by row if the batch is refused (`AfterCreating` and `AfterUpdating`, recursive functions over
the rows of the chunk); the other task looks up each active account
and disables it.  Two employees, two phones (which may be swapped or passed on), three accounts,
four changes.  `OneActiveAccount`, `RefusedRowsAreClashes`, `LeaversAreDisabled`.
Exempt: accounts a request had loaded before they were disabled and saved after
(`restored`), people whose lookup failed, and whoever has two rows as a signer: there
the deactivation raises and rolls back every night.  Two swapped phones are refused for ever.

## The desk: requests that overlap

`MCDesk` is built the same way; `Desk.cfg` has five parts, two of them of one module, and
924 thousand states.

**ManagerOrder**.  The managers of a branch or a department.  Every request is a series of
statements, and a statement writes the rows its snapshot shows:

- a creation inserts the row and then clears the others (`CreateManager`, `AskUnset`, `UnsetOthers`);
- sync looks for the rows, locks those still there and writes the list (`LookForRows`, `LockLinks`,
  `Sync`); in a branch without managers it locks nothing;
- set-primary loads the row, clears the others by one statement and saves the row by the next;
  the two writes are committed together, so they are one step after the snapshot (`AskPrimary`, `SetPrimary`);
- a PUT saves the row whole with the mark it is sent or had loaded, and clears nobody (`Put`);
- moves read the list, then lock it (`Read`, `MoveUp`, `MoveDown`, `MoveTo`).

A branch can have two leaders.  A row that is inserted while a sync, a set-primary or a
creation runs is in none of their snapshots; two syncs of an empty branch exclude each other by
nothing; and a PUT marks a row beside the others.  There is no unique constraint.
This is at odds with the comments "ensure one primary per branch" (`core/views.py:514`) and
"unset others atomically" (`core/api/serializers.py:73`).  `OneLeader` says what is left: at most
one leader, but for primary rows whose creation has not yet cleared the others (`Being`), unless a clearing
missed a row or a row was marked without one (`muddled`); and the next clearing that misses no
row ends the muddle.  `OthersKeepTheirOrder` holds of requests whose list has not changed since
they read it.  `SyncShowsTheList` compares the algorithm of sync with the listing it should
produce, for every table reached and every list.

Part `managers` has one client, three users and three rows, lists of one and of three
users, sort orders 0 and 1 (equal ones matter): the order.  Part `leaders` has two
clients and two rows of sort order 0 (`TwoRows`): the marks, where requests overlap.  Not modelled: a
PUT that gives a row to another user, active dates, and overlaps inside deletions, reorder and
the numbering at the end of sync, which are single steps.

**Schedules**.  `set_default` of the company clears and marks in two statements without a lock, and two of them
leave two defaults although its docstring speaks of the sole default set atomically; with the
id of a deleted schedule it leaves none.  For an employee `set_default` locks the
employee's row, and the bulk assignment the rows of schedules it found: neither sees the
other's lock.  The UPDATE by which `set_default` clears the others is of the rows that were default when it
began (`AskDefaults`); it waits for who holds them and looks again at these only (`ClearDefaults`), so
a default that a bulk assignment commits meanwhile stays.  The two can also wait for each other, and
then the database gives one up.  Two clerks and three schedules; two planners and three plans.
`OneDefaultShift` and `OneShiftEach` say when no request is under way there is one default, but for
overlaps (`doubt`), and for the employee (`blind`) after a bulk assignment that had not seen
the other default or made its own while a `set_default` was already clearing, and after a
`set_default` that was given up.

**FanOut**.  `sync_fanout_to_review` statement by statement: the rows wanted, the items there, the
insertion, the deletion.  A save is committed before its handler, a deletion together with it.
An inserted item refers to the row that was saved: if that row is deleted meanwhile the
insertion fails (`RowIsGone`), if the deletion is under way it waits, and if the deletion waits
for that item in turn one of the two is given up (`GivenUp`).  A deletion whose handler
finds anybody's item missing fails as a whole, as the item it would insert refers to the row it deletes
(`DeletionFails`).  Two requests, two people, three rows, so a person may have two.
`WrongOnlyIfOvertaken`: with no handler under way the inbox is right about everybody but those
whose row changed while a handler that had read the rows was not done (`late`), whose row was deleted while
another handler ran, or whom a handler given up was to put right; and a handler that runs
alone and does not fail puts everybody right again (`alone`).  This is the part of
`ReviewInboxExact` that survives overlaps.

## Proofs

Eight modules prove, for every value of the constants their assumptions allow, all
the safety and action properties that the passing runs check, and both refinements.

`ComposeWorkflowProofs`, for all sets of people, lists and bounds, from `RowAssumption`
(people and keys) and `BoundAssumption`:

- `TypeCorrect`: the type invariant is inductive.  The work is in `AuthorUpdateTables`: whatever
  lists the author sends and in whatever order rows are visited, tables stay tables.
- `OneDocument`: `OneDocumentPerText`.  The bound alone is not inductive: a step that
  registers must be known to start below it.  `DocumentsInv` adds that a text that has used
  up its allowance is done with every signature and approval given, so no handler gets as
  far as registering again, and that a text not yet written has no document.
- `CuratorIsAskedLast`: `CuratorAskedLast`.  `CuratorInv` adds that, until the author updates the
  lists, a row of kind `basic_signer` is the curator's: the row by which a handler finds him
  cannot be somebody else's.  `CuratorSignsFirst` is the same argument for the step that registers.
- `ApprovalComesFirst` and `EditsWithdraw`: `VisibleAfterApproval` and `EditWithdrawsSignatures`.
  Both follow one update of the author through its visits: each visited row is withdrawn or
  hidden if anybody is pending at that visit, and who is pending after the first visit is
  pending at every later one.
- `SignersWaitForSomebody`: `VisibleOnceAllApproved`, until the author updates the lists.  `VisibleInv`
  adds that all signers see the document or none does, and that they see it if all approvers are
  assistants of the curator: an edit deletes just those rows.  Hence the hypothesis, found when the
  proof failed without it: nobody asked to approve is an assistant of a possible curator, as in
  `ComposeWorkflowLive.cfg`.  The code does not exclude it, and an edit then leaves the document hidden
  with nobody left to approve (with `aide` for `ann` in `MCAskedApprovers`, TLC finds this in one step).
  The other hypothesis is `~SkipsApproval`: where signers need not wait, they see the document one by one.

`ComposeRequestsProofs`:

- `NoApprovalIsLost`, `NoRegistrationIsLost`: the last of several overlapping answers is noticed,
  for any number of requests and rows, up to the old copies of whole rows that the properties
  exempt.  Both rest on the order of statements: a request saves
  its row before it looks at those of the others, so when everything is there, some request has
  yet to look (`SomebodyShows`, `SomebodyRegisters`, on top of `AnswerTyped`).  A copy is old
  if its row has been written since it was loaded; one that is not old changes nothing the
  others look at.  The second has two
  hypotheses, which the run `ComposeRequests.cfg` meets: signers wait for the approvals
  (`~SkipsApproval`: in the one type of document where they need not, an approval after the last
  signature leaves it unregistered, as in `ComposeWorkflowStall.cfg`), and each curator has an
  assistant; without one the handler raises before it registers.
- `OneRequestIsOneStep`: `ImplementsWorkflow`.  With one request at a time, statement by statement, the
  database goes through the steps of ComposeWorkflow.  `SerialInv` says for each point of
  each handler how the rows differ from those in `before`, and that the loaded copy is
  current; then the last statement of a request is the abstract step from `before`, and
  every other a stutter.  One lemma per handler (`ApprovingServed`, `SigningServed`, ...).

`RegCounterProofs`, for all sets of requests, journals and years:

- `CounterInvariant`: who is about to save holds the row and has read what is there; taken
  numbers lie behind the counter and differ; documents bear the number their request took.
- `NumbersAreDistinct`, from it.
- `AllocatesAtomically`: `Save` maps to the abstract step, every other step to a stutter.

`DocFlowProofs`, for any people, lists, keys and bounds:

- `DocTypeCorrect`; `ReviewInboxIsExact`, whose step needs types only, as every change of
  reviewers ends in a fan-out.
- `ExecuteInboxIsOfOneAssignment`, with `AboveClosed`: the ancestors of an assignment are
  assignments, and the line above an assignment contains the lines above its members.  A
  deletion takes all that is below an assignment, so without it the inbox could be left with
  the assignees of one that is gone.
- `AssignmentsWithAssigneesStay`, `DoneIsFinal`, `PerformedByWhoRead`: what any request may do to a
  reviewer, an assignment and an assignee of others.  Each request is followed through the nested
  writes of its lists by lemmas about the tables before and after.

`PayrollProofs`: `PayInvariant` is inductive: beside the types, a generation about to write found
the window of its cell open, or is in `racing` (`WritesUnlocked`).  From it `PayTypeCorrect` (no cell
exceeds a working day, whatever seconds are stored), `ApprovedPeriodsAreClosed` and
`DecidedHoursStand`, for any month, periods and generations.

`DeskProofs`:

- ManagerOrder.  `RowsCanBeSorted`: `ManagerInv` is inductive.  Its part `LinkInv` gives
  `BranchesHaveOneLeader`: beside `OneLeader` itself, for the marks of rows not `Being` created, it
  says that a user has one row (`OneRowEach`), or a sync could mark two rows of the list's head.
  It needs lists without repetition, which `ManagerOrderAssumption` says.  The serializer of sync enforces that; the one of
  reorder checks nothing, and a reorder that names a row twice is not modelled.
  `SyncedListsAreShown` and `OthersStayInOrder` rest on `OrderInv` (ids handed out one after
  the other, sort_orders that are numbers), on `CallInv` (the same of what requests have read; the
  rows a sync holds stay) and on two lemmas: the rank of a row among others decides who comes before whom (`RankGrows`), and is its
  place in the listing (`ListingPlaces`).  After sync the place on the list of a deputy counts the
  deputies before him (`DeputiesFollow`); taking a row out and putting it in elsewhere is
  computed place by place (`MovedPlaces`).
- Schedules.  `PlanInvariant`: unless blind, there is one mark at most or a request is about to
  clear the others, and the clearing statement of a `set_default` has seen every mark but its
  own or another is about to look (`SeesAll`); hence `EmployeesHaveOneDefault`.  `ShiftInvariant`: unless in doubt, a
  company without a default has a request about to set one (`SomeDefault`), and where two are marked the one request
  under way is about to clear or to set exactly that one (`OnlyDefault`); hence `CompanyHasOneDefault`.
- FanOut.  `FanInvariant`: a handler of a saved row goes one way and that of a deletion the other
  (`Paths`), a row being deleted stands until then (`GoneStand`), what a handler has read still holds but for
  those it is late about (`ReadsStand`), one that runs alone sees all (`AloneSees`), and about whom the inbox is
  wrong some handler is concerned, whichever deletions now under way are committed and whichever
  handlers they make fail (`SomeoneIsConcerned`).  From it `FanOutIsRight`, for any number of requests.

`ChatProofs`: `ChatInvariant`: receipts are of committed messages of others (`OfCommitted`) and the
last message is the newest or its hook is still to run (`NewestOrPending`).  From it
`ReadingHasNoGap`, `ChatAtRestNamesNewest` and `ReceiptsNeverGoBack`, for any users, messages and
order of deliveries.

`OfficeProofs`:

- Attendance.  `SyncInvariant` (`AttInv`): one task holds the cursor (`Holder`), what each task has
  read fits the day it works on (`RowFits`: among that, every day it has passed has a row, written or
  about to be committed, or is in its `skip`), and a reconciled day is complete.  It needs that
  no task runs over midnight (`Midnight`, which the model lets come only when none is at work): who writes a day that is over has read
  all of it.  Hence `CursorFollowsRows` and `ReconciledDaysStay`.
- Trips.  `TripInvariant`: as long as nothing is overtaken, a mark works on the stop as it is, the
  sender's stop is the first, the open stop of a region is its latest and the others are left.  Hence
  `NobodyArrivesBeforeHeLeft`, `AtOnePlace`, `OneStopIsOpen`.  `TripAssumption`: finitely many regions, each
  different from the markers of where a request stands.
- StaffSync.  `StaffInvariant`: who was without an account when the chunk was read gets none before it is
  written, but one that a request restores; no two rows of a chunk are about one account or make
  one name; who is due to be disabled has left.  The two statements of the import are recursive
  functions over the rows.  Where a fact about every row is needed, the proofs take the first row at which it
  would fail, which needs only that a set of numbers has a least element.  Hence `OneAccountEach`,
  `WhoLeftIsDisabled`, `RefusedAreClashes`, for any finite set of employees.

Only model-checked are the liveness properties, `EventuallyRegistered` and
`EveryRequestEnds`: fairness and ENABLED are beyond the installed provers.  The four runs that
end in a violation show what the code does not promise, so nothing is proved of them.

## Not modelled

- **Compose register numbers**: the largest number plus one, read without a lock.  Two requests take
  the same and a deletion frees one; RegCounter is the numbering that does lock.
- **The decree linked to a trip notice**, and the Celery tasks that tell IABS: a second compose workflow whose state
  is decided by an outside service.
- **Negotiation**: a list of signers without reset or hand-over.  Its update changes the text
  of an instance that is signed, and reading an instance saves its signer's row whole.  ComposeWorkflow has an
  update of a signed text and ComposeRequests the same reader's save, for the larger list.
- **Notifications**: what is sent depends on what the services answer; the check for an earlier delivery is commented
  out, so a second run sends again.
- **Policy**: pure evaluation; its cache is cleared on every write.
- **Attendance exceptions** and **HR scopes**: their querysets name fields that do not exist (`expla`,
  `valid_to`), so the endpoints raise.
- How the status and the hours of a day are derived from its times, pay totals and reports.
- News, calendar, sessions, files, look-up tables, PDF layout, filters, statistics, GraphQL reads: rows
  that are written by one statement and read by others, or I/O.

The modules stand for about a ninth of the source lines.  Most of the rest are
serializers, look-up tables, queries, reports, translations and layout, which keep
no state that two requests could disagree about.
