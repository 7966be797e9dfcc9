# A TLA+ model of the Time-Off Microservice

The repository is a NestJS service (JavaScript, TypeORM over better-sqlite3) that
keeps the leave balances of employees, takes leave requests through their review,
and keeps both in step with an external HCM. This directory holds a TLA+ model of
it, the TLC runs that check it on small instances, and TLAPS proofs of what matters
most in each component. Source paths below are relative to the repository.

## 1. Inventory

| component | state it keeps | operations | interacts with |
|---|---|---|---|
| Balance service (`src/modules/balance`) | table `leave_balances`: total, used, pending days and a `version` per (employee, type, location); unique on the triple | `ensureBalance`, `reserveDays`, `confirmDays`, `releasePendingDays`, `restoreUsedDays`, `syncFromHcm`, queries | called by leave requests and inbound sync |
| Leave request service (`src/modules/leave-request`) | table `leave_requests`: status, sync status, attempts; unique `idempotency_key` | `create`, `approve`, `reject`, `cancel`, finders, the unawaited `_syncToHcmAsync` | calls the balance, employee and HCM sync services |
| HCM client (`src/modules/hcm-sync/hcm-client.service.js`, `src/common/utils/retry.utils.js`) | nothing but a loop counter | `deductBalance`, `getEmployeeBalance`, `getBatchBalances`, retry with backoff | HTTP to the HCM |
| HCM sync service (`src/modules/hcm-sync/hcm-sync.service.js`) | table `hcm_sync_logs` | `syncSingle`, `syncBatch`, `notifyLeaveApproval`, logs | calls the client, writes balances, looks up employees |
| Employee service (`src/modules/employee`) | table `employees`: HCM link, location, active flag; unique email and link | `create`, `update`, `validateActive`, lookups | read by all others |
| HCM (`mock-hcm/server.js`) | balances per employee, type, location | `deduct`, two reads, `refresh`, simulated failures and delays | answers the client |
| Idempotency middleware | in-memory map key -> answer | every POST | in front of the controllers |
| Date utilities, enums | none | pure functions, constants | used by leave requests |
| Controllers, DTOs, guards, filters, interceptors, wiring, configuration, seeds | none | pass calls on, wrap answers | - |

What is hard here:

- **Concurrency.** Every service method reads a row, decides, and saves the whole
  entity one or more awaits later. In one process with better-sqlite3 the driver
  answers synchronously, so the awaits on the database leave only microtasks behind
  and a handler keeps its turn of the event loop until it waits for the HCM. With
  several instances, or with the PostgreSQL that TRD section 11 names, every await
  lets others in. The models have both regimes (below).
- **Long waits.** An approval and a sync wait seconds for the HCM and then write
  what they held before the wait.
- **Failure.** HTTP attempts fail, time out, overtake each other, and may have
  been applied although their answer was lost. A write may fail in the middle of
  a sync. The process may stop between two writes; nothing resumes what it left.
- **Ordering.** Snapshots of the HCM taken by overlapping runs may be applied in
  the other order.
- **Trust.** What the HCM answers is written as it comes; nothing asks what an answer
  leaves out.

What makes each component correct:

- balance: where calls do not overlap each is atomic; where they do, no day is counted
  that no call put there, and a save that loses another's days can be told by its version;
- leave request: the account agrees with the requests, an employee is not booked
  twice for a day, a request costs its weekdays, statuses follow their state machine but
  for one known way out of it, every approval settles its sync status;
- middleware: one key makes one request, a late repetition reserves nothing, a success
  that is told was done;
- employees: no two share an address or a link to the HCM;
- the whole: SYNCED means deducted, and every used day is one the HCM deducted or will
  have to;
- client: a success is a deduction, an attempt deducts at most once, a call ends;
- sync: SUCCESS means that what was sent is stored, the log tells the truth of it, runs
  that do not overlap do not undo each other, logs are closed.

`PROJECT.json` lists under `hazards` where each of these can go wrong, line by line.

## 2. Modules

| module | models |
|---|---|
| `LeaveAccount` | the arithmetic of one account, used by all others |
| `LeaveDates` | `date.utils.js` on day numbers |
| `BalanceLedger` | abstract specification: atomic calls on accounts |
| `BalanceService` | `balance.service.js`, one step per await, calls that overlap or do not |
| `LeaveRequestService` | `leave-request.service.js`, over the atomic ledger and the dates |
| `HcmDeduction` | abstract specification: what `deductBalance` promises |
| `HcmClient` | `deductBalance`, the retry loop, the network, the deduct and refresh endpoints |
| `HcmReconciliation` | composition: leave requests, their deductions at an HCM that keeps books, and syncs that bring the books back |
| `HcmSyncService` | `hcm-sync.service.js`, inbound |
| `EmployeeService` | `employee.service.js`, create and update |
| `TimeOffApi` | composition: the idempotency middleware in front of leave requests and employees |
| `...Proofs` | theorems about the module of that name (`LeaveRequestProofs` about `LeaveRequestService`, `HcmSyncProofs` about `HcmSyncService`); `IdempotencyProofs` continues `TimeOffApiProofs` |
| `FiniteSums` | facts about induction, sums and greatest elements that the proofs about ledgers rest on |
| `MC...` | instances for TLC |

How they fit together:

    BalanceService --implements--> BalanceLedger        HcmClient --implements--> HcmDeduction
            (one call at a time)   (its operations)                                  |
                                        |                                            |
    LeaveDates, LeaveAccount --> LeaveRequestService ------------------> HcmReconciliation
                                        |
    EmployeeService ---------------> TimeOffApi

### BalanceService and BalanceLedger

`rows` is the table, `balance[c]` the entity that call `c` holds. `Call` begins a method.
`FindPresent` is its read together with the code up to the save (there is no await in
between), `FindAbsent` what each method does without a row: `ensureBalance` inserts for
`reserveDays` and `syncFromHcm`, `confirmDays` throws, the two others return null. `Insert`
and `InsertDuplicate` are the insert and the unique index. `Save` writes all columns and
counts the version up. `Fails` is an error of the database at any of these queries, which
`_withOptimisticRetry` throws on. TypeORM's `save` writes the columns that differ from the
row, which comes to writing the entity.

The five saves (lines 137, 171, 198, 224, 257) are plain `repository.save()`. TypeORM counts
the version column up and compares it only for a read with an explicit optimistic lock,
which the code never asks for. So a save always succeeds, `_withOptimisticRetry` never
meets the lock error it waits for, and its retry branch (301-308) is not part of the model:
no error of the repository's own code or of the constraints it relies on has the name or the words it looks for.

With `Interleaved = TRUE` calls overlap at every await (several instances, or a driver
that waits), and a save undoes what was saved since its read: `MCBalanceUnversioned.cfg` shows
reservations lost, and days given back may return. What holds all the same is
`DaysComeFromCalls`: no row counts more days than calls that ended well put there. And
`FreshSavesAreExact` says what a comparison of versions would be worth: a save that finds
the version it read does to the row as it is exactly what the call asks, check included, so
every save that loses something has an older version than its row.

With `Interleaved = FALSE`, the deployment of `database.config.js`, a call ends before the
next begins. `BalanceLedger` is what callers may then rely on: a call applies atomically, is
refused at an instant at which its account really had too few days, or fails without
effect. `LedgerRefinement` maps a row without its version to an account (no row is an
account of zeros), and a call between its first read and its end to "called".

### LeaveRequestService

`requests` is the table (the request that handler `h` creates has identity `h`),
`copy[h]` the object a handler holds, `account` the ledger. A handler is a program
counter: `Submit`, `Validate`, `CheckKey`, `CheckOverlap`, `Reserve`, `Insert` for create; `Review`,
`Find`, `Settle`, `SaveVerdict` for approve, reject and cancel; `MarkSyncing`, `Notify`,
`HcmAnswers`, `MarkSynced`, `MarkFailed` for the sync that approve starts and does not await.
`LedgerFails` is a balance call that throws, `Crash` a restart.

With `Interleaved = FALSE` a handler keeps `running` until it waits for the HCM or
ends: the deployment of `database.config.js`. With `Interleaved = TRUE` every await is a
point of interleaving. The balance calls are atomic in both: that is what `BalanceService`
implements where calls do not overlap. Where they do, what overlapping balance calls lose
comes on top of what the interleaved runs show here. `Linked` names the employees with a
link to the HCM; the seeds (`seeds/seed.js`) link everybody, and so do the runs with one turn
at a time.

The object an approval holds while it waits for the HCM is stale when it is saved. What
this does to statuses is stated twice: `StatusMoves` is the state machine of the enums, which
the code violates (`MCLeaveResurrected.cfg`), and `OnlyLateMarksRevive` says that it is left in no
other way than this: a CANCELLED request becomes APPROVED by the last save of its
approval. A request that came back so is `Withdrawn`; `NoDoubleBooking` and `DriftBounded` speak
of the requests that stand, because the days of a withdrawn one were given back when its
cancellation was answered.

A submission has a first and a last day; what it costs and whether its dates are
accepted is `LeaveDates`. `Validate` may refuse a submission for other reasons too (the
employee, the leave type); `TimeOffApi` says when.

### LeaveDates

Dates are day numbers, day 0 a Sunday. `calculateBusinessDays` is the loop, as a
recursive function of its rounds; `ValidDateRange` the checks of `validateDateRange`. The
code parses a date as midnight UTC and then counts in the host's zone: with `HostWest`
the day counted is the one before (`LocalDay`).

### HcmClient

An attempt is a message `<<d, n>>` in `processing`. The server may handle it after the
client has given it up, fail it, refuse it, or deduct; the client hears only the
answer to the attempt it waits for (`Respond`), or nothing (`HearNothing`), and
`AfterError` decides between another attempt and the end. `applied` is a history
variable that counts deductions.

`HcmDeduction` is what a caller may rely on: a call may be applied any number of times
up to `MaxAttempts`, early or late, also after it failed; it is confirmed only if it was
applied. Meanwhile the HCM may add to an allotment (`Refresh`). `DeductionRefinement` maps a call under way, whatever its attempts do, to
"asked", so that attempts, lost messages and backoff are stutters.

### HcmReconciliation

`LeaveRequestService` with the answers of its HCM calls tied to `HcmDeduction`: `NotifyHcm` asks,
`HcmResolves` and `HcmRejects` are `HcmAnswers` with the outcome that belongs to it, and
`HcmDeducts` may come at any time from the question on. `SyncReads` is the HCM's answer to a
sync, `SyncWrites` its write to the accounts some turns later (`Updated` of kind "sync",
which keeps the pending days). Each sync holds an answer of its own, so that of two that
overlap the older answer may be written last. The HCM counts from its own `HcmTotals`, which may differ
from the `Allotments` of the seeds, and `HcmRefreshes` raises them at any time.

### HcmSyncService

A row's figures are abstracted to their origin: `<<b, n>>`, the HCM's balance `b` after the
`n`-th change of its books, or `Local`. `Begin`, `LookUp`, `HcmAnswers`, `FetchFails`,
`FindEmployee`, `WriteBalance`, `EmployeeDone`, `WriteFails` and `Complete` are the steps of
a run; `outcome` stands for the counters and the errors of the result, `written` for the
count of balances. `HcmReads` is the snapshot the HCM answers with, and may happen
again, as a retry reads anew. An answer is the state of the books and a member of `Bodies`:
whom it lists, and which balances it sends. It may leave an employee out, send only some of
the balances of one, or none (`balances` missing or no array): the code takes all of these as
they come (lines 64, 129, 157). `FetchFails` is what it does reject: retries that ran out, an
unknown employee, an empty body or an error in it, and a batch without an `employees` array. Meanwhile the HCM changes, an administrator updates
employees, settlements change rows, and the process may stop. A run keeps its turn
from the answer of the HCM to its end. `began` is a history variable.

`SuccessReconciles` and `HonestLog` are about what was sent. That SUCCESS says nothing of
what was not is `BatchReconciles`, which the code violates (`MCHcmSyncCovers.cfg`).

Saving the log entry itself is assumed to succeed: when it fails the service has
nothing left to record it with.

### EmployeeService and TimeOffApi

`desk[h]`, `errand[h]` and `held[h]` are a handler's place, what it was asked, and the object
it holds. `CheckEmail` and `CheckLink` are the two reads before `create` inserts, `Insert` and
`Save` the writes, which the unique columns may refuse. `update` cannot change an address
(its body has none), and checks nothing before it saves.

`TimeOffApi` puts `use` of the middleware in front: a request arrives with a `header`, is either
answered from the cache (`Replay`) or passed on (`Pass`), and its answer is cached when it is a
success (`Answer`, the interception of `res.json`). `processedKeys` is the map, as the set of
requests whose answers it holds; nothing in it marks a request under way. `Cleanup` drops
any entries at any time, which stands for the 24 hours. `Restart` is `Crash` together with
the loss of the cache. In this composition `Validate` asks `validateActive`, and the link that
`notifyLeaveApproval` reads is the employee's as it is then. `late` is a history variable.

Clients are assumed to keep a key to one operation (`KeysAssumption`); one that reuses a key
on another path is answered by the cache with the other's data.

## 3. Runs

All `CHECK_DEADLOCK FALSE`: instances have finitely many calls, and stop when those
have ended.

| run | instance | shows |
|---|---|---|
| `MCBalanceService.cfg` | 4 overlapping calls of any of the five kinds on one row, absent or seeded, errors at any query | types, `RowsPersist`, `DaysComeFromCalls`, `FreshSavesAreExact` |
| `MCBalanceUnversioned.cfg` | 3 overlapping reservations | **violated**: `AcceptedReservationsFit` |
| `MCLeaveLocal.cfg` | 4 handlers, one turn at a time, two accounts, ranges of days over and of weekends, key reuse, overlap, overdraft, 1 restart, a linked employee | types, `DriftBounded`, `NoDoubleBooking`, `ChargesBusinessDays`, `OnlyLateMarksRevive`, `KeyReservesOnce` |
| `MCLeaveLinked.cfg` (`HcmReconciliation`) | 3 handlers, one turn at a time, a submission of 2 days around a weekend, an approval that waits for an HCM with 1 day where the seeds have 2 and a refresh may add the other, late deductions, 2 syncs that may overlap | `PendingBacksRequests`, `SyncedWasDeducted`, `UsedDaysAccounted`, `SyncStatusMoves`, `ApprovalSettles` |
| `MCCancelledDays.cfg` (`HcmReconciliation`) | 3 handlers, 1 sync | **violated**: `CancelledDaysReturn` |
| `MCLeaveInterleaved.cfg` (`TimeOffApi`) | 3 requests of any kind, all awaits interleave, repeated keys, 1 seeded employee and 2 bodies for one more, 1 restart, the cache expires | `ApiTypeOK`, `KeyMakesOneRequest`, `StrandedOnlyByRestart`, `LateSubmissionsReserveNothing`, `SuccessWasDone`, `UniqueIdentities` |
| `MCLeaveResurrected.cfg` | 4 handlers, one turn at a time, linked | **violated**: `StatusMoves` |
| `MCLeaveDoubleApproval.cfg` | 3 handlers, all awaits interleave | **violated**: `UsedBacksRequests` |
| `MCHcmClient.cfg` | 3 deductions (two of 2 and 1 days from an account of 4, which is enough for both but not for every attempt of both; one on an unknown account), one retry each, a refresh that adds a day | `ConfirmedWasDeducted`, `DeductedPerAttempt`, `ClientErrorIsFinal`, `DeductionEnds`, `DeductionRefinement` |
| `MCHcmDoubleDeduction.cfg` | 1 deduction, 3 retries | **violated**: `ConfirmedOnce` |
| `MCHcmSyncService.cfg` | 2 runs of either kind, 2 employees one of whom moves and is unlinked, 3 balances, answers that are whole, leave one employee and one balance out, or lack a balances array, 1 change at the HCM, restarts | `SuccessReconciles`, `HonestLog`, `OlderOnlyWhenOverlapping`, `LogCloses` |
| `MCHcmSyncCovers.cfg` | the same | **violated**: `BatchReconciles` |

Every violated run states what a document or comment of the repository says, and
`PROJECT.json` quotes it under `findings`:

1. The version check the TRD relies on does not take place; two overlapping
   reservations are both accepted.
2. A request cancelled while its approval waits for the HCM is stored as APPROVED
   again by the approval's last save, its days already given back. This needs no second
   process: it happens in the deployment as configured.
3. A batch sync whose answer leaves out an employee, or sends one without a balances array,
   ends as SUCCESS; what it left out keeps its old figures, and nothing is logged of it.
4. Two interleaved approvals of one request confirm its days twice.
5. A deduction whose answer is lost is posted and applied again.
6. The days of a cancelled approval are given back here and never at the HCM, whose
   figure the next sync writes over them. This too happens in the deployment as configured.

A seventh disagreement needs no run of its own: `common/enums/index.js:41` and
`docs/TRD.md:194` speak of a retry of FAILED syncs, and `SyncStatusMoves`, which has no move out
of FAILED, holds (`leave_linked`, and `MarksMove` for any instance). `findFailedHcmSync` has no
caller, no endpoint and no timer.

### Bounds

- *Four balance calls*: a reservation, its confirmation, a restore and a sync between
  them, each of which may overwrite another. One key suffices because no step touches two.
- *Four handlers* make the longest story of the local run: submit, approve, cancel
  while the HCM is asked, submit again. A second cancellation that costs days would take a
  fifth and sixth; there the bound of `DriftBounded` rests on its theorem. A Friday, a Monday and the weekend between them, and two types, give
  overlap, a range that spans and one that consists of days off, a key used for
  another range, and a refusal for lack of days.
- *Three handlers* and *one attempt* (`MaxAttempts = 1`) in the composition with the HCM: submit,
  approve, cancel, with the deduction before, between or after; `applied` counts no
  further there because what a second application does is the subject of `HcmClient`. *Two
  syncs*, each with an answer of its own, may write in the order opposite to the one they
  read in. *One day more* by a refresh
  (`MaxTotal`) lets a deduction that was refused succeed when a late attempt of it arrives.
- *Three requests* in `TimeOffApi`: the first, its repetition while it runs or after it
  ended, and a review of what it made. Bodies of employees share their address and
  differ in link and location, and one update takes the link.
- *Hosts at or east of Greenwich* (`HostWest = FALSE`). With `TRUE` a range is counted one day
  early and `ChargesBusinessDays` fails: a Monday costs nothing and is refused, a Saturday
  costs a day.
- *One restart* is one cut between two writes; `DriftBounded` is stated in the
  number of restarts.
- *One retry* (`maxRetries = 1`) lets two attempts of a deduction cross; more only
  repeat that. The code's default of 3 is used for the one deduction of
  `MCHcmDoubleDeduction.cfg`.
- *Two syncs, one change* is what it takes for an older snapshot to follow a newer. *Three
  bodies*: the whole books, one employee and one balance left out, and an employee without
  balances; the theorems are about any set of bodies.
- Symmetry is used over calls and handlers, and only in runs of safety properties.

### Fairness

`FairSpec` (and `FairSystemSpec` of the composition) is weak fairness of the code's own steps: the event loop runs what is
ready, the synchronous driver settles every query, a backoff timer fires, and an
HTTP attempt ends by an answer or by the axios timeout, so that a call to the HCM
ends after at most `maxRetries + 1` of them (that it does is `DeductionEnds`). Nothing is
assumed of the HCM, of syncs, of callers, or of restarts.

## 4. Proofs

All theorems hold for all constants that meet the named `ASSUME`s of the modules, and so
for any number of calls, keys, accounts, employees, days, attempts and restarts. Handlers
(`HandlersAssumption`), deductions (`DeductionsAssumption`) and the HCM's balances
(`HcmBalancesAssumption`) are finitely many, because sums and counts over them mean
nothing otherwise; nothing else is assumed of how many there are. Where a theorem has a
premise of its own, it is in the table.

Every safety and action property of the passing runs is the conclusion of a theorem.

**BalanceServiceProofs** (kinds, positive days, figures and seeds of natural numbers,
finitely many calls):

| theorem | premise | statement |
|---|---|---|
| `InductiveInvariant` | | `Spec => []IInv` |
| `TypeCorrect` | | `Spec => []TypeOK` |
| `RowsStay` | | `Spec => []RowsPersist` |
| `DaysHaveCalls` | | `Spec => []DaysComeFromCalls` |
| `FreshSaves` | | `Spec => FreshSavesAreExact` |
| `Refinement` | `Interleaved = FALSE` | `Spec => LedgerRefinement` |

`TypeOK` is not enough. `FreshSavesAreExact` is about a save, and what the save writes was
computed at an earlier read; one must know that the entity held is what the operation
makes of the row *as it was at its version*. `IInv` is `TypeOK` together with `HeldEntities`:
whoever is about to save holds an entity of a version not newer than the row's, and if the
versions are equal, the entity is `Updated` of the present row and its operation is not
refused there. Every save counts the version up, so versions that are equal mean that
nobody saved since the read.

Where calls do not overlap they always are. A save is then the ledger's `Apply`; the other
steps leave every account as it is (inserting a row of zeros is invisible), so they map to
`Invoke`, `Refuse`, `Fail` or a stutter. The premise is needed: `MCBalanceUnversioned.cfg` is a
behaviour that no atomic ledger has.

`DaysComeFromCalls` needs no versions. Whatever a call holds or stores was in the table
before, plus the days of the call itself, and a call adds its days to the table in the
step in which it ends well.

**HcmClientProofs**:

| theorem | statement |
|---|---|
| `InductiveInvariant` | `Spec => []IInv` |
| `TypeCorrect` | `Spec => []TypeOK` |
| `ConfirmationsAreTrue` | `Spec => []ConfirmedWasDeducted` |
| `OthersAreRetried` | `Spec => []ClientErrorIsFinal` |
| `AttemptsDeductOnce` | `Spec => []DeductedPerAttempt` |
| `Refinement` | `Spec => DeductionRefinement` |

The argument counts messages: `applied[d] + Cardinality(Pending(d)) <= attempt[d]`. An attempt is
with the server or has been handled, and is deducted at most once, so one more
application is always within `maxRetries + 1`; an "ok" is about a deduction made. That
the used days are the sum of what was applied (`Booked`) needs the change of a sum at one
index, from `FiniteSums`.

**LeaveRequestProofs**, for linked employees and others. `OneTurn` is `Interleaved = FALSE`: the
deployment.

| theorem | premise | statement |
|---|---|---|
| `InductiveInvariant` | `OneTurn` | `Spec => []IInv` |
| `TypeCorrect` | `OneTurn` | `Spec => []TypeOK` |
| `NoDayTwice` | `OneTurn` | `Spec => []NoDoubleBooking` |
| `StatusesMove` | `OneTurn` | `Spec => OnlyLateMarksRevive` |
| `KeysReserveOnce` | `OneTurn` | `Spec => KeyReservesOnce` |
| `DriftStaysBounded` | `OneTurn` | `Spec => []DriftBounded` |
| `WeekdaysCharged` | `HostWest = FALSE` | `Spec => []ChargesBusinessDays` |

A turn of the event loop is a critical section. `Turn` says that whoever is under way has
the loop; `Local` what it has checked and what it holds: no other request overlaps when
it is about to insert, and the object about to be saved *is* the row. The one exception is
`Late`, an approval that has waited for the HCM: of the row it left it knows only whose
days on which account it is about (`SameClaim`), and that it is past PENDING for good (`Decided`). That is
enough: its save can change a status from CANCELLED to APPROVED and no other way, and when it does a
cancellation of the request has been answered, so that the request is `Withdrawn`. `OneTurn`
is needed: with interleaved awaits `NoDoubleBooking` does not hold.

`DriftInv` makes the bound of `DriftBounded` inductive. Between turns an account may be off by
the largest request for every restart so far and for every cancellation of a request that
was cancelled before (`Near`); within a turn it is moreover ahead of the table by what the one
handler under way has written to the account and not yet to its row, and this is what a restart
leaves behind. Requests that stand are what the account is compared with, so a late save changes
neither side.

`WeekdaysCharged` holds interleaved or not. The loop of
`calculateBusinessDays` is a recursive function of its rounds; that it counts the weekdays
is proved by induction over the rounds (`CountsWeekdays`), and `PriceInv` carries the count
from the submission to every row and every object held, which copy it. The premise is
needed: with `HostWest = TRUE` the property fails (see Bounds).

**TimeOffApiProofs** and **IdempotencyProofs**, interleaved or not, linked or not:

| theorem | statement |
|---|---|
| `IdentitiesStayUnique` | `ApiSpec => []UniqueIdentities` |
| `ApiInvariant` | `ApiSpec => []ApiInv` |
| `ApiTypeCorrect` | `ApiSpec => []ApiTypeOK` |
| `OneRequestPerKey` | `ApiSpec => []KeyMakesOneRequest` |
| `LateReserveNothing` | `ApiSpec => []LateSubmissionsReserveNothing` |
| `SuccessesWereDone` | `ApiSpec => []SuccessWasDone` |
| `NobodyElseStrands` | `ApiSpec => []StrandedOnlyByRestart` |

Identities stay unique by the columns alone, and because an update writes back the
address it read. Idempotency has two halves. The table only grows (`Grows`): a row keeps its
key and its first day, never becomes PENDING again, and shares its key with nobody,
whatever stale object is saved over it. And an answer in the cache is an answer to the
same operation, because its header is (`KeysAssumption`).

`StrandedOnlyByRestart` is not inductive: it also counts an approval that has yet to find
the request, and that one may be refused and leave. `InHand` is: an approved request
with its sync open is with an approval that has saved or will save it and has not settled its
sync, or with one that a restart stopped. Whoever saves the request as approved is such
a handler, stale object or not, and leaves only by settling the sync. The types of the leave
requests need a fact about values too, that nobody has tried to sync a pending request
(`Untried`), or the number of attempts would have no bound; those of the cache, that a
request under way has no answer in it (`CacheTypes`).

**HcmReconciliationProofs**, for any number of attempts and syncs, linked employees included.
`OneTurn` is here only `Interleaved = FALSE`:

| theorem | premise | statement |
|---|---|---|
| `SystemInvariant` | | `SystemSpec => []SystemInv` |
| `SyncedMeansDeducted` | | `SystemSpec => []SyncedWasDeducted` |
| `PendingDaysBacked` | `OneTurn` | `SystemSpec => []PendingBacksRequests` |
| `UsedDaysBacked` | `OneTurn` | `SystemSpec => []UsedDaysAccounted` |
| `MarksMove` | `OneTurn` | `SystemSpec => SyncStatusMoves` |

The mark SYNCED is copied by every review that reads a row and written back by every
stale object that is saved, so the invariant speaks of rows and of objects held: a mark,
wherever it stands, has a deduction behind it, and a deduction once made stays made.

The books agree because every turn settles them. `TurnInv` says who has the loop, that a review
holds the row as it is until its verdict is saved, that an approval's stale object is still
of the row's account and days, and that the HCM was asked for exactly those. `BooksInv` is then
an equation for the pending days and an inequality for the used days, corrected by
what the handler under way has written to the account only. A step moves one term of each
sum, and moves the account by the same days. The inequality is what survives a
cancellation that overlaps a deduction: the HCM has taken days that the account has given
back.

`MarksMove` needs that a request is approved once (`OneApproval`): it leaves PENDING with the
first verdict and does not come back, so its mark is in the hands of one approval, and any
other review that saves the row writes the mark it read in the same turn. The status
is another matter: the approval's last save is stale, and `MCLeaveResurrected.cfg` shows the
status it puts back.

**HcmSyncProofs**, for any runs, employees, balances, failures and restarts:

| theorem | premise | statement |
|---|---|---|
| `SyncInvariant` | | `Spec => []SyncInv` |
| `TypesHold` | | `Spec => []TypeOK` |
| `SuccessMeansReconciled` | | `Spec => SuccessReconciles` |
| `NoUndoWithoutOverlap` | | `Spec => OlderOnlyWhenOverlapping` |
| `LogTellsTruth` | | `Spec => HonestLog` |

Two facts carry the invariant. A run past the HCM's answer has the event loop, so nobody
moves an employee or settles a balance while it writes; and its answer is no older than the
run (`Clean`). Under them `SingleWrites` and `BatchWrites` say which rows hold the figures of
the answer, and `Tallied` that the outcome counted for an employee is what happened to
the rows of that employee. A batch that meets a failing write goes on with the next
employee, so this is stated for each employee apart.

None of them asks what an answer holds: it is any member of `Bodies`, and the theorems are about
what was sent. An employee without a balance in the answer is one of whom all that was sent
is stored, and counts among those brought up to date, as in the code.

**FiniteSums** has what these proofs need of data. The library states induction for
a predicate, which the provers here cannot instantiate; stated for a *set* of natural numbers
(`Least`, `Induction`) it is a first-order fact that follows from well-foundedness, and is
cited for the set of numbers of which the claim holds. From it follow: `SumFunction` over a
finite domain is a number, of which a change at one index is a change by the same
amount (`SumInt`, `SumChange`), of naturals a natural (`SumNat`), of zeros zero (`SumZero`); and a
finite set of numbers has a greatest (`MaxOfFinite`).

Only model-checked: liveness (`DeductionEnds`, `ApprovalSettles`, `LogCloses`), because fairness
is about `ENABLED`, which the prover does not expand; and the violated runs, whose
counterexamples are TLC's.

## 5. Not modelled

- Controllers, DTOs, guards, filters, interceptors and wiring, beyond the calls that the
  actions of `TimeOffApi` stand for: they keep no state of their own.
- The middleware in front of the two POST endpoints of the syncs; `normalizeDate`, which has no
  caller; the finders and logs queries, which only read.
- The retry branch of `_withOptimisticRetry`, which nothing takes (section 2); a null among the
  employees of an answer, on which the `catch` of the batch loop itself throws
  (`hcm-sync.service.js:176`).
- Wording of errors and logs; the half days that decimal columns allow (days are counted
  in units of the smallest amount); daylight saving.
- The read that TypeORM's `save` makes before its update, as a step of its own; database
  errors other than in a balance call or in a sync's write.
- Names and departments of employees. That two updates of one employee which interleave
  lose the first is in the model and stated by no property: no document promises otherwise,
  and one turn at a time it cannot happen.
- Keys that a client uses for two operations, and employees posted without a key.

## 6. Plan

Done: every component that keeps state, its abstract specifications, the two
compositions, and a module of proofs for each of them; every safety and action
property of the passing runs is a theorem.

What is left, in this order:

1. *`HcmReconciliation` and `HcmDeduction`*: the composition uses the promise action by action;
   that its calls are a behaviour of `HcmDeduction` can be stated as a refinement and proved.
2. *The syncs of `HcmReconciliation`* (`SyncReads`, `SyncWrites`) stand for a run of
   `HcmSyncService` on one balance; the mapping is not stated.
3. *Interleaved awaits*: which of the properties of `LeaveRequestService` hold without `OneTurn`,
   beyond those proved of `TimeOffApi`.
4. *Shorter proofs* where two modules argue alike (`LeaveRequestProofs` and
   `HcmReconciliationProofs` on turns and books).
