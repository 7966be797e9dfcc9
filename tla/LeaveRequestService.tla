------------------------- MODULE LeaveRequestService -------------------------
(***************************************************************************)
(* src/modules/leave-request/leave-request.service.js: the handlers that   *)
(* create, approve, reject and cancel leave requests, the fire-and-forget  *)
(* sync of an approval to the HCM, and the leave accounts they settle.     *)
(*                                                                         *)
(* The accounts are the atomic ledger that BalanceService implements where *)
(* its calls do not interleave.  A handler is one HTTP request; each step  *)
(* is one await on the database or on the HCM, a call of the ledger one.   *)
(*                                                                         *)
(* With Interleaved the steps of all handlers interleave freely: several   *)
(* instances, or a database driver that waits (the PostgreSQL of           *)
(* docs/TRD.md section 11).  Without it a handler that has begun a turn of *)
(* the event loop keeps it until it waits for the HCM or ends: the         *)
(* better-sqlite3 driver of database.config.js answers synchronously, so   *)
(* the awaits on it leave only microtasks behind.                          *)
(***************************************************************************)
EXTENDS LeaveAccount, LeaveDates, FiniteSetsExt

CONSTANTS
    Handlers,       \* the HTTP requests made, each at most once
    Nobody,         \* no handler holds the event loop
    Accounts,       \* (employeeId, leaveType, locationId) triples
    Submissions,    \* bodies and idempotency keys a create may carry
    NoKey,          \* a create without the X-Idempotency-Key header
    Linked,         \* employees with an hcmEmployeeId
    Allotments,     \* Allotments[a]: the days account a starts with
    Interleaved,    \* do awaits on the database let other handlers run
    MaxCrashes      \* bound on process restarts

\* A submission names an employee, the account charged, the first and the
\* last day of its range, and an idempotency key.
ASSUME SubmissionsAssumption ==
    \A s \in Submissions :
        /\ DOMAIN s = {"employee", "account", "first", "last", "key"}
        /\ s.account \in Accounts
        /\ s.first \in Int /\ s.last \in Int
ASSUME HandlersAssumption == IsFiniteSet(Handlers)
ASSUME AllotmentsAssumption == Allotments \in [Accounts -> Nat]
ASSUME InterleavedAssumption == Interleaved \in BOOLEAN
ASSUME MaxCrashesAssumption == MaxCrashes \in Nat
ASSUME NobodyAssumption == Nobody \notin Handlers

VARIABLES
    account,    \* account[a]: total, used and pending days
    requests,   \* requests[h]: the row whose uuid handler h minted, or none
    pc,         \* pc[h]: where handler h stands, or how it ended
    task,       \* task[h]: what handler h was asked to do
    copy,       \* copy[h]: the LeaveRequest object handler h holds
    running,    \* the handler whose turn of the event loop it is
    crashes     \* restarts so far

vars == <<account, requests, pc, task, copy, running, crashes>>

-----------------------------------------------------------------------------
NoRequest == [status |-> "none"]
NoTask == [kind |-> "none"]

DaysOf(s) == calculateBusinessDays(s.first, s.last)

Active(r) == r.status \in {"PENDING", "APPROVED"}

\* Mutant of Overlapping: approved requests do not count.
OverlappingPending(s) ==
    {r \in Handlers :
        /\ requests[r].status = "PENDING"
        /\ requests[r].employee = s.employee
        /\ requests[r].first <= s.last /\ requests[r].last >= s.first}

\* _findOverlapping: active requests of the employee whose ranges meet.
Overlapping(s) ==
    {r \in Handlers :
        /\ Active(requests[r])
        /\ requests[r].employee = s.employee
        /\ requests[r].first <= s.last /\ requests[r].last >= s.first}

\* findOne({ where: { idempotencyKey } })
SameKey(s) ==
    {r \in Handlers :
        requests[r] # NoRequest /\ s.key # NoKey /\ requests[r].key = s.key}

\* Mutant of NewRequest: the first attempt is already counted.
NewRequestCounted(s) ==
    [employee |-> s.employee, account |-> s.account, first |-> s.first,
     last |-> s.last, days |-> DaysOf(s), key |-> s.key, status |-> "PENDING",
     sync |-> "NOT_SYNCED", attempts |-> 1]

\* The row create inserts.
NewRequest(s) ==
    [employee |-> s.employee, account |-> s.account, first |-> s.first,
     last |-> s.last, days |-> DaysOf(s), key |-> s.key, status |-> "PENDING",
     sync |-> "NOT_SYNCED", attempts |-> 0]

\* Mutant of MayReview: an approved request may still be rejected.
MayReviewLate(kind, status) ==
    CASE kind = "approve" -> status = "PENDING"
      [] kind \in {"reject", "cancel"} -> status \in {"PENDING", "APPROVED"}

\* Mutant of Settlement: cancel always releases pending days.
SettlementPendingOnly(kind, status) ==
    IF kind = "approve" THEN "confirm" ELSE "release"

\* The statuses from which a review may start, the ledger operation it asks
\* for, and the status it leaves.
MayReview(kind, status) ==
    CASE kind \in {"approve", "reject"} -> status = "PENDING"
      [] kind = "cancel" -> status \in {"PENDING", "APPROVED"}

Settlement(kind, status) ==
    CASE kind = "approve" -> "confirm"
      [] kind = "reject" -> "release"
      [] kind = "cancel" -> IF status = "PENDING" THEN "release" ELSE "restore"

Verdict(kind) ==
    CASE kind = "approve" -> "APPROVED"
      [] kind = "reject" -> "REJECTED"
      [] kind = "cancel" -> "CANCELLED"

-----------------------------------------------------------------------------
(* The event loop.                                                         *)

Ended == {"replied", "refused", "error", "settled", "crashed"}
Idle == Ended \cup {"start", "in_flight"}

MayRun(h) == Interleaved \/ running \in {Nobody, h}

\* Handler h goes on at place p; it gives the loop back when it waits for
\* the HCM or has ended.
Goto(h, p) ==
    /\ pc' = [pc EXCEPT ![h] = p]
    /\ running' = IF Interleaved \/ p \in Idle THEN Nobody ELSE h

At(h, p) == MayRun(h) /\ pc[h] = p

Charge(a, operation, days) ==
    account' = [account EXCEPT ![a] =
                    Updated(@, [kind |-> operation, days |-> days])]

Init ==
    /\ account = [a \in Accounts |->
                    [total |-> Allotments[a], used |-> 0, pending |-> 0]]
    /\ requests = [h \in Handlers |-> NoRequest]
    /\ pc = [h \in Handlers |-> "start"]
    /\ task = [h \in Handlers |-> NoTask]
    /\ copy = [h \in Handlers |-> NoRequest]
    /\ running = Nobody
    /\ crashes = 0

-----------------------------------------------------------------------------
(* create                                                                  *)

Submit(h, s) ==
    /\ At(h, "start")
    /\ task' = [task EXCEPT ![h] = [kind |-> "create", body |-> s]]
    /\ Goto(h, "validate")
    /\ UNCHANGED <<account, requests, copy, crashes>>

\* Employee unknown or inactive, leave type or date range invalid: refused.
Validate(h) ==
    /\ At(h, "validate")
    /\ \/ /\ ValidDateRange(task[h].body.first, task[h].body.last)
          /\ Goto(h, "check_key")
       \/ Goto(h, "refused")
    /\ UNCHANGED <<account, requests, task, copy, crashes>>

\* Mutant of CheckKey: only an active request with the key is an answer.
CheckKeyActive(h) ==
    /\ At(h, "check_key")
    /\ LET same == {r \in SameKey(task[h].body) : Active(requests[r])}
       IN  IF same = {}
           THEN /\ Goto(h, "check_overlap")
                /\ UNCHANGED copy
           ELSE /\ Goto(h, "replied")
                /\ copy' = [copy EXCEPT ![h] = requests[CHOOSE r \in same : TRUE]]
    /\ UNCHANGED <<account, requests, task, crashes>>

\* An existing request with the key is the answer.
CheckKey(h) ==
    /\ At(h, "check_key")
    /\ LET same == SameKey(task[h].body)
       IN  IF same = {}
           THEN /\ Goto(h, "check_overlap")
                /\ UNCHANGED copy
           ELSE /\ Goto(h, "replied")
                /\ copy' = [copy EXCEPT ![h] = requests[CHOOSE r \in same : TRUE]]
    /\ UNCHANGED <<account, requests, task, crashes>>

CheckOverlap(h) ==
    /\ At(h, "check_overlap")
    /\ Goto(h, IF Overlapping(task[h].body) = {} THEN "reserve" ELSE "refused")
    /\ UNCHANGED <<account, requests, task, copy, crashes>>

Reserve(h) ==
    /\ At(h, "reserve")
    /\ LET s == task[h].body
           o == [kind |-> "reserve", days |-> DaysOf(s)]
       IN  IF Refused(account[s.account], o)
           THEN /\ Goto(h, "refused")
                /\ UNCHANGED account
           ELSE /\ Goto(h, "insert")
                /\ Charge(s.account, "reserve", DaysOf(s))
    /\ UNCHANGED <<requests, task, copy, crashes>>

\* Mutant of Insert: no unique index on idempotency_key.
InsertNotUnique(h) ==
    /\ At(h, "insert")
    /\ Goto(h, "replied")
    /\ requests' = [requests EXCEPT ![h] = NewRequest(task[h].body)]
    /\ copy' = [copy EXCEPT ![h] = NewRequest(task[h].body)]
    /\ UNCHANGED <<account, task, crashes>>

\* save() of the new row; the unique index on idempotency_key may refuse it.
Insert(h) ==
    /\ At(h, "insert")
    /\ IF SameKey(task[h].body) = {}
       THEN /\ Goto(h, "replied")
            /\ requests' = [requests EXCEPT ![h] = NewRequest(task[h].body)]
            /\ copy' = [copy EXCEPT ![h] = NewRequest(task[h].body)]
       ELSE /\ Goto(h, "error")
            /\ UNCHANGED <<requests, copy>>
    /\ UNCHANGED <<account, task, crashes>>

-----------------------------------------------------------------------------
(* approve, reject, cancel                                                 *)

Review(h, kind, r) ==
    /\ At(h, "start")
    /\ task' = [task EXCEPT ![h] = [kind |-> kind, request |-> r]]
    /\ Goto(h, "find")
    /\ UNCHANGED <<account, requests, copy, crashes>>

\* _findRequestOrFail and the check of the status that follows it.
Find(h) ==
    /\ At(h, "find")
    /\ LET found == requests[task[h].request]
       IN  IF found # NoRequest /\ MayReview(task[h].kind, found.status)
           THEN /\ Goto(h, "settle")
                /\ copy' = [copy EXCEPT ![h] = found]
           ELSE /\ Goto(h, "refused")
                /\ UNCHANGED copy
    /\ UNCHANGED <<account, requests, task, crashes>>

\* confirmDays, releasePendingDays or restoreUsedDays.
Settle(h) ==
    /\ At(h, "settle")
    /\ Charge(copy[h].account, Settlement(task[h].kind, copy[h].status), copy[h].days)
    /\ Goto(h, "save")
    /\ UNCHANGED <<requests, task, copy, crashes>>

\* A save writes the whole object the handler holds.
SaveCopy(h, object) ==
    /\ copy' = [copy EXCEPT ![h] = object]
    /\ requests' = [requests EXCEPT ![task[h].request] = object]

SaveVerdict(h) ==
    /\ At(h, "save")
    /\ SaveCopy(h, [copy[h] EXCEPT !.status = Verdict(task[h].kind)])
    /\ Goto(h, IF task[h].kind = "approve" THEN "mark_syncing" ELSE "replied")
    /\ UNCHANGED <<account, task, crashes>>

\* A call of the ledger that fails without effect: the database refused one
\* of its queries.
LedgerFails(h) ==
    /\ MayRun(h)
    /\ pc[h] \in {"reserve", "settle"}
    /\ Goto(h, "error")
    /\ UNCHANGED <<account, requests, task, copy, crashes>>

-----------------------------------------------------------------------------
(* _syncToHcmAsync, started by approve and not awaited.                    *)

MarkSyncing(h) ==
    /\ At(h, "mark_syncing")
    /\ SaveCopy(h, [copy[h] EXCEPT !.sync = "SYNCING", !.attempts = @ + 1])
    /\ Goto(h, "notify")
    /\ UNCHANGED <<account, task, crashes>>

\* notifyLeaveApproval returns at once for an employee without HCM link.
NotifyIf(h, linked) ==
    /\ At(h, "notify")
    /\ Goto(h, IF linked THEN "in_flight" ELSE "mark_synced")
    /\ UNCHANGED <<account, requests, task, copy, crashes>>

Notify(h) == NotifyIf(h, copy[h].employee \in Linked)

\* Mutant of HcmAnswers: the rejection is not caught.
HcmAnswersUncaught(h) ==
    /\ At(h, "in_flight")
    /\ \E p \in {"mark_synced", "settled"} : Goto(h, p)
    /\ UNCHANGED <<account, requests, task, copy, crashes>>

\* deductBalance resolves, or rejects after its retries.
HcmAnswers(h) ==
    /\ At(h, "in_flight")
    /\ \E p \in {"mark_synced", "mark_failed"} : Goto(h, p)
    /\ UNCHANGED <<account, requests, task, copy, crashes>>

\* Mutant of MarkSynced: the mark is set on the object and not saved.
MarkSyncedUnsaved(h) ==
    /\ At(h, "mark_synced")
    /\ copy' = [copy EXCEPT ![h].sync = "SYNCED"]
    /\ Goto(h, "settled")
    /\ UNCHANGED <<account, requests, task, crashes>>

MarkSynced(h) ==
    /\ At(h, "mark_synced")
    /\ SaveCopy(h, [copy[h] EXCEPT !.sync = "SYNCED"])
    /\ Goto(h, "settled")
    /\ UNCHANGED <<account, task, crashes>>

\* Mutant of MarkFailed: a failed sync goes back to where it began.
MarkFailedReset(h) ==
    /\ At(h, "mark_failed")
    /\ SaveCopy(h, [copy[h] EXCEPT !.sync = "NOT_SYNCED"])
    /\ Goto(h, "settled")
    /\ UNCHANGED <<account, task, crashes>>

MarkFailed(h) ==
    /\ At(h, "mark_failed")
    /\ SaveCopy(h, [copy[h] EXCEPT !.sync = "FAILED"])
    /\ Goto(h, "settled")
    /\ UNCHANGED <<account, task, crashes>>

-----------------------------------------------------------------------------
(* The process.                                                            *)

\* The process dies between two writes; handlers and HCM calls are gone,
\* the tables stay.  Nothing in main.js resumes them.
Crash ==
    /\ crashes < MaxCrashes
    /\ crashes' = crashes + 1
    /\ pc' = [h \in Handlers |->
                IF pc[h] \in Ended \cup {"start"} THEN pc[h] ELSE "crashed"]
    /\ running' = Nobody
    /\ UNCHANGED <<account, requests, task, copy>>

Step(h) ==
    \/ Validate(h)
    \/ CheckKey(h)
    \/ CheckOverlap(h)
    \/ Reserve(h)
    \/ Insert(h)
    \/ Find(h)
    \/ Settle(h)
    \/ SaveVerdict(h)
    \/ LedgerFails(h)
    \/ MarkSyncing(h)
    \/ Notify(h)
    \/ HcmAnswers(h)
    \/ MarkSynced(h)
    \/ MarkFailed(h)

Start(h) ==
    \/ \E s \in Submissions : Submit(h, s)
    \/ \E kind \in {"approve", "reject", "cancel"}, r \in Handlers : Review(h, kind, r)

Next ==
    \/ \E h \in Handlers : Start(h) \/ Step(h)
    \/ Crash

Spec == Init /\ [][Next]_vars

-----------------------------------------------------------------------------
Requests ==
    [employee : {s.employee : s \in Submissions},
     account : Accounts,
     first : {s.first : s \in Submissions},
     last : {s.last : s \in Submissions},
     days : 1..MaxDays,
     key : {s.key : s \in Submissions},
     status : {"PENDING", "APPROVED", "REJECTED", "CANCELLED"},
     sync : {"NOT_SYNCED", "SYNCING", "SYNCED", "FAILED"},
     attempts : 0..1]

Tasks ==
    {NoTask}
        \cup [kind : {"create"}, body : Submissions]
        \cup [kind : {"approve", "reject", "cancel"}, request : Handlers]

\* Types of the variables; who runs is somewhere on the way.
TypeOK ==
    /\ account \in [Accounts -> Account]
    /\ requests \in [Handlers -> Requests \cup {NoRequest}]
    /\ task \in [Handlers -> Tasks]
    /\ copy \in [Handlers -> Requests \cup {NoRequest}]
    /\ running \in Handlers => pc[running] \notin Idle
    /\ crashes \in 0..MaxCrashes

\* What a row adds to the days of account a in a status.
Share(r, a, status) == IF r.status = status /\ r.account = a THEN r.days ELSE 0

\* The days of the requests of an account that are in a status.
DaysIn(a, status) == SumFunction([r \in Handlers |-> Share(requests[r], a, status)])

\* No handler stands between two of its writes.
Quiescent == \A h \in Handlers : pc[h] \in Idle

\* Between turns the pending days of an account are the days of its PENDING
\* requests: a refusal, a repeated submission, a review or an inbound sync
\* neither leaks a reservation nor drops one (docs/TRD.md:246, "Pending days
\* provide reservation consistency preventing over-commitment").
PendingBacksRequests ==
    Quiescent => \A a \in Accounts : account[a].pending = DaysIn(a, "PENDING")

\* Between turns, where no sync brings figures of the HCM, the used days of an
\* account are the days of its APPROVED requests: no approval is deducted
\* twice or restored twice (docs/TRD.md:28, "Prevent double-deduction of
\* leave balances under concurrent requests").
UsedBacksRequests ==
    Quiescent => \A a \in Accounts : account[a].used = DaysIn(a, "APPROVED")

\* The cancellations that were answered, and the requests they were for.  One
\* of these may still be APPROVED, when an approval that waited for the HCM
\* saved the object it held (leave-request.service.js:347, 352).
Cancellations ==
    {h \in Handlers : pc[h] = "replied" /\ task[h].kind = "cancel"}

Withdrawn(r) == \E h \in Cancellations : task[h].request = r

\* The days of the requests of an account that are in a status and stand.
StandingDays(a, status) ==
    SumFunction([r \in Handlers |->
                    IF Withdrawn(r) THEN 0 ELSE Share(requests[r], a, status)])

\* Cancellations of requests that had been cancelled before.
SecondCancellations ==
    Cardinality(Cancellations) - Cardinality({r \in Handlers : Withdrawn(r)})

\* A restart costs the days of at most the one request whose handler it
\* stopped between its write to the account and its write to the request,
\* also when that request is reviewed again and its days are settled a second
\* time; and a request that came back after its cancellation gives its days
\* back once more when it is cancelled again.  Nothing else parts the account
\* from the requests that stand.
LargestRequest ==
    Max({0} \cup {days \in 1..MaxDays : \E s \in Submissions : days = DaysOf(s)})

DriftBounded ==
    Quiescent =>
        \A a \in Accounts :
            LET bound == (crashes + SecondCancellations) * LargestRequest
            IN  /\ account[a].pending - StandingDays(a, "PENDING") \in -bound..bound
                /\ account[a].used - StandingDays(a, "APPROVED") \in -bound..bound

\* Two active requests of an employee share no day (docs/TRD.md:329,
\* "Overlap detection prevents double-booking"), unless one was cancelled and
\* came back, its days free for others in between.
NoDoubleBooking ==
    \A q, r \in Handlers :
        /\ q # r
        /\ Active(requests[q]) /\ ~Withdrawn(q)
        /\ Active(requests[r]) /\ ~Withdrawn(r)
        /\ requests[q].employee = requests[r].employee
        => (requests[q].first..requests[q].last)
                \cap (requests[r].first..requests[r].last) = {}

\* A request costs the weekdays among the dates it names, weekends that the
\* range spans left out and both ends counted, and no request is for nothing
\* (date.utils.js:7, "Calculates the number of business days (Mon-Fri) between
\* two dates, inclusive"; docs/TRD.md:320).  A host whose zone is west of
\* Greenwich counts the days before instead.
ChargesBusinessDays ==
    \A r \in Handlers :
        requests[r] # NoRequest =>
            LET dates == requests[r].first..requests[r].last
            IN  /\ requests[r].days = Cardinality({n \in dates : n % 7 \in 1..5})
                /\ requests[r].days > 0

StatusMachine ==
    {<<"none", "PENDING">>, <<"PENDING", "APPROVED">>, <<"PENDING", "REJECTED">>,
     <<"PENDING", "CANCELLED">>, <<"APPROVED", "CANCELLED">>}

\* A request moves only along the state machine of common/enums/index.js:
\* 23-27; REJECTED and CANCELLED are final.
StatusMoves ==
    [][\A r \in Handlers :
        LET before == requests[r].status
            after == requests[r].status'
        IN  before # after => <<before, after>> \in StatusMachine]_vars

\* Handler h ends its approval of request r with the save of a sync mark.
Marks(h, r) ==
    /\ task[h].kind = "approve" /\ task[h].request = r
    /\ pc[h] \in {"mark_synced", "mark_failed"} /\ pc'[h] = "settled"

\* Whatever reviews and late answers meet, a request leaves the state machine
\* in one way only: the approval that waited for the HCM when it was cancelled
\* brings it back, never a rejected one and never to PENDING (leave-request.
\* service.js:342-352).
OnlyLateMarksRevive ==
    [][\A r \in Handlers :
        LET before == requests[r].status
            after == requests[r].status'
        IN  before # after =>
                \/ <<before, after>> \in StatusMachine
                \/ /\ <<before, after>> = <<"CANCELLED", "APPROVED">>
                   /\ \E h \in Handlers : Marks(h, r)]_vars

\* An idempotency key reserves days once, whatever became of the request it
\* made: a submission repeated under its key never reserves again
\* (docs/TRD.md:32, "Duplicate request submissions produce the same result").
KeyReservesOnce ==
    [][\A h \in Handlers :
        pc[h] = "reserve" /\ pc'[h] = "insert" => SameKey(task[h].body) = {}]_vars

\* Submissions under one idempotency key never make two requests, even when
\* they race past each other's check, and whoever is answered gets the one
\* (leave-request.entity.js:13, "`idempotencyKey` prevents duplicate
\* submissions (unique constraint)").
KeyMakesOneRequest ==
    \A h \in Handlers :
        pc[h] = "replied" /\ task[h].kind = "create" /\ task[h].body.key # NoKey =>
            \E r \in Handlers :
                /\ SameKey(task[h].body) = {r}
                /\ copy[h].first = requests[r].first

\* The sync status of a request moves along common/enums/index.js:40, and a
\* settled one is never set back by another handler's save.
SyncStatusMoves ==
    [][\A r \in Handlers :
        requests[r] # NoRequest /\ requests'[r].sync # requests[r].sync =>
            <<requests[r].sync, requests'[r].sync>> \in
                {<<"NOT_SYNCED", "SYNCING">>, <<"SYNCING", "SYNCED">>,
                 <<"SYNCING", "FAILED">>}]_vars

\* An approved request whose sync has not settled is in the hands of its
\* approval, or of one that a restart stopped: whatever races, nothing else
\* leaves it SYNCING for ever.  Nobody takes it up after a restart (docs/
\* TRD.md:193, "HCM sync status tracked per request").
StrandedOnlyByRestart ==
    \A r \in Handlers :
        requests[r].status = "APPROVED" /\ requests[r].sync \in {"NOT_SYNCED", "SYNCING"}
        => \E h \in Handlers :
                /\ task[h].kind = "approve" /\ task[h].request = r
                /\ pc[h] \notin Ended \ {"crashed"}

\* The approved requests whose sync is yet to begin, and those whose sync is
\* under way, cancelled or not.
Open ==
    {r \in Handlers :
        \/ requests[r].status = "APPROVED" /\ requests[r].sync = "NOT_SYNCED"
        \/ requests[r] # NoRequest /\ requests[r].sync = "SYNCING"}

\* An approval reaches a settled sync status, whatever the HCM answers and
\* whoever cancels meanwhile: no sync stays open while the process lives
\* (docs/TRD.md:193, "HCM sync status tracked per request").
ApprovalSettles == Open # {} ~> Open = {}
=============================================================================
