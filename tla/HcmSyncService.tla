--------------------------- MODULE HcmSyncService ---------------------------
(***************************************************************************)
(* The inbound sync of src/modules/hcm-sync/hcm-sync.service.js:           *)
(* syncSingle and syncBatch, the log entry of each run, the employees they *)
(* look up, the books of the HCM, and the leave balances they overwrite.   *)
(*                                                                         *)
(* What a balance row holds is abstracted to where its total and used days *)
(* come from: <<b, n>>, the figures of balance b in the HCM's books after  *)
(* their n-th change, or Local, figures a settlement has changed since.    *)
(* Pending days are the subject of BalanceService.                         *)
(*                                                                         *)
(* As in LeaveRequestService with one turn at a time, a run that has begun *)
(* a turn of the event loop keeps it until it waits for the HCM or ends.   *)
(***************************************************************************)
EXTENDS Integers, FiniteSetsExt

CONSTANTS
    Runs,           \* calls of the two sync endpoints
    Nobody,         \* no run holds the event loop
    Employees,      \* local employees
    HcmIds,         \* the employees the HCM knows
    NoLink,         \* an employee without externalHcmId
    HcmBalances,    \* the HCM's balances [owner, type, location]
    Bodies,         \* what the HCM may answer: whom it lists, what it sends
    Locations,
    FirstEmployees, \* employees as they are at first: [link, location]
    Updates,        \* [employee, link, location] an update may bring
    NoLocation,     \* a balance sent without locationId; a batch of all
    Filters,        \* the locations a batch may be asked for, or NoLocation
    MaxChanges      \* bound on the changes of the HCM's books

\* The HCM tells the balances of an employee and leave type apart by location.
ASSUME HcmBalancesAssumption ==
    /\ IsFiniteSet(HcmBalances)
    /\ \A b \in HcmBalances :
        /\ b.owner \in HcmIds /\ b.location \in Locations \cup {NoLocation}
        /\ \A c \in HcmBalances \ {b} :
            b.owner = c.owner /\ b.type = c.type =>
                b.location # c.location /\ NoLocation \notin {b.location, c.location}
ASSUME EmployeesAssumption ==
    /\ FirstEmployees \in [Employees -> [link : HcmIds \cup {NoLink}, location : Locations]]
    /\ \A d, e \in Employees :
        d # e /\ FirstEmployees[d].link = FirstEmployees[e].link
            => FirstEmployees[e].link = NoLink
    /\ Updates \subseteq [employee : Employees, link : HcmIds \cup {NoLink}, location : Locations]
ASSUME NoNamesAssumption ==
    NoLink \notin HcmIds /\ NoLocation \notin Locations /\ Nobody \notin Runs
\* A body may leave employees out, and list some without a balances array.
ASSUME BodiesAssumption ==
    /\ Bodies \subseteq [listed : SUBSET HcmIds, sent : SUBSET HcmBalances]
    /\ \A a \in Bodies : \A b \in a.sent : b.owner \in a.listed
ASSUME FiltersAssumption == Filters \subseteq Locations \cup {NoLocation}
ASSUME MaxChangesAssumption == MaxChanges \in Nat

VARIABLES
    hcm,        \* how often the HCM's books have changed
    employees,  \* employees[e]: externalHcmId and locationCode
    figures,    \* figures[row]: the origin of the figures of a balance row
    log,        \* log[r]: status and balancesUpdated of the run's log entry
    pc,         \* pc[r]: where the run stands
    task,       \* task[r]: whom the run syncs
    snapshot,   \* snapshot[r]: the HCM's answer and the books it read for it
    target,     \* target[r]: the employee object the run holds
    outcome,    \* outcome[r][i]: what the run counted HCM employee i as
    written,    \* written[r]: the HCM balances the run has stored
    began,      \* began[r]: the books when the run began (history)
    running     \* the run whose turn of the event loop it is

books == <<hcm, employees, figures>>
held == <<task, target, snapshot, outcome, written, began>>
vars == <<books, log, pc, held, running>>

-----------------------------------------------------------------------------
BalancesOf(i) == {b \in HcmBalances : b.owner = i}

\* hcmBalance.locationId || employee.locationCode
LocationOf(b, location) == IF b.location = NoLocation THEN location ELSE b.location

Row(e, b, location) == <<e, b.type, LocationOf(b, location)>>

Rows == Employees \X {b.type : b \in HcmBalances} \X Locations

Tasks ==
    [kind : {"single"}, employee : Employees]
        \cup [kind : {"batch"}, location : Filters]

Answers == [books : 0..MaxChanges, listed : SUBSET HcmIds, sent : SUBSET HcmBalances]

NoTask == [kind |-> "none"]
NoLog == [status |-> "none", balances |-> 0]
NoTarget == [id |-> NoLink]
NoAnswer == [books |-> -1, listed |-> {}, sent |-> {}]
Uncounted == [i \in HcmIds |-> "none"]
Local == <<>>

Init ==
    /\ hcm = 0
    /\ employees = FirstEmployees
    /\ figures = [k \in Rows |-> Local]
    /\ log = [r \in Runs |-> NoLog]
    /\ pc = [r \in Runs |-> "start"]
    /\ task = [r \in Runs |-> NoTask]
    /\ snapshot = [r \in Runs |-> NoAnswer]
    /\ target = [r \in Runs |-> NoTarget]
    /\ outcome = [r \in Runs |-> Uncounted]
    /\ written = [r \in Runs |-> {}]
    /\ began = [r \in Runs |-> 0]
    /\ running = Nobody

-----------------------------------------------------------------------------
(* One run.                                                                *)

Waiting == {"start", "fetch", "ended", "crashed"}

Resting == {"start", "ended", "crashed"}

At(r, p) == running \in {Nobody, r} /\ pc[r] = p

Goto(r, p) ==
    /\ pc' = [pc EXCEPT ![r] = p]
    /\ running' = IF p \in Waiting THEN Nobody ELSE r

\* The end of a call; what it held is gone.
Return(r) ==
    /\ Goto(r, "ended")
    /\ task' = [task EXCEPT ![r] = NoTask]
    /\ target' = [target EXCEPT ![r] = NoTarget]
    /\ snapshot' = [snapshot EXCEPT ![r] = NoAnswer]
    /\ outcome' = [outcome EXCEPT ![r] = Uncounted]
    /\ written' = [written EXCEPT ![r] = {}]
    /\ began' = [began EXCEPT ![r] = 0]

\* _completeSyncLog and _failSyncLog, the last thing a run does.
CloseLog(r, status, balances) ==
    /\ log' = [log EXCEPT ![r] = [status |-> status, balances |-> balances]]
    /\ Return(r)

\* _createSyncLog; a batch goes on to ask the HCM.
Begin(r, t) ==
    /\ At(r, "start")
    /\ task' = [task EXCEPT ![r] = t]
    /\ log' = [log EXCEPT ![r].status = "IN_PROGRESS"]
    /\ began' = [began EXCEPT ![r] = hcm]
    /\ Goto(r, IF t.kind = "single" THEN "look_up" ELSE "fetch")
    /\ UNCHANGED <<books, target, snapshot, outcome, written>>

\* What a run remembers of an employee it has found.
Found(e) == [employee |-> e, id |-> employees[e].link, location |-> employees[e].location]

\* Mutant of LookUp: the HCM linkage is not checked.
LookUpUnchecked(r) ==
    /\ At(r, "look_up")
    /\ Goto(r, "fetch")
    /\ target' = [target EXCEPT ![r] = Found(task[r].employee)]
    /\ UNCHANGED <<books, log, task, snapshot, outcome, written, began>>

\* findById and the check of the HCM linkage, before the HCM is asked.
LookUp(r) ==
    /\ At(r, "look_up")
    /\ LET e == task[r].employee
       IN  IF employees[e].link = NoLink
           THEN CloseLog(r, "FAILED", 0)
           ELSE /\ Goto(r, "fetch")
                /\ target' = [target EXCEPT ![r] = Found(e)]
                /\ UNCHANGED <<log, task, snapshot, outcome, written, began>>
    /\ UNCHANGED books

\* getEmployeeBalance or getBatchBalances rejects: its retries ran out, the
\* HCM does not know the employee, the body is empty or an error; or a batch
\* finds no employees array in the answer.
FetchFails(r) ==
    /\ At(r, "fetch")
    /\ CloseLog(r, "FAILED", 0)
    /\ UNCHANGED books

\* The answer is taken as it is: nothing asks whom it lists or what it sends.
HcmAnswers(r) ==
    /\ At(r, "fetch")
    /\ snapshot[r] # NoAnswer
    /\ Goto(r, IF task[r].kind = "single" THEN "write" ELSE "next")
    /\ UNCHANGED <<books, log, held>>

\* The HCM employees of the answer the loop has not come to; the order is
\* the HCM's.
Remaining(r) ==
    IF task[r].kind = "single"
    THEN {}
    ELSE {i \in snapshot[r].listed : outcome[r][i] = "none"}

\* The location filter.
Skips(r, e) ==
    task[r].location # NoLocation /\ employees[e].location # task[r].location

Counted(r, i, as) == outcome' = [outcome EXCEPT ![r][i] = as]

\* findByHcmId and the location filter, for one HCM employee of a batch.
FindEmployee(r, i) ==
    /\ At(r, "next")
    /\ i \in Remaining(r)
    /\ LET found == {e \in Employees : employees[e].link = i}
       IN  \/ /\ found = {}
              /\ Counted(r, i, "failed")
              /\ Goto(r, "next")
              /\ UNCHANGED target
           \/ \E e \in found :
                IF Skips(r, e)
                THEN Counted(r, i, "skipped") /\ Goto(r, "next") /\ UNCHANGED target
                ELSE /\ Goto(r, "write")
                     /\ target' = [target EXCEPT ![r] = Found(e)]
                     /\ UNCHANGED outcome
    /\ UNCHANGED <<books, log, task, snapshot, began, written>>

\* The balances of HCM employee i in the answer.
Sent(r, i) == BalancesOf(i) \cap snapshot[r].sent

Unwritten(r) == Sent(r, target[r].id) \ written[r]

\* syncFromHcm for one balance of the employee.
WriteBalance(r) ==
    /\ At(r, "write")
    /\ \E b \in Unwritten(r) :
        /\ figures' = [figures EXCEPT
                ![Row(target[r].employee, b, target[r].location)] =
                    <<b, snapshot[r].books>>]
        /\ written' = [written EXCEPT ![r] = @ \cup {b}]
    /\ Goto(r, "write")
    /\ UNCHANGED <<hcm, employees, log, task, target, snapshot, outcome, began>>

EmployeeDone(r) ==
    /\ At(r, "write")
    /\ Unwritten(r) = {}
    /\ Counted(r, target[r].id, "updated")
    /\ Goto(r, "next")
    /\ UNCHANGED <<books, log, task, target, snapshot, began, written>>

\* Mutant of WriteFails: the catch of the loop does not count the failure.
WriteFailsUncounted(r) ==
    /\ At(r, "write")
    /\ Unwritten(r) # {}
    /\ IF task[r].kind = "single"
       THEN CloseLog(r, "FAILED", 0)
       ELSE /\ Counted(r, target[r].id, "skipped")
            /\ Goto(r, "next")
            /\ UNCHANGED <<log, task, target, snapshot, written, began>>
    /\ UNCHANGED books

\* Mutant of WriteFails: the error ends the batch, and nothing catches it.
WriteFailsUncaught(r) ==
    /\ At(r, "write")
    /\ Unwritten(r) # {}
    /\ Return(r)
    /\ UNCHANGED <<books, log>>

\* syncFromHcm throws: a batch counts the employee as failed and goes on, a
\* single sync is over, its log without the balances already written.
WriteFails(r) ==
    /\ At(r, "write")
    /\ Unwritten(r) # {}
    /\ IF task[r].kind = "single"
       THEN CloseLog(r, "FAILED", 0)
       ELSE /\ Counted(r, target[r].id, "failed")
            /\ Goto(r, "next")
            /\ UNCHANGED <<log, task, target, snapshot, written, began>>
    /\ UNCHANGED books

Has(r, as) == \E i \in HcmIds : outcome[r][i] = as

\* Mutant of Verdict: any success is a SUCCESS.
VerdictHopeful(r) == IF Has(r, "updated") \/ ~ Has(r, "failed") THEN "SUCCESS" ELSE "FAILED"

Verdict(r) ==
    IF ~ Has(r, "failed") THEN "SUCCESS"
    ELSE IF Has(r, "updated") THEN "PARTIAL_SUCCESS" ELSE "FAILED"

Complete(r) ==
    /\ At(r, "next")
    /\ Remaining(r) = {}
    /\ CloseLog(r, Verdict(r), Cardinality(written[r]))
    /\ UNCHANGED books

Step(r) ==
    \/ LookUp(r)
    \/ FetchFails(r)
    \/ HcmAnswers(r)
    \/ \E i \in HcmIds : FindEmployee(r, i)
    \/ WriteBalance(r)
    \/ EmployeeDone(r)
    \/ WriteFails(r)
    \/ Complete(r)

-----------------------------------------------------------------------------
(* Everybody else.                                                         *)

\* The answer to run r from the books after their n-th change.  A single sync
\* asks for one employee; a batch does not look for those left out.
Answer(r, body, n) ==
    IF task[r].kind = "single"
    THEN [books |-> n, listed |-> {target[r].id},
          sent |-> BalancesOf(target[r].id) \cap body.sent]
    ELSE [books |-> n, listed |-> body.listed, sent |-> body.sent]

\* Mutant of HcmReads: the HCM answers from a replica that lags behind.
HcmReadsLagging(r) ==
    /\ pc[r] = "fetch"
    /\ \E n \in {hcm - 1, hcm} \cap Nat, body \in Bodies :
        snapshot' = [snapshot EXCEPT ![r] = Answer(r, body, n)]
    /\ UNCHANGED <<books, log, pc, task, target, outcome, began, written, running>>

\* The HCM reads its books for an attempt of the run; a retry reads anew.
HcmReads(r) ==
    /\ pc[r] = "fetch"
    /\ \E body \in Bodies : snapshot' = [snapshot EXCEPT ![r] = Answer(r, body, hcm)]
    /\ UNCHANGED <<books, log, pc, task, target, outcome, began, written, running>>

\* A deduction, an anniversary or an admin's correction at the HCM.
HcmChanges ==
    /\ hcm < MaxChanges
    /\ hcm' = hcm + 1
    /\ UNCHANGED <<employees, figures, log, pc, held, running>>

\* update of employee.service.js; external_hcm_id is unique.
UpdateEmployee(u) ==
    /\ running = Nobody
    /\ u.link = NoLink \/ \A d \in Employees \ {u.employee} : employees[d].link # u.link
    /\ employees' =
        [employees EXCEPT ![u.employee] = [link |-> u.link, location |-> u.location]]
    /\ UNCHANGED <<hcm, figures, log, pc, held, running>>

\* confirmDays or restoreUsedDays of a leave request.
SettleLocally(k) ==
    /\ running = Nobody
    /\ figures[k] # Local
    /\ figures' = [figures EXCEPT ![k] = Local]
    /\ UNCHANGED <<hcm, employees, log, pc, held, running>>

\* The process dies; the tables stay, its runs' log entries as they are.
Crash ==
    /\ \E r \in Runs : pc[r] \notin Resting
    /\ pc' = [r \in Runs |-> IF pc[r] \in Resting THEN pc[r] ELSE "crashed"]
    /\ running' = Nobody
    /\ task' = [r \in Runs |-> NoTask]
    /\ target' = [r \in Runs |-> NoTarget]
    /\ snapshot' = [r \in Runs |-> NoAnswer]
    /\ outcome' = [r \in Runs |-> Uncounted]
    /\ written' = [r \in Runs |-> {}]
    /\ began' = [r \in Runs |-> 0]
    /\ UNCHANGED <<books, log>>

Others ==
    \/ \E r \in Runs : HcmReads(r)
    \/ HcmChanges
    \/ \E u \in Updates : UpdateEmployee(u)
    \/ \E k \in Rows : SettleLocally(k)
    \/ Crash

Next ==
    \/ \E r \in Runs : Step(r) \/ \E t \in Tasks : Begin(r, t)
    \/ Others

Spec == Init /\ [][Next]_vars

\* The event loop runs what is ready; a call of the HCM ends by an answer or
\* by its timeouts.  The HCM itself promises nothing.
FairSpec == Spec /\ \A r \in Runs : WF_vars(Step(r))

-----------------------------------------------------------------------------
\* Types of the variables; no two employees share a link.
TypeOK ==
    /\ hcm \in 0..MaxChanges
    /\ employees \in [Employees -> [link : HcmIds \cup {NoLink}, location : Locations]]
    /\ \A d, e \in Employees :
        d # e /\ employees[d].link = employees[e].link => employees[e].link = NoLink
    /\ figures \in [Rows -> {Local} \cup (HcmBalances \X (0..MaxChanges))]
    /\ log \in [Runs ->
            [status : {"none", "IN_PROGRESS", "SUCCESS", "PARTIAL_SUCCESS", "FAILED"},
             balances : 0..Cardinality(HcmBalances)]]
    /\ pc \in [Runs -> Waiting \cup {"look_up", "next", "write"}]
    /\ task \in [Runs -> Tasks \cup {NoTask}]
    /\ snapshot \in [Runs -> {NoAnswer} \cup Answers]
    /\ target \in [Runs -> {NoTarget} \cup
            [employee : Employees, id : HcmIds, location : Locations]]
    /\ outcome \in [Runs -> [HcmIds -> {"none", "updated", "skipped", "failed"}]]
    /\ written \in [Runs -> SUBSET HcmBalances]
    /\ began \in [Runs -> 0..MaxChanges]
    /\ running \in Runs => pc[running] \notin Waiting

\* The employees a run is to bring up to date, as it sees them: a batch the
\* linked ones at its location, a single sync the one it looked up.
Scope(r) ==
    IF task[r].kind = "single"
    THEN {target[r]}
    ELSE {Found(e) : e \in {e \in Employees :
            /\ employees[e].link # NoLink
            /\ task[r].location \in {NoLocation, employees[e].location}}}

\* When a run reports SUCCESS, every balance that the HCM sent of an employee
\* in its scope is stored with figures the HCM had since the run began, whatever
\* settled, relocated or synced while it waited.
SuccessReconciles ==
    [][\A r \in Runs :
        log[r].status = "IN_PROGRESS" /\ log'[r].status = "SUCCESS" =>
            \A t \in Scope(r) : \A b \in Sent(r, t.id) :
                \E n \in began[r]..hcm :
                    figures[Row(t.employee, b, t.location)] = <<b, n>>]_vars

\* A batch that reports SUCCESS has done so for every balance the HCM has of its
\* scope: what makes it "the ultimate reconciliation mechanism"
\* (docs/TRD.md:230).  It fails, as nothing asks what the answer leaves out.
BatchReconciles ==
    [][\A r \in Runs :
        /\ task[r].kind = "batch"
        /\ log[r].status = "IN_PROGRESS" /\ log'[r].status = "SUCCESS"
        => \A t \in Scope(r) : \A b \in BalancesOf(t.id) :
                \E n \in began[r]..hcm :
                    figures[Row(t.employee, b, t.location)] = <<b, n>>]_vars

\* A row goes back to older figures of its HCM balance only through a run
\* that began before the newer ones came to be: runs that do not overlap
\* never undo each other.
OlderOnlyWhenOverlapping ==
    [][\A k \in Rows :
        /\ figures[k] # Local /\ figures'[k] # Local
        /\ figures[k][1] = figures'[k][1]
        /\ figures'[k][2] < figures[k][2]
        => began[running] < figures[k][2]]_vars

\* Those whom the answer lists, once the run goes by it.
Listed(r) == IF pc[r] \in {"write", "next"} THEN snapshot[r].listed ELSE {}

Linked(i) == {e \in Employees : employees[e].link = i}

\* HCM employee i is one that the run is to bring up to date.
Meant(r, i) == IF task[r].kind = "single" THEN i = target[r].id
                                          ELSE \E e \in Linked(i) : ~ Skips(r, e)

\* Those meant of whom all that the answer holds is stored.
UpToDate(r) == {i \in Listed(r) : Meant(r, i) /\ Sent(r, i) \subseteq written[r]}

\* Those of whom it is not, and those whom a batch could not find.
LeftOpen(r) ==
    {i \in Listed(r) :
        \/ Meant(r, i) /\ ~ (Sent(r, i) \subseteq written[r])
        \/ task[r].kind = "batch" /\ Linked(i) = {}}

\* The log entry of a run tells what became of the answer (docs/TRD.md:200,
\* "Handles partial failures: continues processing remaining employees"):
\* FAILED when nobody was brought up to date, PARTIAL_SUCCESS when somebody was
\* and somebody was not, SUCCESS when nobody was left open; and it counts the
\* balances, except those that a single sync stored before it broke off.
HonestLog ==
    [][\A r \in Runs :
        log'[r] # log[r] /\ log'[r].status # "IN_PROGRESS" =>
            /\ log'[r].status = "FAILED" => UpToDate(r) = {}
            /\ log'[r].status = "PARTIAL_SUCCESS" => UpToDate(r) # {} /\ LeftOpen(r) # {}
            /\ log'[r].status = "SUCCESS" => LeftOpen(r) = {}
            /\ log'[r].status # "FAILED" \/ task[r].kind = "batch"
                => log'[r].balances = Cardinality(written[r])]_vars

\* A run that the process survives closes its log entry: nothing stays
\* IN_PROGRESS, whatever the HCM does.
LogCloses ==
    \A r \in Runs :
        log[r].status = "IN_PROGRESS" ~> log[r].status # "IN_PROGRESS" \/ pc[r] = "crashed"
=============================================================================
