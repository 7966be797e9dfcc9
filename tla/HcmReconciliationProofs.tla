---------------------- MODULE HcmReconciliationProofs ----------------------
(***************************************************************************)
(* Theorems about leave requests together with the HCM and its syncs, for  *)
(* every set of handlers, submissions and linked employees, and any number *)
(* of syncs and of attempts.                                               *)
(*                                                                         *)
(* What is marked SYNCED was deducted, whether or not awaits on the        *)
(* database let others run.  The mark is set by an approval that the HCM   *)
(* has confirmed, but it is copied by every object that is read and by     *)
(* every stale object that is saved.  So the invariant speaks of the rows  *)
(* and of all objects held: a mark, wherever it stands, has a deduction    *)
(* behind it, and a deduction that was made stays made.                    *)
(*                                                                         *)
(* One turn of the event loop at a time, the books agree.  The pending     *)
(* days of an account are those of its pending requests and of what the    *)
(* handler under way has reserved and not yet written; its used days are   *)
(* at most those the HCM deducted, those of approved requests it did not,  *)
(* and those the handler under way has taken.  And one turn at a time a    *)
(* request is approved once, so that its sync status has one author.       *)
(***************************************************************************)
EXTENDS HcmReconciliation, FiniteSums, TLAPS

Creating == {"validate", "check_key", "check_overlap", "reserve", "insert"}
Marking == {"mark_syncing", "notify", "in_flight", "mark_synced", "mark_failed"}
Holding == {"settle", "save"} \cup Marking
Places == Creating \cup {"find"} \cup Holding \cup Ended \cup {"start"}
Reviews == {"approve", "reject", "cancel"}

Columns ==
    {"employee", "account", "first", "last", "days", "key", "status", "sync", "attempts"}

\* A step of a sync.
Syncing == \E s \in Syncs : SyncReads(s) \/ SyncWrites(s)

\* An approval of request r was applied at the HCM.
Deducted(r) == \E h \in Approvals(r) : applied[h] > 0

\* A row or an object of request r bears no mark without a deduction.
Truthful(object, r) ==
    /\ DOMAIN object = Columns
    /\ object.sync = "SYNCED" /\ object.employee \in Linked => Deducted(r)

Shape ==
    /\ DOMAIN requests = Handlers /\ DOMAIN copy = Handlers
    /\ pc \in [Handlers -> Places] /\ task \in [Handlers -> Tasks]
    /\ applied \in [Handlers -> Nat]

Faithful(h) ==
    /\ pc[h] = "start" => task[h] = NoTask
    /\ pc[h] \in {"find"} \cup Holding => task[h].kind \in Reviews
    /\ pc[h] \in Holding => Truthful(copy[h], task[h].request)
    /\ pc[h] \in Marking => task[h].kind = "approve"
    /\ pc[h] = "mark_synced" /\ copy[h].employee \in Linked => applied[h] > 0

RowsTruthful ==
    \A r \in Handlers : requests[r] = NoRequest \/ Truthful(requests[r], r)

SystemInv ==
    /\ Shape
    /\ RowsTruthful
    /\ \A h \in Handlers : Faithful(h)

-----------------------------------------------------------------------------
(* What stays true.                                                        *)

\* A step at handler h takes no deduction back and asks nobody anything new.
Onward(h) ==
    /\ pc' \in [Handlers -> Places] /\ task' \in [Handlers -> Tasks]
    /\ DOMAIN copy' = Handlers /\ DOMAIN requests' = Handlers
    /\ applied' \in [Handlers -> Nat]
    /\ \A g \in Handlers : applied[g] > 0 => applied'[g] > 0
    /\ \A g \in Handlers :
        g # h => pc'[g] = pc[g] /\ task'[g] = task[g] /\ copy'[g] = copy[g]
    /\ task'[h] = task[h] \/ task[h] = NoTask

LEMMA DeductedStays ==
    ASSUME SystemInv, NEW h \in Handlers, Onward(h), NEW r, Deducted(r)
    PROVE  Deducted(r)'
<1>1. PICK g \in Handlers : task[g].kind = "approve" /\ task[g].request = r /\ applied[g] > 0
    BY DEF Deducted, Approvals
<1>2. task'[g] = task[g] /\ applied'[g] > 0
    BY <1>1 DEF Onward, NoTask
<1> QED
    BY <1>1, <1>2 DEF Deducted, Approvals

LEMMA StepKeeps ==
    ASSUME SystemInv, NEW h \in Handlers, Onward(h), RowsTruthful', Faithful(h)'
    PROVE  SystemInv'
<1>1. Shape'
    BY DEF SystemInv, Shape, Onward
<1>2. ASSUME NEW g \in Handlers, g # h PROVE Faithful(g)'
    <2>1. pc'[g] = pc[g] /\ task'[g] = task[g] /\ copy'[g] = copy[g] /\ Faithful(g)
        BY <1>2 DEF Onward, SystemInv
    <2>2. Deducted(task[g].request) => Deducted(task[g].request)'
        BY DeductedStays, <2>1
    <2>3. applied[g] > 0 => applied'[g] > 0
        BY DEF Onward
    <2> QED
        BY <2>1, <2>2, <2>3 DEF Faithful, Truthful
<1> QED
    BY <1>1, <1>2 DEF SystemInv

LEMMA RowsStay ==
    ASSUME SystemInv, NEW h \in Handlers, Onward(h), UNCHANGED requests
    PROVE  RowsTruthful'
BY DeductedStays DEF SystemInv, RowsTruthful, Truthful

\* Where a handler goes, it goes alone.
LEMMA GoneOnward ==
    ASSUME SystemInv, NEW h \in Handlers, NEW p \in Places, Goto(h, p),
           UNCHANGED <<task, applied>>,
           \/ UNCHANGED copy
           \/ \E object : copy' = [copy EXCEPT ![h] = object],
           DOMAIN requests' = Handlers
    PROVE  Onward(h) /\ pc'[h] = p
BY DEF SystemInv, Shape, Onward, Goto

\* A place where nothing is held.
LEMMA LightStep ==
    ASSUME SystemInv, NEW h \in Handlers, NEW p \in Creating \cup Ended, Goto(h, p),
           UNCHANGED <<task, applied, requests>>,
           \/ UNCHANGED copy
           \/ \E object : copy' = [copy EXCEPT ![h] = object]
    PROVE  SystemInv'
<1>1. p \in Places /\ DOMAIN requests' = Handlers
    BY DEF Places, SystemInv, Shape
<1>2. Onward(h) /\ pc'[h] = p
    BY <1>1, GoneOnward
<1>3. Faithful(h)'
    BY <1>2 DEF Faithful, Creating, Ended, Holding, Marking
<1> QED
    BY <1>2, <1>3, RowsStay, StepKeeps

\* A handler that holds an object goes on and keeps it.
LEMMA HeldStep ==
    ASSUME SystemInv, NEW h \in Handlers, pc[h] \in Holding,
           NEW p \in Holding, Goto(h, p),
           p \in Marking => pc[h] \in Marking,
           p = "mark_synced" /\ copy[h].employee \in Linked => applied[h] > 0,
           UNCHANGED <<task, copy, requests, applied>>
    PROVE  SystemInv'
<1>1. p \in Places /\ DOMAIN requests' = Handlers
    BY DEF Places, SystemInv, Shape
<1>2. Onward(h) /\ pc'[h] = p
    BY <1>1, GoneOnward
<1>3. Faithful(h)
    BY DEF SystemInv
<1>4. Truthful(copy[h], task[h].request)'
    BY <1>2, <1>3, DeductedStays DEF Faithful, Truthful
<1>5. Faithful(h)'
    BY <1>2, <1>3, <1>4 DEF Faithful, Holding, Marking
<1> QED
    BY <1>2, <1>5, RowsStay, StepKeeps

\* A save is truthful if what it saves is.
LEMMA SaveKeeps ==
    ASSUME SystemInv, NEW h \in Handlers, pc[h] \in Holding,
           NEW object, SaveCopy(h, object), Truthful(object, task[h].request),
           NEW p \in {"mark_syncing", "notify", "settled", "replied"}, Goto(h, p),
           p \in Marking => task[h].kind = "approve",
           UNCHANGED <<task, applied>>
    PROVE  SystemInv'
<1> DEFINE r == task[h].request
<1>1. task[h].kind \in Reviews /\ r \in Handlers
    BY DEF SystemInv, Shape, Faithful, Tasks, NoTask, Reviews
<1>2. /\ requests' = [requests EXCEPT ![r] = object]
      /\ copy' = [copy EXCEPT ![h] = object]
    BY DEF SaveCopy
<1>3. /\ requests'[r] = object /\ copy'[h] = object /\ DOMAIN requests' = Handlers
      /\ \A q \in Handlers : q # r => requests'[q] = requests[q]
    BY <1>1, <1>2 DEF SystemInv, Shape
<1>4. p \in Places
    BY DEF Places, Holding, Marking, Ended
<1>5. Onward(h) /\ pc'[h] = p
    BY <1>2, <1>3, <1>4, GoneOnward
<1>6. Truthful(object, r)'
    <2>1. Deducted(r) => Deducted(r)'
        BY <1>5, DeductedStays
    <2> QED
        BY <1>3, <2>1 DEF Truthful
<1>7. RowsTruthful'
    <2> SUFFICES ASSUME NEW q \in Handlers, requests'[q] # NoRequest
                 PROVE  Truthful(requests[q], q)'
        BY DEF RowsTruthful
    <2>1. CASE q = r
        BY <1>3, <1>6, <2>1
    <2>2. CASE q # r
        <3>1. requests'[q] = requests[q] /\ Truthful(requests[q], q)
            BY <1>3, <2>2 DEF SystemInv, RowsTruthful
        <3>2. Deducted(q) => Deducted(q)'
            BY <1>5, DeductedStays
        <3> QED
            BY <3>1, <3>2 DEF Truthful
    <2> QED
        BY <2>1, <2>2
<1>8. Truthful(copy[h], task[h].request)'
    BY <1>3, <1>6
<1>9. Faithful(h)'
    BY <1>1, <1>5, <1>8 DEF Faithful, Marking, Holding
<1> QED
    BY <1>5, <1>7, <1>9, StepKeeps

-----------------------------------------------------------------------------
(* The steps of a handler.                                                 *)

LEMMA StartKeeps == ASSUME SystemInv, NEW h \in Handlers, StartOf(h) PROVE SystemInv'
<1>1. /\ pc[h] = "start" /\ UNCHANGED <<requests, copy, applied>>
      /\ \E p \in {"validate", "find"} : pc' = [pc EXCEPT ![h] = p]
      /\ \E t \in Tasks : task' = [task EXCEPT ![h] = t]
    BY DEF StartOf, Start, Submit, Review, At, Goto, remote, Tasks
<1>2. PICK p \in {"validate", "find"} :
            /\ pc' = [pc EXCEPT ![h] = p]
            /\ p = "find" => task'[h].kind \in Reviews
    <2>1. CASE \E s \in Submissions : Submit(h, s)
        BY <2>1 DEF Submit, Goto
    <2>2. ASSUME NEW kind \in Reviews, NEW r \in Handlers, Review(h, kind, r)
          PROVE  pc' = [pc EXCEPT ![h] = "find"] /\ task'[h].kind \in Reviews
        BY <2>2 DEF Review, Goto, SystemInv, Shape
    <2> QED
        BY <2>1, <2>2 DEF StartOf, Start, Reviews
<1>3. task[h] = NoTask
    BY <1>1 DEF SystemInv, Faithful
<1>4. Onward(h)
    BY <1>1, <1>2, <1>3 DEF Onward, SystemInv, Shape, Places, Creating
<1>5. pc'[h] = p
    BY <1>2 DEF SystemInv, Shape
<1>6. Faithful(h)'
    BY <1>2, <1>5 DEF Faithful, Holding, Marking
<1> QED
    BY <1>1, <1>4, <1>6, RowsStay, StepKeeps

\* The row of a new request bears no mark.
LEMMA InsertKeeps ==
    ASSUME SystemInv, NEW h \in Handlers, Insert(h), UNCHANGED applied PROVE SystemInv'
<1> DEFINE row == NewRequest(task[h].body)
<1>1. UNCHANGED task
    BY DEF Insert
<1>2. CASE Goto(h, "error") /\ UNCHANGED <<requests, copy>>
    BY <1>1, <1>2, LightStep DEF Ended
<1>3. CASE /\ Goto(h, "replied") /\ requests' = [requests EXCEPT ![h] = row]
           /\ copy' = [copy EXCEPT ![h] = row]
    <2>1. DOMAIN row = Columns /\ row.sync = "NOT_SYNCED"
        BY DEF NewRequest, Columns
    <2> HIDE DEF row
    <2>2. /\ requests'[h] = row /\ DOMAIN requests' = Handlers
          /\ \A q \in Handlers : q # h => requests'[q] = requests[q]
        BY <1>3 DEF SystemInv, Shape
    <2>3. Onward(h) /\ pc'[h] = "replied"
        BY <1>1, <1>3, <2>2, GoneOnward DEF Places, Ended
    <2>4. RowsTruthful'
        <3> SUFFICES ASSUME NEW q \in Handlers, requests'[q] # NoRequest
                     PROVE  Truthful(requests[q], q)'
            BY DEF RowsTruthful
        <3>1. CASE q = h
            BY <2>1, <2>2, <3>1 DEF Truthful
        <3>2. CASE q # h
            <4>1. requests'[q] = requests[q] /\ Truthful(requests[q], q)
                BY <2>2, <3>2 DEF SystemInv, RowsTruthful
            <4>2. Deducted(q) => Deducted(q)'
                BY <2>3, DeductedStays
            <4> QED
                BY <4>1, <4>2 DEF Truthful
        <3> QED
            BY <3>1, <3>2
    <2>5. Faithful(h)'
        BY <2>3 DEF Faithful, Holding, Marking
    <2> QED
        BY <2>3, <2>4, <2>5, StepKeeps
<1> QED
    BY <1>2, <1>3 DEF Insert

\* What a review finds is as truthful as the row.
LEMMA FindKeeps ==
    ASSUME SystemInv, NEW h \in Handlers, Find(h), UNCHANGED applied PROVE SystemInv'
<1> DEFINE found == requests[task[h].request]
<1>1. pc[h] = "find" /\ task[h].kind \in Reviews /\ UNCHANGED <<requests, task>>
    BY DEF Find, At, SystemInv, Faithful
<1>2. task[h].request \in Handlers
    BY <1>1 DEF SystemInv, Shape, Tasks, NoTask, Reviews
<1>3. CASE Goto(h, "refused") /\ UNCHANGED copy
    BY <1>1, <1>3, LightStep DEF Ended
<1>4. CASE found # NoRequest /\ Goto(h, "settle") /\ copy' = [copy EXCEPT ![h] = found]
    <2>1. copy'[h] = found /\ Truthful(found, task[h].request)
        BY <1>2, <1>4 DEF SystemInv, Shape, RowsTruthful
    <2>2. Onward(h) /\ pc'[h] = "settle"
        BY <1>1, <1>4, GoneOnward DEF Places, Holding, SystemInv, Shape
    <2>3. /\ task'[h] = task[h]
          /\ \A r : Deducted(r) => Deducted(r)'
        BY <1>1, <2>2, DeductedStays
    <2>4. Faithful(h)'
        BY <1>1, <2>1, <2>2, <2>3 DEF Faithful, Truthful, Holding, Marking
    <2> QED
        BY <1>1, <2>2, <2>4, RowsStay, StepKeeps
<1> QED
    BY <1>3, <1>4 DEF Find

LEMMA SaveStepKeeps ==
    ASSUME SystemInv, NEW h \in Handlers, UNCHANGED applied,
           SaveVerdict(h) \/ MarkSyncing(h) \/ MarkSynced(h) \/ MarkFailed(h)
    PROVE  SystemInv'
<1>1. /\ pc[h] \in {"save", "mark_syncing", "mark_synced", "mark_failed"} /\ UNCHANGED task
    BY DEF SaveVerdict, MarkSyncing, MarkSynced, MarkFailed, At
<1>2. /\ pc[h] \in Holding /\ Truthful(copy[h], task[h].request)
      /\ DOMAIN copy[h] = Columns
      /\ pc[h] \in Marking => task[h].kind = "approve"
    BY <1>1 DEF SystemInv, Faithful, Truthful, Holding, Marking
<1>3. CASE SaveVerdict(h)
    <2> DEFINE object == [copy[h] EXCEPT !.status = Verdict(task[h].kind)]
               p == IF task[h].kind = "approve" THEN "mark_syncing" ELSE "replied"
    <2>1. SaveCopy(h, object) /\ Goto(h, p)
        BY <1>3 DEF SaveVerdict
    <2>2. Truthful(object, task[h].request)
        BY <1>2 DEF Truthful, Columns
    <2>3. /\ p \in {"mark_syncing", "notify", "settled", "replied"}
          /\ p \in Marking => task[h].kind = "approve"
        BY DEF Marking
    <2> HIDE DEF object, p
    <2> QED
        BY <1>1, <1>2, <2>1, <2>2, <2>3, SaveKeeps
<1>4. CASE MarkSyncing(h)
    <2> DEFINE object == [copy[h] EXCEPT !.sync = "SYNCING", !.attempts = @ + 1]
    <2>1. SaveCopy(h, object) /\ Goto(h, "notify") /\ pc[h] \in Marking
        BY <1>4 DEF MarkSyncing, At, Marking
    <2>2. Truthful(object, task[h].request)
        BY <1>2 DEF Truthful, Columns
    <2> HIDE DEF object
    <2> QED
        BY <1>1, <1>2, <2>1, <2>2, SaveKeeps
<1>5. CASE MarkSynced(h)
    <2> DEFINE object == [copy[h] EXCEPT !.sync = "SYNCED"]
    <2>1. SaveCopy(h, object) /\ Goto(h, "settled") /\ pc[h] = "mark_synced"
        BY <1>5 DEF MarkSynced, At
    <2>2. copy[h].employee \in Linked => Deducted(task[h].request)
        BY <1>2, <2>1 DEF SystemInv, Faithful, Deducted, Approvals, Marking
    <2>3. Truthful(object, task[h].request)
        BY <1>2, <2>2 DEF Truthful, Columns
    <2> HIDE DEF object
    <2> QED
        BY <1>1, <1>2, <2>1, <2>3, SaveKeeps DEF Marking
<1>6. CASE MarkFailed(h)
    <2> DEFINE object == [copy[h] EXCEPT !.sync = "FAILED"]
    <2>1. SaveCopy(h, object) /\ Goto(h, "settled")
        BY <1>6 DEF MarkFailed
    <2>2. Truthful(object, task[h].request)
        BY <1>2 DEF Truthful, Columns
    <2> HIDE DEF object
    <2> QED
        BY <1>1, <1>2, <2>1, <2>2, SaveKeeps DEF Marking
<1> QED
    BY <1>3, <1>4, <1>5, <1>6

LEMMA LocalStepKeeps ==
    ASSUME SystemInv, NEW h \in Handlers, LocalStep(h) PROVE SystemInv'
<1>1. UNCHANGED applied
    BY DEF LocalStep, remote
<1>2. CASE Validate(h) \/ CheckKey(h) \/ CheckOverlap(h) \/ Reserve(h) \/ LedgerFails(h)
    <2>1. /\ UNCHANGED <<task, requests>>
          /\ UNCHANGED copy \/ \E object : copy' = [copy EXCEPT ![h] = object]
        BY <1>2 DEF Validate, CheckKey, CheckOverlap, Reserve, LedgerFails
    <2>2. PICK p \in {"check_key", "refused", "check_overlap", "replied", "reserve",
                      "insert", "error"} : Goto(h, p)
        BY <1>2 DEF Validate, CheckKey, CheckOverlap, Reserve, LedgerFails
    <2>3. p \in Creating \cup Ended
        BY DEF Creating, Ended
    <2> QED
        BY <1>1, <2>1, <2>2, <2>3, LightStep
<1>3. CASE Settle(h)
    BY <1>1, <1>3, HeldStep DEF Settle, At, Holding, Marking
<1> QED
    BY <1>1, <1>2, <1>3, InsertKeeps, FindKeeps, SaveStepKeeps DEF LocalStep

\* An approval is taken for deducted only when it was, or when its employee
\* is not linked.
LEMMA NotifyKeeps ==
    ASSUME SystemInv, NEW h \in Handlers, NotifyHcm(h) PROVE SystemInv'
<1>1. /\ pc[h] = "notify" /\ UNCHANGED <<task, copy, requests, applied>>
      /\ Goto(h, IF copy[h].employee \in Linked THEN "in_flight" ELSE "mark_synced")
    BY DEF NotifyHcm, Notify, NotifyIf, At, Hcm!Ask, remote
<1> QED
    BY <1>1, HeldStep DEF Holding, Marking

LEMMA ResolveKeeps ==
    ASSUME SystemInv, NEW h \in Handlers, HcmResolves(h) \/ HcmRejects(h) PROVE SystemInv'
<1>1. pc[h] = "in_flight" /\ UNCHANGED <<task, copy, requests, applied>>
    BY DEF HcmResolves, HcmRejects, HcmAnswers, At, Hcm!Confirm, Hcm!Fail
<1>2. PICK p \in {"mark_synced", "mark_failed"} :
            Goto(h, p) /\ (p = "mark_synced" => applied[h] > 0)
    <2>1. PICK p \in {"mark_synced", "mark_failed"} : Goto(h, p)
        BY DEF HcmResolves, HcmRejects, HcmAnswers
    <2>2. pc'[h] = p
        BY <2>1 DEF Goto, SystemInv, Shape
    <2> QED
        BY <2>1, <2>2 DEF HcmResolves, HcmRejects, Hcm!Confirm
<1> QED
    BY <1>1, <1>2, HeldStep DEF Holding, Marking

\* The HCM deducts once more; nothing takes that back.
LEMMA DeductionKeeps ==
    ASSUME SystemInv, NEW h \in Handlers, HcmDeducts(h) PROVE SystemInv'
<1>1. /\ UNCHANGED <<requests, pc, task, copy>>
      /\ applied' = [applied EXCEPT ![h] = @ + 1]
    BY DEF HcmDeducts, Hcm!Apply, local
<1>2. Onward(h)
    BY <1>1 DEF Onward, SystemInv, Shape
<1>3. Faithful(h)'
    <2>1. /\ task'[h] = task[h]
          /\ \A r : Deducted(r) => Deducted(r)'
        BY <1>1, <1>2, DeductedStays
    <2>2. applied[h] > 0 => applied'[h] > 0
        BY <1>2 DEF Onward
    <2>3. Faithful(h)
        BY DEF SystemInv
    <2> QED
        BY <1>1, <2>1, <2>2, <2>3 DEF Faithful, Truthful
<1> QED
    BY <1>1, <1>2, <1>3, RowsStay, StepKeeps

LEMMA ElsewhereKeeps ==
    ASSUME SystemInv, UNCHANGED <<requests, pc, task, copy, applied>> PROVE SystemInv'
<1>1. \A r : Deducted(r)' <=> Deducted(r)
    BY DEF Deducted, Approvals
<1>2. Shape'
    BY DEF SystemInv, Shape
<1>3. RowsTruthful' /\ \A h \in Handlers : Faithful(h)'
    BY <1>1 DEF SystemInv, RowsTruthful, Faithful, Truthful
<1> QED
    BY <1>2, <1>3 DEF SystemInv

-----------------------------------------------------------------------------
(* The theorems.                                                           *)

\* A mark, wherever it stands, has a deduction behind it.
THEOREM SystemInvariant == SystemSpec => []SystemInv
<1>1. SystemInit => SystemInv
    <2>1. SystemInit => Shape
        BY DEF SystemInit, Init, Hcm!Init, Shape, Places, Tasks
    <2>2. SystemInit => RowsTruthful /\ \A h \in Handlers : Faithful(h)
        BY DEF SystemInit, Init, RowsTruthful, Faithful, Holding, Marking
    <2> QED
        BY <2>1, <2>2 DEF SystemInv
<1>2. SystemInv /\ [SystemNext]_allVars => SystemInv'
    <2>1. ASSUME SystemInv, HcmRefreshes \/ Syncing \/ UNCHANGED allVars
          PROVE  SystemInv'
        BY <2>1, ElsewhereKeeps DEF HcmRefreshes, Hcm!Refresh, Syncing, SyncReads, SyncWrites, allVars, local, remote
    <2> QED
        BY <2>1, StartKeeps, LocalStepKeeps, NotifyKeeps, ResolveKeeps, DeductionKeeps
        DEF SystemNext, StepOf, Syncing
<1> QED
    BY <1>1, <1>2, PTL DEF SystemSpec

\* No request of a linked employee is marked SYNCED without a deduction.
THEOREM SyncedMeansDeducted == SystemSpec => []SyncedWasDeducted
<1>1. SystemInv => SyncedWasDeducted
    BY DEF SystemInv, RowsTruthful, Truthful, Deducted, SyncedWasDeducted
<1> QED
    BY <1>1, SystemInvariant, PTL

-----------------------------------------------------------------------------
(* The books, as the service is deployed: one handler at a time keeps the  *)
(* event loop, and gives it back only while the HCM is asked.  Whoever has *)
(* the loop holds the row as it is; whoever waits for the HCM, or was      *)
(* answered by it, holds an object that may be stale, but only in the      *)
(* status and the marks of its row, and that row has been reviewed.        *)

OneTurn == Interleaved = FALSE

Closed == {"APPROVED", "REJECTED", "CANCELLED"}

Row(object) ==
    /\ DOMAIN object = Columns
    /\ object.account \in Accounts /\ object.days \in Nat
    /\ object.status \in {"PENDING"} \cup Closed

Figures == [total : Nat, used : Nat]

Tables ==
    /\ account \in [Accounts -> Account]
    /\ \A r \in Handlers : requests[r] = NoRequest \/ Row(requests[r])
    /\ running \in Handlers \cup {Nobody}
    /\ DOMAIN call = Handlers /\ DOMAIN outcome = Handlers
    /\ hcmUsed \in [Accounts -> Nat] /\ hcmTotal \in [Accounts -> Nat]
    /\ DOMAIN snapshot = Syncs
    /\ \A s \in Syncs : snapshot[s] # NoSnapshot =>
            /\ snapshot[s] \in [Accounts -> Figures]
            /\ \A a \in Accounts : snapshot[s][a].used <= hcmUsed[a]

\* Whoever is under way has the loop.
Turn == \A h \in Handlers : pc[h] \notin Idle <=> running = h

\* What a handler has checked, and how what it holds agrees with its row.
Held(h) ==
    /\ pc[h] \in Creating => task[h].kind = "create"
    /\ pc[h] \in Creating \cup {"start"} => requests[h] = NoRequest
    /\ pc[h] \in {"check_overlap", "reserve", "insert"} => SameKey(task[h].body) = {}
    /\ pc[h] \in Creating \ {"validate"} => DaysOf(task[h].body) \in 1..MaxDays
    /\ pc[h] \in {"settle", "save"} =>
            /\ copy[h] = requests[task[h].request] /\ Row(copy[h])
            /\ MayReview(task[h].kind, copy[h].status)
    /\ pc[h] \in Marking =>
            /\ Row(copy[h]) /\ copy[h].status = "APPROVED"
            /\ requests[task[h].request].status \in Closed
            /\ requests[task[h].request].account = copy[h].account
            /\ requests[task[h].request].days = copy[h].days

\* The HCM is asked for the days of a row that was approved.
Called(h) ==
    /\ applied[h] > 0 => outcome[h] # "none"
    /\ outcome[h] # "none" =>
            LET row == requests[task[h].request]
            IN  /\ task[h].kind = "approve" /\ row.status \in Closed
                /\ call[h] = [account |-> row.account, days |-> row.days]

TurnInv ==
    /\ Tables
    /\ Turn
    /\ \A h \in Handlers : Held(h) /\ Called(h)

\* What request r adds to the days the HCM has not deducted.
Owed(r, a) == IF Deducted(r) THEN 0 ELSE Share(requests[r], a, "APPROVED")

\* What handler h has written to the account and not yet to its row.
Reserved(h, a) ==
    IF pc[h] = "insert"
    THEN IF task[h].body.account = a THEN DaysOf(task[h].body) ELSE 0
    ELSE IF pc[h] = "save" THEN 0 - Share(copy[h], a, "PENDING") ELSE 0

Taken(h, a) ==
    IF pc[h] = "save"
    THEN IF task[h].kind = "approve" THEN Share(copy[h], a, "PENDING")
         ELSE 0 - Owed(task[h].request, a)
    ELSE 0

ReservedNow(a) == IF running = Nobody THEN 0 ELSE Reserved(running, a)
TakenNow(a) == IF running = Nobody THEN 0 ELSE Taken(running, a)

BooksInv ==
    \A a \in Accounts :
        /\ account[a].pending = DaysIn(a, "PENDING") + ReservedNow(a)
        /\ account[a].used <= hcmUsed[a] + Undeducted(a) + TakenNow(a)

-----------------------------------------------------------------------------
(* Turns.                                                                  *)

\* A row, once there, is of the same account and the same days; once it has
\* been reviewed, it is never pending again.
Settled(r) ==
    requests[r] # NoRequest =>
        /\ requests'[r].account = requests[r].account
        /\ requests'[r].days = requests[r].days
        /\ requests[r].status \in Closed => requests'[r].status \in Closed

LEMMA ClosedIsRow == NoRequest.status \notin Closed
BY DEF NoRequest, Closed

LEMMA Reviewed ==
    ASSUME SystemInv, NEW h \in Handlers, task[h].kind \in Reviews
    PROVE  task[h].request \in Handlers
BY DEF SystemInv, Shape, Tasks, NoTask, Reviews

\* A call stays what it was while its row moves on.
LEMMA CalledStays ==
    ASSUME SystemInv, TurnInv, NEW g \in Handlers,
           \A r \in Handlers : Settled(r),
           outcome'[g] # "none" => outcome[g] # "none" /\ call'[g] = call[g],
           applied'[g] > 0 => applied[g] > 0 \/ outcome[g] # "none",
           outcome[g] # "none" => outcome'[g] # "none",
           task'[g] = task[g] \/ task[g] = NoTask
    PROVE  Called(g)'
<1>1. Called(g)
    BY DEF TurnInv
<1>2. applied'[g] > 0 => outcome'[g] # "none"
    BY <1>1 DEF Called
<1>3. ASSUME outcome'[g] # "none"
      PROVE  LET row == requests'[task'[g].request]
             IN  /\ task'[g].kind = "approve" /\ row.status \in Closed
                 /\ call'[g] = [account |-> row.account, days |-> row.days]
    <2> DEFINE r == task[g].request
    <2>1. /\ outcome[g] # "none" /\ call'[g] = call[g] /\ task[g].kind = "approve"
          /\ requests[r].status \in Closed
          /\ call[g] = [account |-> requests[r].account, days |-> requests[r].days]
        BY <1>1, <1>3 DEF Called
    <2>2. task'[g] = task[g] /\ r \in Handlers /\ requests[r] # NoRequest
        BY <2>1, Reviewed, ClosedIsRow DEF NoTask, Reviews
    <2>3. /\ requests'[r].account = requests[r].account
          /\ requests'[r].days = requests[r].days
          /\ requests'[r].status \in Closed
        BY <2>1, <2>2 DEF Settled
    <2> QED
        BY <2>1, <2>2, <2>3
<1> QED
    BY <1>2, <1>3 DEF Called

\* The step of a handler finds everybody else idle: unbegun, ended, or waiting
\* for the HCM, and keeps what they hold.
LEMMA TurnStep ==
    ASSUME OneTurn, SystemInv, SystemInv', TurnInv, Tables',
           NEW h \in Handlers, NEW p, MayRun(h), Goto(h, p),
           \A r \in Handlers : Settled(r),
           \A r \in Handlers \ {h} : requests[r] = NoRequest => requests'[r] = NoRequest,
           \A g \in Handlers \ {h} : task'[g] = task[g] /\ copy'[g] = copy[g]
                                        /\ outcome'[g] = outcome[g] /\ call'[g] = call[g],
           UNCHANGED applied,
           Held(h)', Called(h)'
    PROVE  TurnInv'
<1>1. /\ running \in {Nobody, h} /\ pc' = [pc EXCEPT ![h] = p]
      /\ running' = IF p \in Idle THEN Nobody ELSE h
    BY DEF OneTurn, MayRun, Goto
<1>2. \A g \in Handlers : g # h => pc[g] \in Idle /\ pc'[g] = pc[g]
    BY <1>1, NobodyAssumption DEF TurnInv, Tables, Turn, SystemInv, Shape
<1>3. pc'[h] = p
    BY <1>1 DEF SystemInv, Shape
<1>4. Turn'
    BY <1>1, <1>2, <1>3, NobodyAssumption DEF Turn
<1>5. ASSUME NEW g \in Handlers \ {h} PROVE Held(g)'
    <2>1. Held(g) /\ pc'[g] = pc[g] /\ pc[g] \in Idle /\ task'[g] = task[g] /\ copy'[g] = copy[g]
        BY <1>2, <1>5 DEF TurnInv
    <2>2. CASE pc[g] \in Ended
        BY <2>1, <2>2 DEF Held, Ended, Creating, Marking
    <2>3. CASE pc[g] = "start"
        BY <2>1, <2>3 DEF Held, Creating, Marking
    <2>4. CASE pc[g] = "in_flight"
        <3> DEFINE r == task[g].request
                   c == copy[g]
        <3>1. /\ Row(c) /\ c.status = "APPROVED" /\ requests[r].status \in Closed
              /\ requests[r].account = c.account /\ requests[r].days = c.days
            BY <2>1, <2>4 DEF Held, Marking
        <3>2. r \in Handlers /\ requests[r] # NoRequest
            BY <1>5, <2>4, <3>1, Reviewed, ClosedIsRow DEF SystemInv, Faithful, Holding, Marking
        <3>3. /\ requests'[r].account = c.account /\ requests'[r].days = c.days
              /\ requests'[r].status \in Closed
            BY <3>1, <3>2 DEF Settled
        <3>4. Row(c)'
            BY <2>1, <3>1 DEF Row
        <3> QED
            BY <2>1, <2>4, <3>1, <3>3, <3>4 DEF Held, Creating
    <2> QED
        BY <2>1, <2>2, <2>3, <2>4 DEF Idle
<1>6. ASSUME NEW g \in Handlers \ {h} PROVE Called(g)'
    BY <1>6, CalledStays
<1> QED
    BY <1>4, <1>5, <1>6 DEF TurnInv

\* The books the HCM keeps and the snapshot do not concern a local step.
LEMMA LocalTables ==
    ASSUME OneTurn, TurnInv, NEW h \in Handlers, NEW p, Goto(h, p),
           UNCHANGED <<remote, snapshot>>,
           account' \in [Accounts -> Account],
           \A r \in Handlers : requests'[r] = NoRequest \/ Row(requests'[r])
    PROVE  Tables'
<1>1. UNCHANGED <<call, outcome, hcmUsed, hcmTotal, snapshot>>
    BY DEF remote
<1>2. \A r \in Handlers : (requests[r] = NoRequest \/ Row(requests[r]))'
    BY DEF Row
<1>3. running' \in Handlers \cup {Nobody}
    BY DEF OneTurn, Goto
<1> QED
    BY <1>1, <1>2, <1>3 DEF TurnInv, Tables, Figures

\* A step that writes no row.
LEMMA QuietTurn ==
    ASSUME OneTurn, SystemInv, SystemInv', TurnInv,
           NEW h \in Handlers, NEW p, MayRun(h), Goto(h, p),
           UNCHANGED <<requests, remote, snapshot>>,
           account' \in [Accounts -> Account],
           \A g \in Handlers \ {h} : task'[g] = task[g] /\ copy'[g] = copy[g],
           task'[h] = task[h] \/ task[h] = NoTask,
           Held(h)'
    PROVE  TurnInv'
<1>1. UNCHANGED <<call, outcome, applied>>
    BY DEF remote
<1>2. \A r \in Handlers : Settled(r)
    BY DEF Settled
<1>3. Called(h)'
    BY <1>1, <1>2, CalledStays
<1>4. Tables'
    BY LocalTables DEF TurnInv, Tables
<1> QED
    BY <1>1, <1>2, <1>3, <1>4, TurnStep

\* Once a handler ends, nothing is asked of what it holds.
LEMMA EndHolds ==
    ASSUME NEW h \in Handlers, pc[h] \in Ended PROVE Held(h)
BY DEF Held, Ended, Creating, Marking

LEMMA Charging ==
    ASSUME NEW c \in Account, NEW days \in Nat
    PROVE  /\ Updated(c, [kind |-> "reserve", days |-> days])
                = [c EXCEPT !.pending = c.pending + days]
           /\ Updated(c, [kind |-> "confirm", days |-> days])
                = [c EXCEPT !.pending = AtLeastZero(c.pending - days), !.used = c.used + days]
           /\ Updated(c, [kind |-> "release", days |-> days])
                = [c EXCEPT !.pending = AtLeastZero(c.pending - days)]
           /\ Updated(c, [kind |-> "restore", days |-> days])
                = [c EXCEPT !.used = AtLeastZero(c.used - days)]
BY DEF Account, Updated

LEMMA ChargingTypes ==
    ASSUME account \in [Accounts -> Account], NEW a \in Accounts, NEW days \in Nat,
           NEW kind \in {"reserve", "confirm", "release", "restore"}, Charge(a, kind, days)
    PROVE  account' \in [Accounts -> Account]
<1> DEFINE c == account[a]
           o == [kind |-> kind, days |-> days]
<1>1. c \in Account /\ c.total \in Nat /\ c.used \in Nat /\ c.pending \in Nat
    BY DEF Account
<1>2. \A x \in Int : AtLeastZero(x) \in Nat
    BY DEF AtLeastZero
<1>3. /\ AtLeastZero(c.pending - days) \in Nat /\ AtLeastZero(c.used - days) \in Nat
      /\ c.pending + days \in Nat /\ c.used + days \in Nat
    BY <1>1, <1>2
<1>4. o.kind = kind /\ o.days = days
    OBVIOUS
<1>5. Updated(c, o) \in Account
    <2> HIDE DEF c, o
    <2>1. CASE kind \in {"reserve", "confirm"}
        BY <1>1, <1>3, <1>4, <2>1 DEF Updated, Account
    <2>2. CASE kind \in {"release", "restore"}
        BY <1>1, <1>3, <1>4, <2>2 DEF Updated, Account
    <2> QED
        BY <2>1, <2>2
<1> QED
    BY <1>5 DEF Charge

LEMMA StartTurn ==
    ASSUME OneTurn, SystemInv, SystemInv', TurnInv, NEW h \in Handlers, StartOf(h)
    PROVE  TurnInv'
<1>1. /\ pc[h] = "start" /\ MayRun(h)
      /\ UNCHANGED <<account, requests, copy, crashes, remote, snapshot>>
    BY DEF StartOf, Start, Submit, Review, At
<1>2. requests[h] = NoRequest /\ task[h] = NoTask /\ account \in [Accounts -> Account]
    BY <1>1 DEF TurnInv, Tables, Held, SystemInv, Faithful
<1>3. ASSUME NEW s \in Submissions, Submit(h, s) PROVE TurnInv'
    <2>1. Goto(h, "validate") /\ task' = [task EXCEPT ![h] = [kind |-> "create", body |-> s]]
        BY <1>3 DEF Submit
    <2>2. pc'[h] = "validate" /\ task'[h].kind = "create"
        BY <2>1 DEF Goto, SystemInv, Shape
    <2>3. Held(h)'
        BY <1>1, <1>2, <2>2 DEF Held, Creating, Marking
    <2> QED
        BY <1>1, <1>2, <2>1, <2>3, QuietTurn
<1>4. ASSUME NEW kind, NEW r, Review(h, kind, r) PROVE TurnInv'
    <2>1. Goto(h, "find") /\ task' = [task EXCEPT ![h] = [kind |-> kind, request |-> r]]
        BY <1>4 DEF Review
    <2>2. pc'[h] = "find"
        BY <2>1 DEF Goto, SystemInv, Shape
    <2>3. Held(h)'
        BY <2>2 DEF Held, Creating, Marking
    <2> QED
        BY <1>1, <1>2, <2>1, <2>3, QuietTurn
<1> QED
    BY <1>3, <1>4 DEF StartOf, Start

\* What create has checked is still so when it goes on.
LEMMA CreateTurn ==
    ASSUME OneTurn, SystemInv, SystemInv', TurnInv, NEW h \in Handlers,
           UNCHANGED <<remote, snapshot>>,
           Validate(h) \/ CheckKey(h) \/ CheckOverlap(h) \/ Reserve(h)
    PROVE  TurnInv'
<1> DEFINE s == task[h].body
<1>1. /\ pc[h] \in {"validate", "check_key", "check_overlap", "reserve"} /\ MayRun(h)
      /\ UNCHANGED <<requests, task>>
      /\ \A g \in Handlers \ {h} : copy'[g] = copy[g]
    <2>1. UNCHANGED copy \/ \E object : copy' = [copy EXCEPT ![h] = object]
        BY DEF Validate, CheckKey, CheckOverlap, Reserve
    <2>2. \A g \in Handlers \ {h} : copy'[g] = copy[g]
        BY <2>1 DEF SystemInv, Shape
    <2> QED
        BY <2>2 DEF Validate, CheckKey, CheckOverlap, Reserve, At
<1>2. /\ task[h].kind = "create" /\ requests[h] = NoRequest
      /\ pc[h] # "validate" => DaysOf(s) \in 1..MaxDays
      /\ pc[h] \in {"check_overlap", "reserve"} => SameKey(s) = {}
    BY <1>1 DEF TurnInv, Held, Creating
<1>3. s \in Submissions
    BY <1>2 DEF SystemInv, Shape, Tasks, NoTask
<1>4. account' \in [Accounts -> Account]
    <2>1. CASE UNCHANGED account
        BY <2>1 DEF TurnInv, Tables
    <2>2. CASE Reserve(h) /\ Charge(s.account, "reserve", DaysOf(s))
        <3>1. DaysOf(s) \in Nat /\ s.account \in Accounts
            BY <1>2, <1>3, <2>2, MaxDaysAssumption, SubmissionsAssumption DEF Reserve, At
        <3> QED
            BY <2>2, <3>1, ChargingTypes DEF TurnInv, Tables
    <2> QED
        BY <2>1, <2>2 DEF Validate, CheckKey, CheckOverlap, Reserve
<1>5. PICK p : /\ Goto(h, p)
               /\ \/ p \in Ended
                  \/ /\ p \in {"check_key", "check_overlap", "reserve", "insert"}
                     /\ DaysOf(s) \in 1..MaxDays
                     /\ p # "check_key" => SameKey(s) = {}
    <2>1. CASE Validate(h)
        BY <2>1 DEF Validate, ValidDateRange, DaysOf, Ended
    <2>2. CASE CheckKey(h)
        BY <1>2, <2>2 DEF CheckKey, At, Ended
    <2>3. CASE CheckOverlap(h)
        BY <1>2, <2>3 DEF CheckOverlap, At, Ended
    <2>4. CASE Reserve(h)
        BY <1>2, <2>4 DEF Reserve, At, Ended
    <2> QED
        BY <2>1, <2>2, <2>3, <2>4
<1>6. pc'[h] = p
    BY <1>5 DEF Goto, SystemInv, Shape
<1>7. Held(h)'
    <2>1. CASE p \in Ended
        BY <1>6, <2>1, EndHolds DEF Held, Ended, Creating, Marking
    <2>2. CASE p \notin Ended
        <3>1. SameKey(s)' = SameKey(s) /\ DaysOf(s)' = DaysOf(s)
            BY <1>1 DEF SameKey, DaysOf
        <3> QED
            BY <1>1, <1>2, <1>5, <1>6, <2>2, <3>1 DEF Held, Creating, Marking
    <2> QED
        BY <2>1, <2>2
<1> QED
    BY <1>1, <1>4, <1>5, <1>7, QuietTurn

LEMMA FindTurn ==
    ASSUME OneTurn, SystemInv, SystemInv', TurnInv, NEW h \in Handlers,
           UNCHANGED <<remote, snapshot>>, Find(h)
    PROVE  TurnInv'
<1> DEFINE found == requests[task[h].request]
<1>1. /\ pc[h] = "find" /\ MayRun(h) /\ UNCHANGED <<account, requests, task>>
      /\ \A g \in Handlers \ {h} : copy'[g] = copy[g]
    <2>1. UNCHANGED copy \/ \E object : copy' = [copy EXCEPT ![h] = object]
        BY DEF Find
    <2>2. \A g \in Handlers \ {h} : copy'[g] = copy[g]
        BY <2>1 DEF SystemInv, Shape
    <2> QED
        BY <2>2 DEF Find, At
<1>2. task[h].request \in Handlers /\ account' \in [Accounts -> Account]
    BY <1>1, Reviewed DEF SystemInv, Faithful, TurnInv, Tables
<1>3. CASE Goto(h, "refused")
    <2>1. pc'[h] \in Ended
        BY <1>3 DEF Goto, SystemInv, Shape, Ended
    <2>2. Held(h)'
        BY <2>1 DEF Held, Ended, Creating, Marking
    <2> QED
        BY <1>1, <1>2, <1>3, <2>2, QuietTurn
<1>4. CASE /\ found # NoRequest /\ MayReview(task[h].kind, found.status)
           /\ Goto(h, "settle") /\ copy' = [copy EXCEPT ![h] = found]
    <2>1. pc'[h] = "settle" /\ copy'[h] = found
        BY <1>4 DEF Goto, SystemInv, Shape
    <2>2. Row(found)
        BY <1>2, <1>4 DEF TurnInv, Tables
    <2>3. Row(copy[h])'
        BY <2>1, <2>2 DEF Row
    <2>4. Held(h)'
        BY <1>1, <1>4, <2>1, <2>3 DEF Held, Creating, Marking
    <2> QED
        BY <1>1, <1>2, <1>4, <2>4, QuietTurn
<1> QED
    BY <1>3, <1>4 DEF Find

\* The statuses from which each review may start.
LEMMA ReviewCases ==
    ASSUME NEW kind \in Reviews, NEW status, MayReview(kind, status)
    PROVE  \/ kind = "approve" /\ status = "PENDING"
           \/ kind = "reject" /\ status = "PENDING"
           \/ kind = "cancel" /\ status \in {"PENDING", "APPROVED"}
BY DEF Reviews, MayReview

\* What a review settles are days, on an account.
LEMMA Settling ==
    ASSUME SystemInv, TurnInv, NEW h \in Handlers, pc[h] \in {"settle", "save"}
    PROVE  /\ task[h].kind \in Reviews /\ task[h].request \in Handlers
           /\ copy[h] = requests[task[h].request] /\ Row(copy[h])
           /\ copy[h].account \in Accounts /\ copy[h].days \in Nat
           /\ \/ task[h].kind = "approve" /\ copy[h].status = "PENDING"
              \/ task[h].kind = "reject" /\ copy[h].status = "PENDING"
              \/ task[h].kind = "cancel" /\ copy[h].status \in {"PENDING", "APPROVED"}
<1>1. task[h].kind \in Reviews /\ task[h].request \in Handlers
    BY Reviewed DEF SystemInv, Faithful, Holding
<1>2. /\ copy[h] = requests[task[h].request] /\ Row(copy[h])
      /\ MayReview(task[h].kind, copy[h].status)
    BY DEF TurnInv, Held
<1> QED
    BY <1>1, <1>2, ReviewCases DEF Row

LEMMA SettleTurn ==
    ASSUME OneTurn, SystemInv, SystemInv', TurnInv, NEW h \in Handlers,
           UNCHANGED <<remote, snapshot>>, Settle(h)
    PROVE  TurnInv'
<1>1. /\ pc[h] = "settle" /\ MayRun(h) /\ UNCHANGED <<requests, task, copy>>
      /\ Goto(h, "save")
      /\ Charge(copy[h].account, Settlement(task[h].kind, copy[h].status), copy[h].days)
    BY DEF Settle, At
<1>2. /\ copy[h].account \in Accounts /\ copy[h].days \in Nat
      /\ task[h].kind \in Reviews
    BY <1>1, Settling
<1>3. Settlement(task[h].kind, copy[h].status) \in {"reserve", "confirm", "release", "restore"}
    BY <1>2 DEF Reviews, Settlement
<1>4. account' \in [Accounts -> Account]
    <2> DEFINE kind == Settlement(task[h].kind, copy[h].status)
    <2>1. Charge(copy[h].account, kind, copy[h].days)
        BY <1>1
    <2> HIDE DEF kind
    <2> QED
        BY <1>2, <1>3, <2>1, ChargingTypes DEF TurnInv, Tables, kind
<1>5. pc'[h] = "save"
    BY <1>1 DEF Goto, SystemInv, Shape
<1>6. Held(h) /\ (Row(copy[h])' <=> Row(copy[h]))
    BY <1>1 DEF TurnInv, Row
<1>7. Held(h)'
    BY <1>1, <1>5, <1>6 DEF Held, Creating, Marking
<1> QED
    BY <1>1, <1>4, <1>7, QuietTurn

LEMMA FailTurn ==
    ASSUME OneTurn, SystemInv, SystemInv', TurnInv, NEW h \in Handlers,
           UNCHANGED <<remote, snapshot>>, LedgerFails(h)
    PROVE  TurnInv'
<1>1. /\ MayRun(h) /\ Goto(h, "error") /\ UNCHANGED <<account, requests, task, copy>>
    BY DEF LedgerFails
<1>2. pc'[h] \in Ended
    BY <1>1 DEF Goto, SystemInv, Shape, Ended
<1>3. Held(h)'
    BY <1>2 DEF Held, Ended, Creating, Marking
<1>4. account' \in [Accounts -> Account]
    BY <1>1 DEF TurnInv, Tables
<1> QED
    BY <1>1, <1>3, <1>4, QuietTurn

LEMMA InsertTurn ==
    ASSUME OneTurn, SystemInv, SystemInv', TurnInv, NEW h \in Handlers,
           UNCHANGED <<remote, snapshot>>, Insert(h)
    PROVE  TurnInv'
<1> DEFINE s == task[h].body
           row == NewRequest(s)
<1>1. pc[h] = "insert" /\ MayRun(h) /\ UNCHANGED <<account, task>>
    BY DEF Insert, At
<1>2. /\ task[h].kind = "create" /\ requests[h] = NoRequest /\ SameKey(s) = {}
      /\ DaysOf(s) \in 1..MaxDays
    BY <1>1 DEF TurnInv, Held, Creating
<1>3. /\ Goto(h, "replied") /\ requests' = [requests EXCEPT ![h] = row]
      /\ copy' = [copy EXCEPT ![h] = row]
    BY <1>2 DEF Insert
<1>4. Row(row)
    <2>1. s.account \in Accounts /\ DaysOf(s) \in Nat
        BY <1>2, MaxDaysAssumption, SubmissionsAssumption DEF SystemInv, Shape, Tasks, NoTask
    <2> QED
        BY <2>1 DEF Row, NewRequest, Columns
<1> HIDE DEF row
<1>5. /\ requests'[h] = row
      /\ \A q \in Handlers \ {h} : requests'[q] = requests[q] /\ copy'[q] = copy[q]
      /\ pc'[h] \in Ended
    BY <1>3 DEF SystemInv, Shape, Goto, Ended
<1>6. Tables'
    <2>1. \A q \in Handlers : requests'[q] = NoRequest \/ Row(requests'[q])
        BY <1>4, <1>5 DEF TurnInv, Tables
    <2>2. account' \in [Accounts -> Account]
        BY <1>1 DEF TurnInv, Tables
    <2> QED
        BY <1>3, <2>1, <2>2, LocalTables
<1>7. \A r \in Handlers : Settled(r)
    BY <1>2, <1>5 DEF Settled
<1>8. Held(h)'
    BY <1>5 DEF Held, Ended, Creating, Marking
<1>9. UNCHANGED <<call, outcome, applied>>
    BY DEF remote
<1>10. Called(h)'
    BY <1>1, <1>7, <1>9, CalledStays
<1> QED
    BY <1>1, <1>3, <1>5, <1>6, <1>7, <1>8, <1>9, <1>10, TurnStep

\* The object a handler saves is of its row, and says that it was reviewed.
Saves(h, object) ==
    LET row == requests[task[h].request]
    IN  /\ task[h].request \in Handlers /\ Row(row)
        /\ Row(object) /\ object.status \in Closed
        /\ object.account = row.account /\ object.days = row.days
        /\ SaveCopy(h, object)

LEMMA Saved ==
    ASSUME SystemInv, NEW h \in Handlers, NEW object, Saves(h, object)
    PROVE  /\ requests'[task[h].request] = object /\ copy'[h] = object
           /\ \A q \in Handlers : q # task[h].request => requests'[q] = requests[q]
           /\ \A q \in Handlers : q # h => copy'[q] = copy[q]
           /\ requests[task[h].request] # NoRequest
<1>1. NoRequest.status \notin {"PENDING"} \cup Closed
    BY DEF NoRequest, Closed
<1> QED
    BY <1>1 DEF Saves, SaveCopy, Row, SystemInv, Shape

LEMMA SaveTurn ==
    ASSUME OneTurn, SystemInv, SystemInv', TurnInv, NEW h \in Handlers,
           UNCHANGED <<account, task, remote, snapshot>>,
           pc[h] \notin Creating \cup {"start"},
           NEW object, Saves(h, object),
           NEW p \in Ended \cup {"mark_syncing", "notify"}, MayRun(h), Goto(h, p),
           p \in Marking => object.status = "APPROVED"
    PROVE  TurnInv'
<1> DEFINE r == task[h].request
<1>1. /\ requests'[r] = object /\ copy'[h] = object /\ requests[r] # NoRequest
      /\ \A q \in Handlers : q # r => requests'[q] = requests[q]
      /\ \A q \in Handlers : q # h => copy'[q] = copy[q]
    BY Saved
<1>2. /\ r \in Handlers /\ Row(object) /\ object.status \in Closed
      /\ object.account = requests[r].account /\ object.days = requests[r].days
    BY DEF Saves
<1>3. \A q \in Handlers : Settled(q)
    BY <1>1, <1>2 DEF Settled
<1>4. Tables'
    <2>1. \A q \in Handlers : requests'[q] = NoRequest \/ Row(requests'[q])
        BY <1>1, <1>2 DEF TurnInv, Tables
    <2>2. account' \in [Accounts -> Account]
        BY DEF TurnInv, Tables
    <2> QED
        BY <2>1, <2>2, LocalTables
<1>5. pc'[h] = p
    BY DEF Goto, SystemInv, Shape
<1>6. Row(object)'
    BY <1>2 DEF Row
<1>7. Held(h)'
    <2>1. CASE p \in Ended
        BY <1>5, <2>1 DEF Held, Ended, Creating, Marking
    <2>2. CASE p \in {"mark_syncing", "notify"}
        <3>1. /\ Row(copy[h])' /\ copy'[h].status = "APPROVED"
              /\ requests'[r].status \in Closed
              /\ requests'[r].account = copy'[h].account /\ requests'[r].days = copy'[h].days
            BY <1>1, <1>2, <1>6, <2>2 DEF Marking, Row
        <3> QED
            BY <1>5, <2>2, <3>1 DEF Held, Creating
    <2> QED
        BY <2>1, <2>2
<1>8. UNCHANGED <<call, outcome, applied>>
    BY DEF remote
<1>9. Called(h)'
    BY <1>3, <1>8, CalledStays
<1>10. \A q \in Handlers \ {h} : requests[q] = NoRequest => requests'[q] = NoRequest
    BY <1>1
<1> QED
    BY <1>1, <1>3, <1>4, <1>7, <1>8, <1>9, <1>10, TurnStep

\* The verdict is on the row as it is.
LEMMA VerdictSaves ==
    ASSUME SystemInv, TurnInv, NEW h \in Handlers, SaveVerdict(h)
    PROVE  LET object == [copy[h] EXCEPT !.status = Verdict(task[h].kind)]
           IN  /\ Saves(h, object) /\ object.status = Verdict(task[h].kind)
               /\ \/ /\ task[h].kind = "approve" /\ copy[h].status = "PENDING"
                     /\ object.status = "APPROVED"
                  \/ /\ task[h].kind = "reject" /\ copy[h].status = "PENDING"
                     /\ object.status = "REJECTED"
                  \/ /\ task[h].kind = "cancel" /\ copy[h].status \in {"PENDING", "APPROVED"}
                     /\ object.status = "CANCELLED"
<1> DEFINE object == [copy[h] EXCEPT !.status = Verdict(task[h].kind)]
<1>1. pc[h] = "save" /\ SaveCopy(h, object)
    BY DEF SaveVerdict, At
<1>2. /\ task[h].request \in Handlers
      /\ copy[h] = requests[task[h].request] /\ Row(copy[h])
      /\ \/ task[h].kind = "approve" /\ copy[h].status = "PENDING"
         \/ task[h].kind = "reject" /\ copy[h].status = "PENDING"
         \/ task[h].kind = "cancel" /\ copy[h].status \in {"PENDING", "APPROVED"}
    BY <1>1, Settling
<1>3. /\ Verdict("approve") = "APPROVED" /\ Verdict("reject") = "REJECTED"
      /\ Verdict("cancel") = "CANCELLED"
    BY DEF Verdict
<1>4. Verdict(task[h].kind) \in Closed
    BY <1>2, <1>3 DEF Closed
<1>5. /\ object.status = Verdict(task[h].kind)
      /\ object.account = copy[h].account /\ object.days = copy[h].days
      /\ DOMAIN object = Columns
    BY <1>2 DEF Row, Columns
<1>6. Row(object)
    BY <1>2, <1>4, <1>5 DEF Row
<1> HIDE DEF object
<1>7. Saves(h, object)
    BY <1>1, <1>2, <1>4, <1>5, <1>6 DEF Saves
<1> QED
    BY <1>2, <1>3, <1>5, <1>7 DEF object

\* The marks are put on an object that may be stale.
LEMMA MarkSaves ==
    ASSUME SystemInv, TurnInv, NEW h \in Handlers,
           MarkSyncing(h) \/ MarkSynced(h) \/ MarkFailed(h)
    PROVE  /\ pc[h] \in Marking \ {"in_flight"} /\ MayRun(h)
           /\ UNCHANGED <<account, task, crashes>>
           /\ \E object : Saves(h, object) /\ object.status = "APPROVED"
           /\ \E p \in {"notify", "settled"} : Goto(h, p)
<1>1. /\ pc[h] \in {"mark_syncing", "mark_synced", "mark_failed"} /\ MayRun(h)
      /\ UNCHANGED <<account, task, crashes>>
    BY DEF MarkSyncing, MarkSynced, MarkFailed, At
<1>2. /\ Row(copy[h]) /\ copy[h].status = "APPROVED"
      /\ requests[task[h].request].status \in Closed
      /\ requests[task[h].request].account = copy[h].account
      /\ requests[task[h].request].days = copy[h].days
    BY <1>1 DEF TurnInv, Held, Marking
<1>3. task[h].request \in Handlers
    BY <1>1, Reviewed DEF SystemInv, Faithful, Holding, Marking
<1>4. Row(requests[task[h].request])
    BY <1>2, <1>3, ClosedIsRow DEF TurnInv, Tables
<1>5. ASSUME NEW object, SaveCopy(h, object), DOMAIN object = Columns,
             object.status = copy[h].status, object.account = copy[h].account,
             object.days = copy[h].days
      PROVE  \E o : Saves(h, o) /\ o.status = "APPROVED"
    <2>1. Row(object) /\ object.status \in Closed
        BY <1>2, <1>5 DEF Row, Closed
    <2>2. Saves(h, object)
        BY <1>2, <1>3, <1>4, <1>5, <2>1 DEF Saves
    <2> QED
        BY <1>2, <1>5, <2>2
<1>6. CASE MarkSyncing(h)
    <2> DEFINE object == [copy[h] EXCEPT !.sync = "SYNCING", !.attempts = @ + 1]
    <2>1. SaveCopy(h, object) /\ Goto(h, "notify")
        BY <1>6 DEF MarkSyncing
    <2>2. /\ DOMAIN object = Columns /\ object.status = copy[h].status
          /\ object.account = copy[h].account /\ object.days = copy[h].days
        BY <1>2 DEF Row, Columns
    <2> HIDE DEF object
    <2> QED
        BY <1>1, <1>5, <2>1, <2>2 DEF Marking
<1>7. CASE MarkSynced(h)
    <2> DEFINE object == [copy[h] EXCEPT !.sync = "SYNCED"]
    <2>1. SaveCopy(h, object) /\ Goto(h, "settled")
        BY <1>7 DEF MarkSynced
    <2>2. /\ DOMAIN object = Columns /\ object.status = copy[h].status
          /\ object.account = copy[h].account /\ object.days = copy[h].days
        BY <1>2 DEF Row, Columns
    <2> HIDE DEF object
    <2> QED
        BY <1>1, <1>5, <2>1, <2>2 DEF Marking
<1>8. CASE MarkFailed(h)
    <2> DEFINE object == [copy[h] EXCEPT !.sync = "FAILED"]
    <2>1. SaveCopy(h, object) /\ Goto(h, "settled")
        BY <1>8 DEF MarkFailed
    <2>2. /\ DOMAIN object = Columns /\ object.status = copy[h].status
          /\ object.account = copy[h].account /\ object.days = copy[h].days
        BY <1>2 DEF Row, Columns
    <2> HIDE DEF object
    <2> QED
        BY <1>1, <1>5, <2>1, <2>2 DEF Marking
<1> QED
    BY <1>6, <1>7, <1>8

LEMMA SaveStepTurn ==
    ASSUME OneTurn, SystemInv, SystemInv', TurnInv, NEW h \in Handlers,
           UNCHANGED <<remote, snapshot>>,
           SaveVerdict(h) \/ MarkSyncing(h) \/ MarkSynced(h) \/ MarkFailed(h)
    PROVE  TurnInv'
<1>1. CASE SaveVerdict(h)
    <2> DEFINE object == [copy[h] EXCEPT !.status = Verdict(task[h].kind)]
               p == IF task[h].kind = "approve" THEN "mark_syncing" ELSE "replied"
    <2>1. /\ pc[h] = "save" /\ MayRun(h) /\ Goto(h, p)
          /\ UNCHANGED <<account, task>>
        BY <1>1 DEF SaveVerdict, At
    <2>2. /\ Saves(h, object)
          /\ task[h].kind = "approve" => object.status = "APPROVED"
        BY <1>1, VerdictSaves
    <2>3. p \in Ended \cup {"mark_syncing", "notify"} /\ (p \in Marking => task[h].kind = "approve")
        BY DEF Ended, Marking
    <2>4. pc[h] \notin Creating \cup {"start"}
        BY <2>1 DEF Creating
    <2> HIDE DEF object, p
    <2> QED
        BY <2>1, <2>2, <2>3, <2>4, SaveTurn
<1>2. CASE MarkSyncing(h) \/ MarkSynced(h) \/ MarkFailed(h)
    <2>1. PICK object : Saves(h, object) /\ object.status = "APPROVED"
        BY <1>2, MarkSaves
    <2>2. PICK p \in {"notify", "settled"} : Goto(h, p)
        BY <1>2, MarkSaves
    <2>3. /\ p \in Ended \cup {"mark_syncing", "notify"}
          /\ pc[h] \notin Creating \cup {"start"} /\ MayRun(h) /\ UNCHANGED <<account, task>>
        BY <1>2, MarkSaves DEF Ended, Creating, Marking
    <2> QED
        BY <2>1, <2>2, <2>3, SaveTurn
<1> QED
    BY <1>1, <1>2

\* Whoever goes on past the HCM holds what it held.
LEMMA MarkingStays ==
    ASSUME SystemInv, TurnInv, NEW h \in Handlers, pc[h] \in Marking, pc'[h] \in Marking,
           UNCHANGED <<requests, task, copy>>
    PROVE  Held(h)'
<1>1. Held(h) /\ (Row(copy[h])' <=> Row(copy[h]))
    BY DEF TurnInv, Row
<1> QED
    BY <1>1 DEF Held, Creating, Marking

LEMMA NotifyTurn ==
    ASSUME OneTurn, SystemInv, SystemInv', TurnInv, NEW h \in Handlers, NotifyHcm(h)
    PROVE  TurnInv'
<1> DEFINE p == IF copy[h].employee \in Linked THEN "in_flight" ELSE "mark_synced"
           row == requests[task[h].request]
<1>1. /\ pc[h] = "notify" /\ MayRun(h) /\ Goto(h, p)
      /\ UNCHANGED <<account, requests, task, copy, snapshot>>
    BY DEF NotifyHcm, Notify, NotifyIf, At
<1>2. pc'[h] = p /\ p \in Marking
    BY <1>1 DEF Goto, SystemInv, Shape, Marking
<1>3. Held(h)'
    BY <1>1, <1>2, MarkingStays DEF Marking
<1>4. \A r \in Handlers : Settled(r)
    BY <1>1 DEF Settled
<1>5. CASE UNCHANGED remote
    <2>1. UNCHANGED <<call, outcome, applied>>
        BY <1>5 DEF remote
    <2>2. Called(h)'
        BY <1>1, <1>4, <2>1, CalledStays
    <2>3. Tables'
        <3>1. account' \in [Accounts -> Account]
            BY <1>1 DEF TurnInv, Tables
        <3>2. \A r \in Handlers : requests'[r] = NoRequest \/ Row(requests'[r])
            BY <1>1 DEF TurnInv, Tables
        <3> QED
            BY <1>1, <1>5, <3>1, <3>2, LocalTables
    <2> QED
        BY <1>1, <1>3, <1>4, <2>1, <2>2, <2>3, TurnStep
<1>6. CASE Hcm!Ask(h, [account |-> copy[h].account, days |-> copy[h].days])
    <2>1. /\ outcome' = [outcome EXCEPT ![h] = "asked"]
          /\ call' = [call EXCEPT ![h] = [account |-> copy[h].account, days |-> copy[h].days]]
          /\ UNCHANGED <<applied, hcmUsed, hcmTotal>>
        BY <1>6 DEF Hcm!Ask
    <2>2. DOMAIN call = Handlers /\ DOMAIN outcome = Handlers
        BY DEF TurnInv, Tables
    <2>3. /\ call'[h] = [account |-> copy[h].account, days |-> copy[h].days]
          /\ outcome'[h] = "asked"
          /\ \A g \in Handlers \ {h} : outcome'[g] = outcome[g] /\ call'[g] = call[g]
        BY <2>1, <2>2
    <2>4. /\ row.status \in Closed /\ row.account = copy[h].account
          /\ row.days = copy[h].days /\ task[h].kind = "approve"
        BY <1>1 DEF TurnInv, Held, SystemInv, Faithful, Marking
    <2>5. Called(h)'
        BY <1>1, <2>3, <2>4 DEF Called
    <2>6. Tables'
        <3>1. running' \in Handlers \cup {Nobody}
            BY <1>1 DEF OneTurn, Goto
        <3>2. UNCHANGED snapshot
            BY <1>1
        <3>3. DOMAIN call' = Handlers /\ DOMAIN outcome' = Handlers
            BY <2>1, <2>2
        <3> QED
            BY <1>1, <2>1, <3>1, <3>2, <3>3 DEF TurnInv, Tables, Row, Figures
    <2> QED
        BY <1>1, <1>3, <1>4, <2>1, <2>3, <2>5, <2>6, TurnStep
<1> QED
    BY <1>5, <1>6 DEF NotifyHcm

LEMMA ResolveTurn ==
    ASSUME OneTurn, SystemInv, SystemInv', TurnInv, NEW h \in Handlers,
           HcmResolves(h) \/ HcmRejects(h)
    PROVE  TurnInv'
<1>1. /\ pc[h] = "in_flight" /\ MayRun(h)
      /\ UNCHANGED <<account, requests, task, copy, snapshot>>
      /\ outcome[h] = "asked" /\ UNCHANGED <<call, applied, hcmUsed, hcmTotal>>
    BY DEF HcmResolves, HcmRejects, HcmAnswers, At, Hcm!Confirm, Hcm!Fail
<1>2. PICK p \in {"mark_synced", "mark_failed"} : Goto(h, p)
    BY DEF HcmResolves, HcmRejects, HcmAnswers
<1>3. PICK o \in {"confirmed", "failed"} : outcome' = [outcome EXCEPT ![h] = o]
    BY DEF HcmResolves, HcmRejects, Hcm!Confirm, Hcm!Fail
<1>4. pc'[h] = p
    BY <1>2 DEF Goto, SystemInv, Shape
<1>5. Held(h)'
    BY <1>1, <1>4, MarkingStays DEF Marking
<1>6. \A r \in Handlers : Settled(r)
    BY <1>1 DEF Settled
<1>7. /\ outcome'[h] # "none" /\ DOMAIN outcome' = Handlers
      /\ \A g \in Handlers \ {h} : outcome'[g] = outcome[g]
    BY <1>3 DEF TurnInv, Tables
<1>8. Called(h)'
    BY <1>1, <1>6, <1>7, CalledStays
<1>9. Tables'
    <2>1. running' \in Handlers \cup {Nobody}
        BY <1>2 DEF OneTurn, Goto
    <2>2. UNCHANGED snapshot
        BY <1>1
    <2> QED
        BY <1>1, <1>7, <2>1, <2>2 DEF TurnInv, Tables, Row, Figures
<1> QED
    BY <1>1, <1>2, <1>5, <1>6, <1>7, <1>8, <1>9, TurnStep

\* What the HCM and the syncs do goes on beside the handlers.
LEMMA BesideTurn ==
    ASSUME SystemInv, TurnInv, Tables',
           UNCHANGED <<requests, pc, task, copy, running, call, outcome>>,
           \A h \in Handlers : applied'[h] > 0 => applied[h] > 0 \/ outcome[h] # "none"
    PROVE  TurnInv'
<1>1. \A r \in Handlers : Settled(r)
    BY DEF Settled
<1>2. \A h \in Handlers : Called(h)'
    BY <1>1, CalledStays
<1>3. Turn'
    BY DEF TurnInv, Turn
<1>4. ASSUME NEW h \in Handlers PROVE Held(h)'
    <2>1. Held(h) /\ (Row(copy[h])' <=> Row(copy[h]))
        BY DEF TurnInv, Row
    <2>2. \A s : SameKey(s)' = SameKey(s) /\ DaysOf(s)' = DaysOf(s)
        BY DEF SameKey, DaysOf
    <2> QED
        BY <2>1, <2>2 DEF Held
<1> QED
    BY <1>2, <1>3, <1>4 DEF TurnInv

\* What a call names, and what its deduction does to the HCM's books.
LEMMA Deducting ==
    ASSUME SystemInv, TurnInv, NEW h \in Handlers, HcmDeducts(h)
    PROVE  LET r == task[h].request
           IN  /\ r \in Handlers /\ Row(requests[r]) /\ requests[r].status \in Closed
               /\ task[h].kind = "approve"
               /\ UNCHANGED <<local, snapshot, call, outcome, hcmTotal>>
               /\ applied' = [applied EXCEPT ![h] = @ + 1]
               /\ hcmUsed' = [hcmUsed EXCEPT ![requests[r].account] = @ + requests[r].days]
<1> DEFINE r == task[h].request
<1>1. /\ outcome[h] # "none" /\ UNCHANGED <<local, snapshot, call, outcome, hcmTotal>>
      /\ applied' = [applied EXCEPT ![h] = @ + 1]
      /\ hcmUsed' = [hcmUsed EXCEPT ![call[h].account] = @ + call[h].days]
    BY DEF HcmDeducts, Hcm!Apply
<1>2. /\ task[h].kind = "approve" /\ requests[r].status \in Closed
      /\ call[h] = [account |-> requests[r].account, days |-> requests[r].days]
    BY <1>1 DEF TurnInv, Called
<1>3. r \in Handlers
    BY <1>2, Reviewed DEF Reviews
<1>4. Row(requests[r])
    BY <1>2, <1>3, ClosedIsRow DEF TurnInv, Tables
<1>5. call[h].account = requests[r].account /\ call[h].days = requests[r].days
    BY <1>2
<1> QED
    BY <1>1, <1>2, <1>3, <1>4, <1>5

LEMMA DeductTurn ==
    ASSUME SystemInv, TurnInv, NEW h \in Handlers, HcmDeducts(h) PROVE TurnInv'
<1> DEFINE r == task[h].request
<1>1. /\ Row(requests[r])
      /\ UNCHANGED <<local, snapshot, call, outcome, hcmTotal>>
      /\ hcmUsed' = [hcmUsed EXCEPT ![requests[r].account] = @ + requests[r].days]
      /\ applied' = [applied EXCEPT ![h] = @ + 1]
    BY Deducting
<1>2. UNCHANGED <<account, requests, pc, task, copy, running, snapshot>>
    BY <1>1 DEF local
<1>3. /\ hcmUsed' \in [Accounts -> Nat]
      /\ \A a \in Accounts : hcmUsed[a] <= hcmUsed'[a]
    BY <1>1 DEF Row, TurnInv, Tables
<1>4. ASSUME NEW s \in Syncs, snapshot'[s] # NoSnapshot
      PROVE  /\ snapshot'[s] \in [Accounts -> Figures]
             /\ \A a \in Accounts : snapshot'[s][a].used <= hcmUsed'[a]
    <2>1. /\ snapshot[s] \in [Accounts -> Figures]
          /\ \A a \in Accounts : snapshot[s][a].used <= hcmUsed[a]
        BY <1>2, <1>4 DEF TurnInv, Tables
    <2>2. \A a \in Accounts : snapshot[s][a].used \in Nat /\ hcmUsed[a] \in Nat /\ hcmUsed'[a] \in Nat
        BY <1>3, <2>1 DEF Figures, TurnInv, Tables
    <2>3. \A a \in Accounts : snapshot[s][a].used <= hcmUsed'[a]
        BY <1>3, <2>1, <2>2
    <2> QED
        BY <1>2, <2>1, <2>3
<1>5. Tables'
    BY <1>1, <1>2, <1>3, <1>4 DEF TurnInv, Tables, Row, Figures
<1>6. \A g \in Handlers : applied'[g] > 0 => applied[g] > 0 \/ outcome[g] # "none"
    <2>1. outcome[h] # "none" /\ \A g \in Handlers \ {h} : applied'[g] = applied[g]
        BY <1>1 DEF HcmDeducts, Hcm!Apply, SystemInv, Shape
    <2> QED
        BY <2>1
<1> QED
    BY <1>1, <1>2, <1>5, <1>6, BesideTurn

LEMMA InboundTurn ==
    ASSUME SystemInv, TurnInv, HcmRefreshes \/ Syncing PROVE TurnInv'
<1>1. UNCHANGED <<requests, pc, task, copy, running, call, outcome, applied, hcmUsed>>
    BY DEF HcmRefreshes, Hcm!Refresh, Syncing, SyncReads, SyncWrites, local, remote
<1>2. /\ account \in [Accounts -> Account] /\ hcmUsed \in [Accounts -> Nat]
      /\ hcmTotal \in [Accounts -> Nat]
    BY DEF TurnInv, Tables
<1>3. CASE HcmRefreshes
    <2>1. PICK a \in Accounts, bonus \in Bonuses : hcmTotal' = [hcmTotal EXCEPT ![a] = @ + bonus]
        BY <1>3 DEF HcmRefreshes, Hcm!Refresh
    <2>2. hcmTotal' \in [Accounts -> Nat]
        BY <1>2, <2>1, BonusesAssumption
    <2>3. UNCHANGED <<account, snapshot>>
        BY <1>3 DEF HcmRefreshes, local
    <2> QED
        BY <1>1, <2>2, <2>3, BesideTurn DEF TurnInv, Tables, Row, Figures
<1>4. ASSUME NEW s \in Syncs, SyncReads(s) PROVE TurnInv'
    <2>1. /\ snapshot' = [snapshot EXCEPT ![s] =
                [a \in Accounts |-> [total |-> hcmTotal[a], used |-> hcmUsed[a]]]]
          /\ UNCHANGED <<account, hcmTotal>>
        BY <1>4 DEF SyncReads, local, remote
    <2>2. /\ snapshot'[s] \in [Accounts -> Figures]
          /\ \A a \in Accounts : snapshot'[s][a].used <= hcmUsed'[a]
        BY <1>1, <1>2, <2>1 DEF Figures, TurnInv, Tables
    <2>3. DOMAIN snapshot' = Syncs /\ \A t \in Syncs \ {s} : snapshot'[t] = snapshot[t]
        BY <2>1 DEF TurnInv, Tables
    <2>4. Tables'
        BY <1>1, <2>1, <2>2, <2>3 DEF TurnInv, Tables, Row, Figures
    <2> QED
        BY <1>1, <2>4, BesideTurn
<1>5. ASSUME NEW s \in Syncs, SyncWrites(s) PROVE TurnInv'
    <2>1. /\ snapshot[s] # NoSnapshot /\ snapshot' = [snapshot EXCEPT ![s] = NoSnapshot]
          /\ UNCHANGED hcmTotal
          /\ account' = [a \in Accounts |->
                            Updated(account[a], [kind |-> "sync", hcm |-> snapshot[s][a]])]
        BY <1>5 DEF SyncWrites, remote
    <2>2. \A a \in Accounts : snapshot[s][a].total \in Nat /\ snapshot[s][a].used \in Nat
        BY <2>1 DEF TurnInv, Tables, Figures
    <2>3. account' \in [Accounts -> Account]
        BY <1>2, <2>1, <2>2 DEF Updated, Account
    <2>4. DOMAIN snapshot' = Syncs /\ snapshot'[s] = NoSnapshot
          /\ \A t \in Syncs \ {s} : snapshot'[t] = snapshot[t]
        BY <2>1 DEF TurnInv, Tables
    <2>5. Tables'
        BY <1>1, <2>1, <2>3, <2>4 DEF TurnInv, Tables, Row, Figures
    <2> QED
        BY <1>1, <2>5, BesideTurn
<1> QED
    BY <1>3, <1>4, <1>5 DEF Syncing

LEMMA SystemTurn ==
    ASSUME OneTurn, SystemInv, SystemInv', TurnInv, [SystemNext]_allVars
    PROVE  TurnInv'
<1>1. CASE UNCHANGED allVars
    BY <1>1, BesideTurn
    DEF allVars, local, remote, TurnInv, Tables, Row, Figures
<1>2. ASSUME NEW h \in Handlers, LocalStep(h) PROVE TurnInv'
    BY <1>2, CreateTurn, InsertTurn, FindTurn, SettleTurn, FailTurn, SaveStepTurn
    DEF LocalStep
<1> QED
    BY <1>1, <1>2, StartTurn, NotifyTurn, ResolveTurn, DeductTurn, InboundTurn
    DEF SystemNext, StepOf, Syncing

LEMMA TurnInit == ASSUME SystemInit PROVE TurnInv
<1>1. Tables
    BY AllotmentsAssumption, HcmTotalsAssumption
    DEF SystemInit, Init, Hcm!Init, Tables, Account
<1>2. Turn
    BY NobodyAssumption DEF SystemInit, Init, Turn, Idle
<1>3. \A h \in Handlers : Held(h) /\ Called(h)
    BY DEF SystemInit, Init, Hcm!Init, Held, Called, Creating, Marking
<1> QED
    BY <1>1, <1>2, <1>3 DEF TurnInv

-----------------------------------------------------------------------------
(* Sums over the rows.                                                     *)

LEMMA ShareOfRow ==
    ASSUME NEW r, r = NoRequest \/ Row(r), NEW a, NEW status \in {"PENDING", "APPROVED"}
    PROVE  /\ Share(r, a, status) \in Nat
           /\ r.status # status => Share(r, a, status) = 0
BY DEF Share, NoRequest, Row

\* The days that requests of an account hold pending are a number, no less
\* than those of any one of them.
LEMMA PendingSum ==
    ASSUME TurnInv, NEW a
    PROVE  /\ DaysIn(a, "PENDING") \in Nat
           /\ \A r \in Handlers : Share(requests[r], a, "PENDING") <= DaysIn(a, "PENDING")
<1> DEFINE w == [r \in Handlers |-> Share(requests[r], a, "PENDING")]
<1>1. w \in [Handlers -> Nat]
    BY ShareOfRow DEF TurnInv, Tables
<1>2. /\ DaysIn(a, "PENDING") = SumFunction(w)
      /\ \A r \in Handlers : w[r] = Share(requests[r], a, "PENDING")
    BY DEF DaysIn
<1> HIDE DEF w
<1> QED
    BY <1>1, <1>2, HandlersAssumption, SumNat

\* So are the days the HCM has not deducted.
LEMMA OwedSum ==
    ASSUME TurnInv, NEW a
    PROVE  /\ Undeducted(a) \in Nat
           /\ \A r \in Handlers : Owed(r, a) \in Nat /\ Owed(r, a) <= Undeducted(a)
<1> DEFINE w == [r \in Handlers |-> Owed(r, a)]
<1>1. w \in [Handlers -> Nat]
    BY ShareOfRow DEF TurnInv, Tables, Owed
<1>2. Undeducted(a) = SumFunction(w) /\ \A r \in Handlers : w[r] = Owed(r, a)
    BY DEF Undeducted, Owed, Deducted
<1> HIDE DEF w
<1> QED
    BY <1>1, <1>2, HandlersAssumption, SumNat

\* When one row is written, the sums change by what it was and what it is.
LEMMA PendingChange ==
    ASSUME TurnInv, TurnInv', NEW r \in Handlers,
           \A q \in Handlers \ {r} : requests'[q] = requests[q], NEW a
    PROVE  DaysIn(a, "PENDING")' = DaysIn(a, "PENDING") - Share(requests[r], a, "PENDING")
                                    + Share(requests'[r], a, "PENDING")
<1> DEFINE v == [q \in Handlers |-> Share(requests[q], a, "PENDING")]
           w == [q \in Handlers |-> Share(requests'[q], a, "PENDING")]
<1>1. v \in [Handlers -> Int]
    BY ShareOfRow DEF TurnInv, Tables
<1>2. \A q \in Handlers : requests'[q] = NoRequest \/ Row(requests'[q])
    BY DEF TurnInv, Tables, Row
<1>3. w \in [Handlers -> Int]
    BY <1>2, ShareOfRow
<1>4. DaysIn(a, "PENDING") = SumFunction(v) /\ DaysIn(a, "PENDING")' = SumFunction(w)
    BY DEF DaysIn
<1>5. /\ \A q \in Handlers \ {r} : v[q] = w[q]
      /\ v[r] = Share(requests[r], a, "PENDING") /\ w[r] = Share(requests'[r], a, "PENDING")
    OBVIOUS
<1> HIDE DEF v, w
<1> QED
    BY <1>1, <1>3, <1>4, <1>5, HandlersAssumption, SumChange

LEMMA OwedChange ==
    ASSUME TurnInv, TurnInv', NEW r \in Handlers, NEW a,
           \A q \in Handlers \ {r} : Owed(q, a)' = Owed(q, a)
    PROVE  Undeducted(a)' = Undeducted(a) - Owed(r, a) + Owed(r, a)'
<1> DEFINE v == [q \in Handlers |-> Owed(q, a)]
           w == [q \in Handlers |-> Owed(q, a)']
<1>1. v \in [Handlers -> Int]
    BY OwedSum
<1>2. \A q \in Handlers : requests'[q] = NoRequest \/ Row(requests'[q])
    BY DEF TurnInv, Tables, Row
<1>3. w \in [Handlers -> Int]
    BY <1>2, ShareOfRow DEF Owed
<1>4. Undeducted(a) = SumFunction(v) /\ Undeducted(a)' = SumFunction(w)
    BY DEF Undeducted, Owed, Deducted
<1>5. /\ \A q \in Handlers \ {r} : v[q] = w[q]
      /\ v[r] = Owed(r, a) /\ w[r] = Owed(r, a)'
    OBVIOUS
<1> HIDE DEF v, w
<1> QED
    BY <1>1, <1>3, <1>4, <1>5, HandlersAssumption, SumChange

\* A pending request was never deducted.
LEMMA PendingUndeducted ==
    ASSUME TurnInv, NEW r, requests[r].status \notin Closed
    PROVE  ~Deducted(r)
BY DEF TurnInv, Called, Deducted, Approvals

\* Nor is anything deducted by a handler that begins or goes on.
LEMMA DeductedOnlyThere ==
    ASSUME TurnInv, NEW h \in Handlers, UNCHANGED applied,
           \A g \in Handlers \ {h} : task'[g] = task[g],
           task'[h] = task[h] \/ task[h] = NoTask, NEW r
    PROVE  Deducted(r)' <=> Deducted(r)
<1>1. ASSUME task[h] = NoTask, applied[h] > 0 PROVE FALSE
    <2>1. task[h].kind = "approve"
        BY <1>1 DEF TurnInv, Called
    <2> QED
        BY <1>1, <2>1 DEF NoTask
<1>2. Deducted(r) => Deducted(r)'
    <2>1. ASSUME NEW g \in Handlers, task[g].kind = "approve", task[g].request = r,
                 applied[g] > 0
          PROVE  task'[g] = task[g] /\ applied'[g] > 0
        BY <1>1, <2>1
    <2> QED
        BY <2>1 DEF Deducted, Approvals
<1>3. Deducted(r)' => Deducted(r)
    <2>1. ASSUME NEW g \in Handlers, task'[g].kind = "approve", task'[g].request = r,
                 applied'[g] > 0
          PROVE  task'[g] = task[g] /\ applied[g] > 0
        BY <1>1, <2>1
    <2> QED
        BY <2>1 DEF Deducted, Approvals
<1> QED
    BY <1>2, <1>3

-----------------------------------------------------------------------------
(* The books.                                                              *)

\* What whoever is under way has open is what the handler that steps has.
LEMMA OpenBefore ==
    ASSUME SystemInv, TurnInv, NEW h \in Handlers, running \in {Nobody, h}, NEW a
    PROVE  ReservedNow(a) = Reserved(h, a) /\ TakenNow(a) = Taken(h, a)
<1>1. CASE running = Nobody
    <2>1. pc[h] \in Idle
        BY <1>1, NobodyAssumption DEF TurnInv, Turn
    <2> QED
        BY <1>1, <2>1 DEF ReservedNow, TakenNow, Reserved, Taken, Idle, Ended
<1>2. CASE running = h
    BY <1>2, NobodyAssumption DEF ReservedNow, TakenNow
<1> QED
    BY <1>1, <1>2

LEMMA OpenAfter ==
    ASSUME SystemInv', TurnInv', NEW h \in Handlers, running' \in {Nobody, h}, NEW a
    PROVE  ReservedNow(a)' = Reserved(h, a)' /\ TakenNow(a)' = Taken(h, a)'
<1>1. CASE running' = Nobody
    <2>1. pc'[h] \in Idle
        BY <1>1, NobodyAssumption DEF TurnInv, Turn
    <2> QED
        BY <1>1, <2>1 DEF ReservedNow, TakenNow, Reserved, Taken, Idle, Ended
<1>2. CASE running' = h
    BY <1>2, NobodyAssumption DEF ReservedNow, TakenNow
<1> QED
    BY <1>1, <1>2

\* A step of a handler keeps the books if it keeps them for what is in the
\* tables and in the handler's hands.
LEMMA BooksStep ==
    ASSUME OneTurn, SystemInv, SystemInv', TurnInv, TurnInv', BooksInv,
           NEW h \in Handlers, NEW p, MayRun(h), Goto(h, p),
           \A a \in Accounts :
                /\ account[a].pending = DaysIn(a, "PENDING") + Reserved(h, a)
                   => account'[a].pending = DaysIn(a, "PENDING")' + Reserved(h, a)'
                /\ account[a].used <= hcmUsed[a] + Undeducted(a) + Taken(h, a)
                   => account'[a].used <= hcmUsed'[a] + Undeducted(a)' + Taken(h, a)'
    PROVE  BooksInv'
<1>1. running \in {Nobody, h} /\ running' \in {Nobody, h}
    BY DEF OneTurn, MayRun, Goto
<1>2. \A a : /\ ReservedNow(a) = Reserved(h, a) /\ TakenNow(a) = Taken(h, a)
             /\ ReservedNow(a)' = Reserved(h, a)' /\ TakenNow(a)' = Taken(h, a)'
    BY <1>1, OpenBefore, OpenAfter
<1> SUFFICES ASSUME NEW a \in Accounts
             PROVE  /\ account'[a].pending = DaysIn(a, "PENDING")' + ReservedNow(a)'
                    /\ account'[a].used <= hcmUsed'[a] + Undeducted(a)' + TakenNow(a)'
    BY DEF BooksInv
<1>3. /\ account[a].pending = DaysIn(a, "PENDING") + Reserved(h, a)
      /\ account[a].used <= hcmUsed[a] + Undeducted(a) + Taken(h, a)
    BY <1>2 DEF BooksInv
<1>4. /\ account'[a].pending = DaysIn(a, "PENDING")' + Reserved(h, a)'
      /\ account'[a].used <= hcmUsed'[a] + Undeducted(a)' + Taken(h, a)'
    BY <1>3
<1> QED
    BY <1>2, <1>4

\* Most steps touch neither accounts nor rows, nor stand between two writes.
LEMMA BooksUntouched ==
    ASSUME OneTurn, SystemInv, SystemInv', TurnInv, TurnInv', BooksInv,
           NEW h \in Handlers, NEW p, MayRun(h), Goto(h, p),
           UNCHANGED <<account, requests, applied, hcmUsed>>,
           \A g \in Handlers \ {h} : task'[g] = task[g],
           task'[h] = task[h] \/ task[h] = NoTask,
           pc[h] \notin {"insert", "save"}, p \notin {"insert", "save"}
    PROVE  BooksInv'
<1>1. pc'[h] = p
    BY DEF Goto, SystemInv, Shape
<1>2. \A a : Reserved(h, a) = 0 /\ Taken(h, a) = 0 /\ Reserved(h, a)' = 0 /\ Taken(h, a)' = 0
    BY <1>1 DEF Reserved, Taken
<1>3. \A a : DaysIn(a, "PENDING")' = DaysIn(a, "PENDING")
    BY DEF DaysIn
<1>4. \A r : Deducted(r)' <=> Deducted(r)
    BY DeductedOnlyThere
<1>5. \A a : Undeducted(a)' = Undeducted(a)
    BY <1>4 DEF Undeducted, Deducted
<1> QED
    BY <1>2, <1>3, <1>5, BooksStep

LEMMA ReserveBooks ==
    ASSUME OneTurn, SystemInv, SystemInv', TurnInv, TurnInv', BooksInv,
           NEW h \in Handlers, UNCHANGED <<remote, snapshot>>, Reserve(h)
    PROVE  BooksInv'
<1> DEFINE s == task[h].body
<1>1. /\ pc[h] = "reserve" /\ MayRun(h) /\ UNCHANGED <<requests, task, copy>>
      /\ UNCHANGED <<applied, hcmUsed>>
    BY DEF Reserve, At, remote
<1>2. task[h].kind = "create" /\ DaysOf(s) \in 1..MaxDays
    BY <1>1 DEF TurnInv, Held, Creating
<1>3. s \in Submissions
    BY <1>2 DEF SystemInv, Shape, Tasks, NoTask
<1>4. s.account \in Accounts /\ DaysOf(s) \in Nat
    BY <1>2, <1>3, MaxDaysAssumption, SubmissionsAssumption
<1>5. CASE Goto(h, "refused") /\ UNCHANGED account
    BY <1>1, <1>5, BooksUntouched
<1>6. CASE Goto(h, "insert") /\ Charge(s.account, "reserve", DaysOf(s))
    <2>1. pc'[h] = "insert"
        BY <1>6 DEF Goto, SystemInv, Shape
    <2> SUFFICES ASSUME NEW a \in Accounts
                 PROVE  /\ account[a].pending = DaysIn(a, "PENDING") + Reserved(h, a)
                           => account'[a].pending = DaysIn(a, "PENDING")' + Reserved(h, a)'
                        /\ account[a].used <= hcmUsed[a] + Undeducted(a) + Taken(h, a)
                           => account'[a].used <= hcmUsed'[a] + Undeducted(a)' + Taken(h, a)'
        BY <1>1, <1>6, BooksStep
    <2> DEFINE d == IF s.account = a THEN DaysOf(s) ELSE 0
    <2>2. /\ Reserved(h, a) = 0 /\ Taken(h, a) = 0
          /\ Reserved(h, a)' = d /\ Taken(h, a)' = 0
        BY <1>1, <2>1 DEF Reserved, Taken
    <2>3. account[a] \in Account
        BY DEF TurnInv, Tables
    <2>4. account'[a].pending = account[a].pending + d /\ account'[a].used = account[a].used
        <3>1. CASE s.account = a
            <4>1. account'[a] = Updated(account[a], [kind |-> "reserve", days |-> DaysOf(s)])
                BY <1>4, <1>6, <3>1 DEF Charge, TurnInv, Tables
            <4>2. account'[a] = [account[a] EXCEPT !.pending = account[a].pending + DaysOf(s)]
                BY <1>4, <2>3, <4>1, Charging
            <4> QED
                BY <2>3, <3>1, <4>2 DEF Account
        <3>2. CASE s.account # a
            BY <1>4, <1>6, <2>3, <3>2 DEF Charge, TurnInv, Tables, Account
        <3> QED
            BY <3>1, <3>2
    <2>5. /\ DaysIn(a, "PENDING")' = DaysIn(a, "PENDING")
          /\ Undeducted(a)' = Undeducted(a)
        BY <1>1 DEF DaysIn, Undeducted, Approvals
    <2>6. DaysIn(a, "PENDING") \in Nat /\ d \in Nat
        BY <1>4, PendingSum
    <2> HIDE DEF d, s
    <2> QED
        BY <1>1, <2>2, <2>4, <2>5, <2>6
<1> QED
    BY <1>5, <1>6 DEF Reserve

\* The row that appears takes over what was reserved for it.
LEMMA InsertBooks ==
    ASSUME OneTurn, SystemInv, SystemInv', TurnInv, TurnInv', BooksInv,
           NEW h \in Handlers, UNCHANGED <<remote, snapshot>>, Insert(h)
    PROVE  BooksInv'
<1> DEFINE s == task[h].body
           row == NewRequest(s)
<1>1. /\ pc[h] = "insert" /\ MayRun(h) /\ UNCHANGED <<account, task>>
      /\ UNCHANGED <<applied, hcmUsed>>
    BY DEF Insert, At, remote
<1>2. /\ task[h].kind = "create" /\ requests[h] = NoRequest /\ SameKey(s) = {}
      /\ DaysOf(s) \in 1..MaxDays
    BY <1>1 DEF TurnInv, Held, Creating
<1>3. Goto(h, "replied") /\ requests' = [requests EXCEPT ![h] = row]
    BY <1>2 DEF Insert
<1>4. /\ requests'[h] = row
      /\ \A q \in Handlers \ {h} : requests'[q] = requests[q]
      /\ pc'[h] = "replied"
    BY <1>3 DEF SystemInv, Shape, Goto
<1> SUFFICES ASSUME NEW a \in Accounts
             PROVE  /\ account[a].pending = DaysIn(a, "PENDING") + Reserved(h, a)
                       => account'[a].pending = DaysIn(a, "PENDING")' + Reserved(h, a)'
                    /\ account[a].used <= hcmUsed[a] + Undeducted(a) + Taken(h, a)
                       => account'[a].used <= hcmUsed'[a] + Undeducted(a)' + Taken(h, a)'
    BY <1>1, <1>3, BooksStep
<1> DEFINE d == IF s.account = a THEN DaysOf(s) ELSE 0
<1>5. /\ Share(row, a, "PENDING") = d /\ Share(row, a, "APPROVED") = 0
      /\ Share(requests[h], a, "PENDING") = 0 /\ Share(requests[h], a, "APPROVED") = 0
    BY <1>2 DEF Share, NewRequest, NoRequest
<1>6. /\ Reserved(h, a) = d /\ Taken(h, a) = 0
      /\ Reserved(h, a)' = 0 /\ Taken(h, a)' = 0
    BY <1>1, <1>4 DEF Reserved, Taken
<1>7. d \in Int /\ DaysIn(a, "PENDING") \in Nat
    BY <1>2, PendingSum
<1>8. \A q \in Handlers : Owed(q, a)' = Owed(q, a)
    <2>1. \A q : Deducted(q)' <=> Deducted(q)
        BY <1>1, DeductedOnlyThere
    <2>2. \A q \in Handlers : Share(requests'[q], a, "APPROVED") = Share(requests[q], a, "APPROVED")
        BY <1>4, <1>5
    <2> QED
        BY <2>1, <2>2 DEF Owed
<1>9. Undeducted(a)' = Undeducted(a)
    BY <1>8 DEF Undeducted, Owed, Deducted
<1> HIDE DEF d, row, s
<1>10. DaysIn(a, "PENDING")' = DaysIn(a, "PENDING") - 0 + d
    BY <1>4, <1>5, PendingChange
<1> QED
    BY <1>1, <1>6, <1>7, <1>9, <1>10

\* What a review settles is written off its row later; no row has more days
\* than all of its account together, so nothing is clamped that was counted.
LEMMA SettleBooks ==
    ASSUME OneTurn, SystemInv, SystemInv', TurnInv, TurnInv', BooksInv,
           NEW h \in Handlers, UNCHANGED <<remote, snapshot>>, Settle(h)
    PROVE  BooksInv'
<1> DEFINE kind == task[h].kind
           r == task[h].request
           c == copy[h]
           o == [kind |-> Settlement(kind, c.status), days |-> c.days]
<1>1. /\ pc[h] = "settle" /\ MayRun(h) /\ Goto(h, "save")
      /\ UNCHANGED <<requests, task, copy, applied, hcmUsed>>
      /\ account' = [account EXCEPT ![c.account] = Updated(@, o)]
    BY DEF Settle, At, Charge, remote
<1>2. /\ kind \in Reviews /\ r \in Handlers /\ c = requests[r] /\ Row(c)
      /\ c.account \in Accounts /\ c.days \in Nat
      /\ \/ kind = "approve" /\ c.status = "PENDING"
         \/ kind = "reject" /\ c.status = "PENDING"
         \/ kind = "cancel" /\ c.status \in {"PENDING", "APPROVED"}
    BY <1>1, Settling
<1>3. pc'[h] = "save"
    BY <1>1 DEF Goto, SystemInv, Shape
<1> SUFFICES ASSUME NEW a \in Accounts
             PROVE  /\ account[a].pending = DaysIn(a, "PENDING") + Reserved(h, a)
                       => account'[a].pending = DaysIn(a, "PENDING")' + Reserved(h, a)'
                    /\ account[a].used <= hcmUsed[a] + Undeducted(a) + Taken(h, a)
                       => account'[a].used <= hcmUsed'[a] + Undeducted(a)' + Taken(h, a)'
    BY <1>1, BooksStep
<1> DEFINE P == DaysIn(a, "PENDING")
           U == Undeducted(a)
           held == Share(c, a, "PENDING")
           kept == Share(c, a, "APPROVED")
           owed == Owed(r, a)
<1>4. /\ P \in Nat /\ U \in Nat /\ held \in Nat /\ kept \in Nat /\ owed \in Nat
      /\ held <= P /\ owed <= U /\ owed <= kept
    <2>1. P \in Nat /\ U \in Nat /\ owed \in Nat /\ owed <= U /\ held <= P
        BY <1>2, PendingSum, OwedSum
    <2>2. held \in Nat /\ kept \in Nat
        BY <1>2, ShareOfRow
    <2>3. owed \in {0, kept}
        BY <1>2 DEF Owed
    <2> QED
        BY <2>1, <2>2, <2>3
<1>5. DaysIn(a, "PENDING")' = P /\ Undeducted(a)' = U
    BY <1>1 DEF DaysIn, Undeducted, Approvals
<1>6. /\ Reserved(h, a) = 0 /\ Taken(h, a) = 0
      /\ Reserved(h, a)' = 0 - held
      /\ Taken(h, a)' = IF kind = "approve" THEN held ELSE 0 - owed
    <2>1. Owed(r, a)' = Owed(r, a)
        BY <1>1 DEF Owed, Deducted, Approvals
    <2> QED
        BY <1>1, <1>3, <2>1 DEF Reserved, Taken
<1>7. account[a] \in Account /\ hcmUsed[a] \in Nat
    BY DEF TurnInv, Tables
<1>8. account[a].pending \in Nat /\ account[a].used \in Nat
    BY <1>7 DEF Account
<1>9. /\ account'[a].pending = AtLeastZero(account[a].pending - held)
      /\ account'[a].used = IF kind = "approve" THEN account[a].used + held
                            ELSE AtLeastZero(account[a].used - kept)
    <2>1. /\ AtLeastZero(account[a].pending - 0) = account[a].pending
          /\ AtLeastZero(account[a].used - 0) = account[a].used
        BY <1>8 DEF AtLeastZero
    <2>2. CASE c.account # a
        <3>1. held = 0 /\ kept = 0
            BY <2>2 DEF Share
        <3>2. account'[a] = account[a]
            BY <1>1, <2>2 DEF TurnInv, Tables
        <3> HIDE DEF held, kept, kind
        <3> QED
            BY <1>8, <2>1, <3>1, <3>2
    <2>3. CASE c.account = a
        <3>1. account'[a] = Updated(account[a], o)
            BY <1>1, <2>3 DEF TurnInv, Tables
        <3>2. CASE kind = "approve"
            <4>1. o = [kind |-> "confirm", days |-> c.days] /\ held = c.days
                BY <1>2, <2>3, <3>2 DEF Settlement, Share
            <4>2. account'[a] = Updated(account[a], [kind |-> "confirm", days |-> c.days])
                BY <3>1, <4>1
            <4> HIDE DEF c, o, held, kept
            <4>3. account'[a] = [account[a] EXCEPT
                                    !.pending = AtLeastZero(account[a].pending - c.days),
                                    !.used = account[a].used + c.days]
                BY <1>2, <1>7, <4>2, Charging
            <4>4. /\ account'[a].pending = AtLeastZero(account[a].pending - c.days)
                  /\ account'[a].used = account[a].used + c.days
                BY <1>7, <4>3 DEF Account
            <4> QED
                BY <3>2, <4>1, <4>4
        <3>3. CASE kind # "approve" /\ c.status = "PENDING"
            <4>1. /\ o = [kind |-> "release", days |-> c.days]
                  /\ held = c.days /\ kept = 0
                BY <1>2, <2>3, <3>3 DEF Settlement, Share
            <4>2. account'[a] = [account[a] EXCEPT
                                    !.pending = AtLeastZero(account[a].pending - c.days)]
                BY <1>2, <1>7, <3>1, <4>1, Charging
            <4> QED
                BY <1>7, <2>1, <3>3, <4>1, <4>2 DEF Account
        <3>4. CASE kind # "approve" /\ c.status # "PENDING"
            <4>1. /\ o = [kind |-> "restore", days |-> c.days]
                  /\ held = 0 /\ kept = c.days
                BY <1>2, <2>3, <3>4 DEF Settlement, Share
            <4>2. account'[a] = [account[a] EXCEPT
                                    !.used = AtLeastZero(account[a].used - c.days)]
                BY <1>2, <1>7, <3>1, <4>1, Charging
            <4> QED
                BY <1>7, <2>1, <3>4, <4>1, <4>2 DEF Account
        <3> QED
            BY <3>2, <3>3, <3>4
    <2> QED
        BY <2>2, <2>3
<1> HIDE DEF P, U, held, kept, owed, kind, c, o, r
<1>10. ASSUME account[a].pending = P + 0
       PROVE  account'[a].pending = P + (0 - held)
    BY <1>4, <1>9, <1>10 DEF AtLeastZero
<1>11. ASSUME account[a].used <= hcmUsed[a] + U + 0
       PROVE  account'[a].used
                <= hcmUsed[a] + U + (IF kind = "approve" THEN held ELSE 0 - owed)
    <2>1. AtLeastZero(account[a].used - kept) <= hcmUsed[a] + U - owed
        BY <1>4, <1>7, <1>8, <1>11 DEF AtLeastZero
    <2> QED
        BY <1>4, <1>7, <1>8, <1>9, <1>11, <2>1
<1> QED
    BY <1>1, <1>5, <1>6, <1>10, <1>11 DEF P, U

\* The verdict moves the days of its row from what is open to the sums.
LEMMA VerdictBooks ==
    ASSUME OneTurn, SystemInv, SystemInv', TurnInv, TurnInv', BooksInv,
           NEW h \in Handlers, UNCHANGED <<remote, snapshot>>, SaveVerdict(h)
    PROVE  BooksInv'
<1> DEFINE kind == task[h].kind
           c == copy[h]
           object == [c EXCEPT !.status = Verdict(kind)]
           p == IF kind = "approve" THEN "mark_syncing" ELSE "replied"
<1>0. PICK r : r = task[h].request
    OBVIOUS
<1>1. /\ pc[h] = "save" /\ MayRun(h) /\ Goto(h, p)
      /\ UNCHANGED <<account, task, applied, hcmUsed>>
    BY DEF SaveVerdict, At, remote
<1>2. /\ Saves(h, object)
      /\ \/ kind = "approve" /\ c.status = "PENDING" /\ object.status = "APPROVED"
         \/ kind = "reject" /\ c.status = "PENDING" /\ object.status = "REJECTED"
         \/ /\ kind = "cancel" /\ c.status \in {"PENDING", "APPROVED"}
            /\ object.status = "CANCELLED"
    BY VerdictSaves
<1>3. r \in Handlers /\ c = requests[r] /\ Row(c)
    BY <1>0, <1>1, Settling
<1>4. /\ requests'[r] = object
      /\ \A q \in Handlers \ {r} : requests'[q] = requests[q]
      /\ object.account = c.account /\ object.days = c.days
    BY <1>0, <1>2, <1>3, Saved DEF Saves
<1>5. pc'[h] = p /\ p \notin {"insert", "save"}
    BY <1>1 DEF Goto, SystemInv, Shape
<1>6. \A q : Deducted(q)' <=> Deducted(q)
    BY <1>1, DeductedOnlyThere
<1>7. c.status = "PENDING" => ~Deducted(r)
    BY <1>3, PendingUndeducted DEF Closed
<1> SUFFICES ASSUME NEW a \in Accounts
             PROVE  /\ account[a].pending = DaysIn(a, "PENDING") + Reserved(h, a)
                       => account'[a].pending = DaysIn(a, "PENDING")' + Reserved(h, a)'
                    /\ account[a].used <= hcmUsed[a] + Undeducted(a) + Taken(h, a)
                       => account'[a].used <= hcmUsed'[a] + Undeducted(a)' + Taken(h, a)'
    BY <1>1, BooksStep
<1> DEFINE P == DaysIn(a, "PENDING")
           U == Undeducted(a)
           held == Share(c, a, "PENDING")
           owed == Owed(r, a)
<1>8. P \in Nat /\ U \in Nat /\ held \in Nat /\ owed \in Nat
    BY <1>3, PendingSum, OwedSum, ShareOfRow
<1>9. /\ Reserved(h, a) = 0 - held
      /\ Taken(h, a) = IF kind = "approve" THEN held ELSE 0 - owed
      /\ Reserved(h, a)' = 0 /\ Taken(h, a)' = 0
    BY <1>0, <1>1, <1>5 DEF Reserved, Taken
<1> HIDE DEF object, p
<1>10. Share(object, a, "PENDING") = 0
    BY <1>2 DEF Share
<1>11. P' = P - held + 0
    BY <1>3, <1>4, <1>10, PendingChange
<1>12. U' = U - owed + Owed(r, a)'
    <2>1. \A q \in Handlers \ {r} : Owed(q, a)' = Owed(q, a)
        BY <1>4, <1>6 DEF Owed
    <2> QED
        BY <1>3, <2>1, OwedChange
<1>13. /\ kind = "approve" => owed = 0 /\ Owed(r, a)' = held
       /\ kind # "approve" => Owed(r, a)' = 0
    <2>1. Owed(r, a)' = IF Deducted(r) THEN 0 ELSE Share(object, a, "APPROVED")
        BY <1>4, <1>6 DEF Owed
    <2>2. owed = IF Deducted(r) THEN 0 ELSE Share(c, a, "APPROVED")
        BY <1>3 DEF Owed
    <2>3. CASE kind = "approve"
        <3>1. c.status = "PENDING" /\ object.status = "APPROVED"
            BY <1>2, <2>3
        <3>2. Share(object, a, "APPROVED") = held /\ Share(c, a, "APPROVED") = 0
            BY <1>4, <3>1 DEF Share
        <3> HIDE DEF c, held, owed
        <3> QED
            BY <1>7, <2>1, <2>2, <2>3, <3>1, <3>2
    <2>4. CASE kind # "approve"
        <3>1. Share(object, a, "APPROVED") = 0
            BY <1>2, <2>4 DEF Share
        <3> QED
            BY <2>1, <2>4, <3>1
    <2> QED
        BY <2>3, <2>4
<1>14. account[a].pending \in Nat /\ account[a].used \in Nat /\ hcmUsed[a] \in Nat
    BY DEF TurnInv, Tables, Account
<1>15. account' = account /\ hcmUsed' = hcmUsed
    BY <1>1
<1> DEFINE P2 == DaysIn(a, "PENDING")'
           U2 == Undeducted(a)'
           owed2 == Owed(r, a)'
<1>16. P2 = P - held /\ U2 = U - owed + owed2 /\ owed2 \in {0, held}
    BY <1>8, <1>11, <1>12, <1>13
<1> HIDE DEF P, U, P2, U2, owed2, held, owed, kind, c
<1>17. P2 + 0 = P + (0 - held)
    BY <1>8, <1>16
<1>18. hcmUsed[a] + U2 + 0 = hcmUsed[a] + U + (IF kind = "approve" THEN held ELSE 0 - owed)
    <2>1. /\ kind = "approve" => owed = 0 /\ owed2 = held
          /\ kind # "approve" => owed2 = 0
        BY <1>13 DEF owed, owed2, held
    <2> QED
        BY <1>8, <1>14, <1>16, <2>1
<1> QED
    BY <1>9, <1>14, <1>15, <1>17, <1>18 DEF P, U, P2, U2

\* A stale mark may bring an approval back; that is more to be deducted, and
\* takes nothing off any sum.
LEMMA MarkBooks ==
    ASSUME OneTurn, SystemInv, SystemInv', TurnInv, TurnInv', BooksInv,
           NEW h \in Handlers, UNCHANGED <<remote, snapshot>>,
           MarkSyncing(h) \/ MarkSynced(h) \/ MarkFailed(h)
    PROVE  BooksInv'
<1>0. PICK r : r = task[h].request
    OBVIOUS
<1>1. /\ pc[h] \in Marking \ {"in_flight"} /\ MayRun(h)
      /\ UNCHANGED <<account, task>> /\ UNCHANGED <<applied, hcmUsed>>
    BY MarkSaves DEF remote
<1>2. PICK object : Saves(h, object) /\ object.status = "APPROVED"
    BY MarkSaves
<1>3. PICK p \in {"notify", "settled"} : Goto(h, p)
    BY MarkSaves
<1>4. /\ r \in Handlers /\ requests'[r] = object
      /\ \A q \in Handlers \ {r} : requests'[q] = requests[q]
      /\ object.account = requests[r].account /\ object.days = requests[r].days
      /\ Row(requests[r])
    BY <1>0, <1>2, Saved DEF Saves
<1>5. requests[r].status # "PENDING"
    BY <1>0, <1>1 DEF TurnInv, Held, Closed
<1>6. pc'[h] = p
    BY <1>3 DEF Goto, SystemInv, Shape
<1>7. \A q : Deducted(q)' <=> Deducted(q)
    BY <1>1, DeductedOnlyThere
<1> SUFFICES ASSUME NEW a \in Accounts
             PROVE  /\ account[a].pending = DaysIn(a, "PENDING") + Reserved(h, a)
                       => account'[a].pending = DaysIn(a, "PENDING")' + Reserved(h, a)'
                    /\ account[a].used <= hcmUsed[a] + Undeducted(a) + Taken(h, a)
                       => account'[a].used <= hcmUsed'[a] + Undeducted(a)' + Taken(h, a)'
    BY <1>1, <1>3, BooksStep
<1>8. Reserved(h, a) = 0 /\ Taken(h, a) = 0 /\ Reserved(h, a)' = 0 /\ Taken(h, a)' = 0
    BY <1>1, <1>6 DEF Reserved, Taken, Marking
<1> DEFINE P == DaysIn(a, "PENDING")
           U == Undeducted(a)
           P2 == DaysIn(a, "PENDING")'
           U2 == Undeducted(a)'
           owed == Owed(r, a)
           owed2 == Owed(r, a)'
<1>9. P2 = P - 0 + 0 /\ P \in Nat
    <2>1. Share(requests[r], a, "PENDING") = 0 /\ Share(requests'[r], a, "PENDING") = 0
        BY <1>2, <1>4, <1>5 DEF Share
    <2> QED
        BY <1>4, <2>1, PendingChange, PendingSum
<1>10. U2 = U - owed + owed2 /\ U \in Nat /\ owed \in Nat
    <2>1. \A q \in Handlers \ {r} : Owed(q, a)' = Owed(q, a)
        BY <1>4, <1>7 DEF Owed
    <2> QED
        BY <1>4, <2>1, OwedChange, OwedSum
<1>11. owed <= owed2 /\ owed2 \in Nat
    <2>1. CASE Deducted(r)
        BY <1>7, <2>1 DEF Owed
    <2>2. CASE ~Deducted(r)
        <3>1. owed = Share(requests[r], a, "APPROVED") /\ owed2 = Share(object, a, "APPROVED")
            BY <1>4, <1>7, <2>2 DEF Owed
        <3>2. requests[r].days \in Nat /\ Share(requests[r], a, "APPROVED") <= Share(object, a, "APPROVED")
              /\ Share(object, a, "APPROVED") \in Nat
            BY <1>2, <1>4 DEF Share, Row
        <3> QED
            BY <3>1, <3>2
    <2> QED
        BY <2>1, <2>2
<1>12. account[a].pending \in Nat /\ account[a].used \in Nat /\ hcmUsed[a] \in Nat
    BY DEF TurnInv, Tables, Account
<1>13. account' = account /\ hcmUsed' = hcmUsed
    BY <1>1
<1> HIDE DEF P, U, P2, U2, owed, owed2
<1>14. P2 = P /\ U <= U2 /\ U2 \in Int
    BY <1>9, <1>10, <1>11
<1> QED
    BY <1>8, <1>9, <1>10, <1>12, <1>13, <1>14 DEF P, U, P2, U2

\* A deduction moves the days of its row to the HCM's side; one more on top
\* only adds there.
LEMMA DeductBooks ==
    ASSUME OneTurn, SystemInv, SystemInv', TurnInv, TurnInv', BooksInv,
           NEW h \in Handlers, HcmDeducts(h)
    PROVE  BooksInv'
<1>0. PICK r : r = task[h].request
    OBVIOUS
<1>1. /\ r \in Handlers /\ Row(requests[r]) /\ requests[r].status \in Closed
      /\ task[h].kind = "approve"
      /\ UNCHANGED <<local, snapshot, call, outcome, hcmTotal>>
      /\ applied' = [applied EXCEPT ![h] = @ + 1]
      /\ hcmUsed' = [hcmUsed EXCEPT ![requests[r].account] = @ + requests[r].days]
    BY <1>0, Deducting
<1>2. UNCHANGED <<account, requests, pc, task, copy, running>>
    BY <1>1 DEF local
<1>3. /\ applied'[h] > 0
      /\ \A g \in Handlers \ {h} : applied'[g] = applied[g]
      /\ \A g \in Handlers : applied[g] > 0 => applied'[g] > 0
    BY <1>1 DEF SystemInv, Shape
<1>4. Deducted(r)'
    BY <1>0, <1>1, <1>2, <1>3 DEF Deducted, Approvals
<1>5. \A q : q # r => (Deducted(q)' <=> Deducted(q))
    BY <1>0, <1>2, <1>3 DEF Deducted, Approvals
<1> SUFFICES ASSUME NEW a \in Accounts
             PROVE  /\ account'[a].pending = DaysIn(a, "PENDING")' + ReservedNow(a)'
                    /\ account'[a].used <= hcmUsed'[a] + Undeducted(a)' + TakenNow(a)'
    BY DEF BooksInv
<1> DEFINE U == Undeducted(a)
           U2 == Undeducted(a)'
           owed == Owed(r, a)
           gain == IF requests[r].account = a THEN requests[r].days ELSE 0
           T == TakenNow(a)
           T2 == TakenNow(a)'
<1>6. DaysIn(a, "PENDING")' = DaysIn(a, "PENDING") /\ ReservedNow(a)' = ReservedNow(a)
    BY <1>2 DEF DaysIn, ReservedNow, Reserved
<1>7. hcmUsed[a] \in Nat /\ gain \in Nat /\ hcmUsed'[a] = hcmUsed[a] + gain
    BY <1>1 DEF Row, TurnInv, Tables
<1>8. U2 = U - owed + 0 /\ U \in Nat /\ owed \in Nat
    <2>1. Owed(r, a)' = 0 /\ \A q \in Handlers \ {r} : Owed(q, a)' = Owed(q, a)
        BY <1>2, <1>4, <1>5 DEF Owed
    <2> QED
        BY <1>1, <2>1, OwedChange, OwedSum
<1>9. owed <= gain
    BY <1>1, <1>7 DEF Owed, Share, Row
<1>10. T \in Int /\ T2 \in Int /\ T <= T2
    <2>1. CASE running = Nobody
        BY <1>2, <2>1 DEF TakenNow
    <2>2. CASE running # Nobody
        <3>1. running \in Handlers
            BY <2>2 DEF TurnInv, Tables
        <3>2. T = Taken(running, a) /\ T2 = Taken(running, a)'
            BY <1>2, <2>2 DEF TakenNow
        <3>3. CASE pc[running] # "save"
            BY <1>2, <3>2, <3>3 DEF Taken
        <3>4. CASE pc[running] = "save"
            <4>0. PICK q : q = task[running].request
                OBVIOUS
            <4>1. q \in Handlers /\ Row(copy[running])
                BY <3>1, <3>4, <4>0, Settling
            <4>2. Owed(q, a) \in Nat /\ Share(copy[running], a, "PENDING") \in Nat
                BY <4>1, OwedSum, ShareOfRow
            <4>3. Owed(q, a)' \in {0, Owed(q, a)}
                <5>1. CASE q = r
                    BY <1>4, <5>1 DEF Owed
                <5>2. CASE q # r
                    BY <1>2, <1>5, <5>2 DEF Owed
                <5> QED
                    BY <5>1, <5>2
            <4>4. /\ T = IF task[running].kind = "approve"
                         THEN Share(copy[running], a, "PENDING") ELSE 0 - Owed(q, a)
                  /\ T2 = IF task[running].kind = "approve"
                          THEN Share(copy[running], a, "PENDING") ELSE 0 - Owed(q, a)'
                BY <1>2, <3>2, <3>4, <4>0 DEF Taken
            <4> HIDE DEF T, T2
            <4> QED
                BY <4>2, <4>3, <4>4
        <3> QED
            BY <3>3, <3>4
    <2> QED
        BY <2>1, <2>2
<1>11. account[a].used \in Nat /\ account' = account
    BY <1>2 DEF TurnInv, Tables, Account
<1>12. account[a].used <= hcmUsed[a] + U + T /\ account[a].pending = DaysIn(a, "PENDING") + ReservedNow(a)
    BY DEF BooksInv
<1> HIDE DEF U, U2, owed, gain, T, T2
<1>13. account[a].used <= hcmUsed'[a] + U2 + T2
    BY <1>7, <1>8, <1>9, <1>10, <1>11, <1>12
<1> QED
    BY <1>6, <1>11, <1>12, <1>13 DEF U2, T2

\* A sync brings figures that are at most those of the HCM by now, and leaves
\* the pending days alone.
LEMMA InboundBooks ==
    ASSUME OneTurn, SystemInv, TurnInv, BooksInv, HcmRefreshes \/ Syncing
    PROVE  BooksInv'
<1>1. UNCHANGED <<requests, pc, task, copy, running, applied, hcmUsed>>
    BY DEF HcmRefreshes, Hcm!Refresh, Syncing, SyncReads, SyncWrites, local, remote
<1>2. \A a : /\ DaysIn(a, "PENDING")' = DaysIn(a, "PENDING")
             /\ Undeducted(a)' = Undeducted(a)
             /\ ReservedNow(a)' = ReservedNow(a) /\ TakenNow(a)' = TakenNow(a)
    BY <1>1
    DEF DaysIn, Undeducted, Approvals, ReservedNow, TakenNow, Reserved, Taken, Owed, Deducted
<1>3. CASE UNCHANGED account
    BY <1>1, <1>2, <1>3 DEF BooksInv
<1>4. ASSUME NEW s \in Syncs, SyncWrites(s) PROVE BooksInv'
    <2>1. /\ running = Nobody /\ snapshot[s] # NoSnapshot
          /\ account' = [a \in Accounts |->
                            Updated(account[a], [kind |-> "sync", hcm |-> snapshot[s][a]])]
        BY <1>4 DEF SyncWrites, OneTurn
    <2> SUFFICES ASSUME NEW a \in Accounts
                 PROVE  /\ account'[a].pending = DaysIn(a, "PENDING")' + ReservedNow(a)'
                        /\ account'[a].used <= hcmUsed'[a] + Undeducted(a)' + TakenNow(a)'
        BY DEF BooksInv
    <2>2. account'[a].pending = account[a].pending /\ account'[a].used = snapshot[s][a].used
        BY <2>1 DEF Updated, Account, TurnInv, Tables
    <2>3. /\ snapshot[s][a].used \in Nat /\ snapshot[s][a].used <= hcmUsed[a]
          /\ hcmUsed[a] \in Nat /\ Undeducted(a) \in Nat /\ TakenNow(a) = 0
        BY <2>1, OwedSum DEF TurnInv, Tables, Figures, TakenNow
    <2>4. account'[a].used <= hcmUsed[a] + Undeducted(a) + TakenNow(a)
        BY <2>2, <2>3
    <2> QED
        BY <1>1, <1>2, <2>2, <2>4 DEF BooksInv
<1> QED
    BY <1>3, <1>4 DEF HcmRefreshes, Syncing, SyncReads, local

LEMMA SystemBooks ==
    ASSUME OneTurn, SystemInv, SystemInv', TurnInv, TurnInv', BooksInv, [SystemNext]_allVars
    PROVE  BooksInv'
<1>1. CASE UNCHANGED allVars
    BY <1>1
    DEF allVars, local, remote, BooksInv, DaysIn, Undeducted, Approvals, ReservedNow,
        TakenNow, Reserved, Taken, Owed, Deducted
<1>2. ASSUME NEW h \in Handlers, StartOf(h) PROVE BooksInv'
    <2>1. /\ pc[h] = "start" /\ MayRun(h) /\ UNCHANGED <<account, requests, applied, hcmUsed>>
          /\ task[h] = NoTask
        BY <1>2 DEF StartOf, Start, Submit, Review, At, remote, SystemInv, Faithful
    <2>2. PICK t : task' = [task EXCEPT ![h] = t]
        BY <1>2 DEF StartOf, Start, Submit, Review
    <2>3. PICK p \in {"validate", "find"} : Goto(h, p)
        BY <1>2 DEF StartOf, Start, Submit, Review
    <2>4. \A g \in Handlers \ {h} : task'[g] = task[g]
        BY <2>2 DEF SystemInv, Shape
    <2> QED
        BY <2>1, <2>3, <2>4, BooksUntouched
<1>3. ASSUME NEW h \in Handlers, LocalStep(h) PROVE BooksInv'
    <2>1. CASE Validate(h) \/ CheckKey(h) \/ CheckOverlap(h) \/ Find(h) \/ LedgerFails(h)
        <3>1. /\ MayRun(h) /\ UNCHANGED <<account, requests, task, applied, hcmUsed>>
              /\ pc[h] \notin {"insert", "save"}
            BY <1>3, <2>1
            DEF LocalStep, remote, Validate, CheckKey, CheckOverlap, Find, LedgerFails, At
        <3>2. PICK p \in {"check_key", "refused", "replied", "check_overlap", "reserve",
                          "settle", "error"} : Goto(h, p)
            BY <2>1 DEF Validate, CheckKey, CheckOverlap, Find, LedgerFails
        <3> QED
            BY <3>1, <3>2, BooksUntouched
    <2> QED
        BY <1>3, <2>1, ReserveBooks, InsertBooks, SettleBooks, VerdictBooks, MarkBooks
        DEF LocalStep
<1>4. ASSUME NEW h \in Handlers, NotifyHcm(h) \/ HcmResolves(h) \/ HcmRejects(h)
      PROVE  BooksInv'
    <2>1. /\ MayRun(h) /\ UNCHANGED <<account, requests, task, applied, hcmUsed>>
          /\ pc[h] \in {"notify", "in_flight"}
        BY <1>4
        DEF NotifyHcm, Notify, NotifyIf, HcmResolves, HcmRejects, HcmAnswers, At, Hcm!Ask,
            Hcm!Confirm, Hcm!Fail, remote
    <2>2. PICK p \in {"in_flight", "mark_synced", "mark_failed"} : Goto(h, p)
        BY <1>4 DEF NotifyHcm, Notify, NotifyIf, HcmResolves, HcmRejects, HcmAnswers
    <2> QED
        BY <2>1, <2>2, BooksUntouched
<1> QED
    BY <1>1, <1>2, <1>3, <1>4, DeductBooks, InboundBooks DEF SystemNext, StepOf, Syncing

LEMMA InitBooks == ASSUME SystemInit, TurnInv PROVE BooksInv
<1> SUFFICES ASSUME NEW a \in Accounts
             PROVE  /\ account[a].pending = DaysIn(a, "PENDING") + ReservedNow(a)
                    /\ account[a].used <= hcmUsed[a] + Undeducted(a) + TakenNow(a)
    BY DEF BooksInv
<1>1. /\ account[a].pending = 0 /\ account[a].used = 0 /\ hcmUsed[a] = 0
      /\ ReservedNow(a) = 0 /\ TakenNow(a) = 0
    BY DEF SystemInit, Init, Hcm!Init, ReservedNow, TakenNow
<1>2. DaysIn(a, "PENDING") = 0
    <2> DEFINE w == [r \in Handlers |-> Share(requests[r], a, "PENDING")]
    <2>1. w \in [Handlers -> Int] /\ \A r \in Handlers : w[r] = 0
        BY DEF SystemInit, Init, Share, NoRequest
    <2>2. DaysIn(a, "PENDING") = SumFunction(w)
        BY DEF DaysIn
    <2> HIDE DEF w
    <2> QED
        BY <2>1, <2>2, HandlersAssumption, SumZero
<1>3. Undeducted(a) \in Nat
    BY OwedSum
<1> QED
    BY <1>1, <1>2, <1>3

\* Turns and books are kept together with what is marked.
LEMMA BooksKept == ASSUME OneTurn PROVE SystemSpec => [](SystemInv /\ TurnInv /\ BooksInv)
<1>1. SystemInit => TurnInv /\ BooksInv
    BY TurnInit, InitBooks
<1>2. SystemInv /\ SystemInv' /\ TurnInv /\ BooksInv /\ [SystemNext]_allVars
        => TurnInv' /\ BooksInv'
    BY SystemTurn, SystemBooks
<1> QED
    BY <1>1, <1>2, SystemInvariant, PTL DEF SystemSpec

LEMMA QuiescentIsFree ==
    ASSUME TurnInv, Quiescent, NEW a PROVE ReservedNow(a) = 0 /\ TakenNow(a) = 0
BY DEF TurnInv, Tables, Turn, Quiescent, ReservedNow, TakenNow

\* Between turns the pending days of every account are those of its pending
\* requests, for any number of handlers, submissions, deductions and syncs:
\* no review, refusal, stale mark or inbound figure leaks a reservation.
THEOREM PendingDaysBacked == ASSUME OneTurn PROVE SystemSpec => []PendingBacksRequests
<1>1. TurnInv /\ BooksInv => PendingBacksRequests
    <2> SUFFICES ASSUME TurnInv, BooksInv, Quiescent, NEW a \in Accounts
                 PROVE  account[a].pending = DaysIn(a, "PENDING")
        BY DEF PendingBacksRequests
    <2>1. /\ account[a].pending = DaysIn(a, "PENDING") + ReservedNow(a)
          /\ ReservedNow(a) = 0 /\ DaysIn(a, "PENDING") \in Nat
        BY QuiescentIsFree, PendingSum DEF BooksInv
    <2> QED
        BY <2>1
<1> QED
    BY <1>1, BooksKept, PTL

\* Between turns no account counts more days as used than the HCM has deducted
\* or will still be told of, whatever is late, stale, cancelled or synced.
THEOREM UsedDaysBacked == ASSUME OneTurn PROVE SystemSpec => []UsedDaysAccounted
<1>1. TurnInv /\ BooksInv => UsedDaysAccounted
    <2> SUFFICES ASSUME TurnInv, BooksInv, Quiescent, NEW a \in Accounts
                 PROVE  account[a].used <= hcmUsed[a] + Undeducted(a)
        BY DEF UsedDaysAccounted
    <2>1. /\ account[a].used <= hcmUsed[a] + Undeducted(a) + TakenNow(a)
          /\ TakenNow(a) = 0 /\ Undeducted(a) \in Nat /\ hcmUsed[a] \in Nat
        BY QuiescentIsFree, OwedSum DEF BooksInv, TurnInv, Tables
    <2> QED
        BY <2>1
<1> QED
    BY <1>1, BooksKept, PTL

-----------------------------------------------------------------------------
(* Sync statuses.  A request is approved once, as a row that has been      *)
(* reviewed is never pending again; so its mark is in the hands of the one *)
(* approval of it, and any other review that saves the row wrote what it   *)
(* read in its own turn.                                                   *)

Marked(h) ==
    /\ pc[h] = "mark_syncing" => requests[task[h].request].sync = "NOT_SYNCED"
    /\ pc[h] \in Marking \ {"mark_syncing"} => requests[task[h].request].sync = "SYNCING"

OneApproval ==
    \A g, h \in Handlers :
        pc[g] \in Marking /\ pc[h] \in Marking /\ task[g].request = task[h].request => g = h

MarksInv ==
    /\ \A r \in Handlers : requests[r].status = "PENDING" => requests[r].sync = "NOT_SYNCED"
    /\ \A h \in Handlers : Marked(h)
    /\ OneApproval

SyncMoves ==
    {<<"NOT_SYNCED", "SYNCING">>, <<"SYNCING", "SYNCED">>, <<"SYNCING", "FAILED">>}

SyncMoved(r) ==
    requests[r] # NoRequest /\ requests'[r].sync # requests[r].sync =>
        <<requests[r].sync, requests'[r].sync>> \in SyncMoves

\* Where an approval stands once it has its verdict.
LEMMA MarkingRow ==
    ASSUME SystemInv, TurnInv, NEW h \in Handlers, pc[h] \in Marking
    PROVE  /\ task[h].request \in Handlers
           /\ requests[task[h].request].status \in Closed
           /\ requests[task[h].request] # NoRequest
<1>1. task[h].request \in Handlers
    BY Reviewed DEF SystemInv, Faithful, Holding
<1>2. requests[task[h].request].status \in Closed
    BY DEF TurnInv, Held
<1> QED
    BY <1>1, <1>2, ClosedIsRow

\* Steps that write no row, and bring nobody past a verdict or a mark.
LEMMA MarksUntouched ==
    ASSUME SystemInv, MarksInv, UNCHANGED requests,
           \A g \in Handlers : pc'[g] \in Marking =>
                /\ pc[g] \in Marking /\ task'[g] = task[g]
                /\ pc'[g] = "mark_syncing" <=> pc[g] = "mark_syncing"
    PROVE  MarksInv' /\ \A r \in Handlers : SyncMoved(r)
<1>1. \A g \in Handlers : Marked(g)'
    BY DEF MarksInv, Marked, Marking
<1>2. OneApproval'
    BY DEF MarksInv, OneApproval
<1>3. \A r \in Handlers : SyncMoved(r)
    BY DEF SyncMoved
<1> QED
    BY <1>1, <1>2, <1>3 DEF MarksInv

\* A handler goes on that has no verdict, or past no mark.
LEMMA MarksQuiet ==
    ASSUME SystemInv, MarksInv, NEW h \in Handlers, NEW p, Goto(h, p),
           UNCHANGED requests, \A g \in Handlers : task'[g] = task[g] \/ g = h,
           p \in Marking => /\ pc[h] \in Marking /\ task'[h] = task[h]
                            /\ p # "mark_syncing" /\ pc[h] # "mark_syncing"
    PROVE  MarksInv' /\ \A r \in Handlers : SyncMoved(r)
<1>1. pc'[h] = p /\ \A g \in Handlers : g # h => pc'[g] = pc[g]
    BY DEF Goto, SystemInv, Shape
<1>2. \A g \in Handlers : pc'[g] \in Marking =>
            /\ pc[g] \in Marking /\ task'[g] = task[g]
            /\ pc'[g] = "mark_syncing" <=> pc[g] = "mark_syncing"
    BY <1>1
<1> QED
    BY <1>2, MarksUntouched

\* A save moves the mark of its row, and no other approval counts on it.
LEMMA MarksSave ==
    ASSUME SystemInv, TurnInv, MarksInv, NEW h \in Handlers,
           NEW object, Saves(h, object), UNCHANGED task, NEW p, Goto(h, p),
           p = "mark_syncing" => object.sync = "NOT_SYNCED",
           p \in Marking \ {"mark_syncing"} => object.sync = "SYNCING",
           \A g \in Handlers \ {h} :
               pc[g] \in Marking /\ task[g].request = task[h].request =>
                    p \notin Marking /\ object.sync = requests[task[h].request].sync,
           \/ object.sync = requests[task[h].request].sync
           \/ <<requests[task[h].request].sync, object.sync>> \in SyncMoves
    PROVE  MarksInv' /\ \A r \in Handlers : SyncMoved(r)
<1> DEFINE r == task[h].request
<1>1. /\ requests'[r] = object /\ r \in Handlers /\ object.status \in Closed
      /\ \A q \in Handlers : q # r => requests'[q] = requests[q]
    BY Saved DEF Saves
<1>2. pc'[h] = p /\ \A g \in Handlers : g # h => pc'[g] = pc[g]
    BY DEF Goto, SystemInv, Shape
<1>3. \A q \in Handlers : requests'[q].status = "PENDING" => requests'[q].sync = "NOT_SYNCED"
    BY <1>1 DEF MarksInv, Closed
<1>4. ASSUME NEW g \in Handlers PROVE Marked(g)'
    <2>1. CASE g = h
        BY <1>1, <1>2, <2>1 DEF Marked
    <2>2. CASE g # h /\ pc[g] \in Marking
        <3>1. pc'[g] = pc[g] /\ Marked(g) /\ task[g].request \in Handlers
            BY <1>2, <2>2, MarkingRow DEF MarksInv
        <3>2. requests'[task[g].request].sync = requests[task[g].request].sync
            BY <1>1, <2>2, <3>1
        <3> QED
            BY <3>1, <3>2 DEF Marked
    <2>3. CASE g # h /\ pc[g] \notin Marking
        BY <1>2, <2>3 DEF Marked, Marking
    <2> QED
        BY <2>1, <2>2, <2>3
<1>5. OneApproval'
    BY <1>2 DEF MarksInv, OneApproval
<1>6. \A q \in Handlers : SyncMoved(q)
    BY <1>1 DEF SyncMoved
<1> QED
    BY <1>3, <1>4, <1>5, <1>6 DEF MarksInv

LEMMA VerdictMarks ==
    ASSUME SystemInv, TurnInv, MarksInv, NEW h \in Handlers, SaveVerdict(h)
    PROVE  MarksInv' /\ \A r \in Handlers : SyncMoved(r)
<1> DEFINE object == [copy[h] EXCEPT !.status = Verdict(task[h].kind)]
           p == IF task[h].kind = "approve" THEN "mark_syncing" ELSE "replied"
           r == task[h].request
<1>1. pc[h] = "save" /\ Goto(h, p) /\ UNCHANGED task
    BY DEF SaveVerdict, At
<1>2. /\ Saves(h, object)
      /\ \/ task[h].kind = "approve" /\ copy[h].status = "PENDING"
         \/ task[h].kind = "reject" /\ copy[h].status = "PENDING"
         \/ task[h].kind = "cancel"
    BY VerdictSaves
<1>3. r \in Handlers /\ copy[h] = requests[r] /\ Row(copy[h])
    BY <1>1, Settling
<1>4. object.sync = requests[r].sync
    BY <1>3 DEF Row, Columns
<1>5. p = "mark_syncing" => requests[r].status = "PENDING"
    BY <1>2, <1>3
<1>6. requests[r].status = "PENDING" => requests[r].sync = "NOT_SYNCED"
    BY <1>3 DEF MarksInv
<1>7. p \in {"mark_syncing", "replied"}
    OBVIOUS
<1>8. \A g \in Handlers \ {h} : pc[g] \in Marking /\ task[g].request = r => p \notin Marking
    BY <1>5, <1>7, MarkingRow DEF Closed, Marking
<1> HIDE DEF object, p
<1>9. p \notin Marking \ {"mark_syncing"}
    BY <1>7 DEF Marking
<1> QED
    BY <1>1, <1>2, <1>4, <1>5, <1>6, <1>8, <1>9, MarksSave

LEMMA MarkMarks ==
    ASSUME SystemInv, TurnInv, MarksInv, NEW h \in Handlers,
           MarkSyncing(h) \/ MarkSynced(h) \/ MarkFailed(h)
    PROVE  MarksInv' /\ \A r \in Handlers : SyncMoved(r)
<1> DEFINE r == task[h].request
<1>1. pc[h] \in Marking /\ UNCHANGED task
    BY MarkSaves
<1>2. PICK object : Saves(h, object)
    BY MarkSaves
<1>3. requests'[r] = object /\ r \in Handlers
    BY <1>2, Saved DEF Saves
<1>4. \A g \in Handlers \ {h} : ~ (pc[g] \in Marking /\ task[g].request = r)
    BY <1>1 DEF MarksInv, OneApproval
<1>5. DOMAIN copy[h] = Columns /\ Marked(h)
    BY <1>1 DEF TurnInv, Held, Row, MarksInv
<1>6. CASE MarkSyncing(h)
    <2>1. requests[r].sync = "NOT_SYNCED" /\ Goto(h, "notify")
        BY <1>5, <1>6 DEF MarkSyncing, At, Marked
    <2>2. object = [copy[h] EXCEPT !.sync = "SYNCING", !.attempts = @ + 1]
        BY <1>3, <1>6 DEF MarkSyncing, SaveCopy, SystemInv, Shape
    <2>3. object.sync = "SYNCING"
        BY <1>5, <2>2 DEF Columns
    <2> QED
        BY <1>1, <1>2, <1>4, <2>1, <2>3, MarksSave DEF SyncMoves
<1>7. ASSUME NEW sync \in {"SYNCED", "FAILED"},
             pc[h] \in {"mark_synced", "mark_failed"}, Goto(h, "settled"),
             SaveCopy(h, [copy[h] EXCEPT !.sync = sync])
      PROVE  MarksInv' /\ \A q \in Handlers : SyncMoved(q)
    <2>1. requests[r].sync = "SYNCING"
        BY <1>5, <1>7 DEF Marked, Marking
    <2>2. object = [copy[h] EXCEPT !.sync = sync]
        BY <1>3, <1>7 DEF SaveCopy, SystemInv, Shape
    <2>3. object.sync = sync
        BY <1>5, <2>2 DEF Columns
    <2>4. "settled" \notin Marking
        BY DEF Marking
    <2> QED
        BY <1>1, <1>2, <1>4, <1>7, <2>1, <2>3, <2>4, MarksSave DEF SyncMoves
<1>8. CASE MarkSynced(h)
    BY <1>7, <1>8 DEF MarkSynced, At
<1>9. CASE MarkFailed(h)
    BY <1>7, <1>9 DEF MarkFailed, At
<1> QED
    BY <1>6, <1>8, <1>9

\* A row is new where it is inserted, and nobody has a verdict on it.
LEMMA InsertMarks ==
    ASSUME OneTurn, SystemInv, TurnInv, MarksInv, NEW h \in Handlers, Insert(h)
    PROVE  MarksInv' /\ \A r \in Handlers : SyncMoved(r)
<1> DEFINE row == NewRequest(task[h].body)
<1>1. pc[h] = "insert" /\ UNCHANGED task
    BY DEF Insert, At
<1>2. requests[h] = NoRequest /\ SameKey(task[h].body) = {}
    BY <1>1 DEF TurnInv, Held, Creating
<1>3. Goto(h, "replied") /\ requests' = [requests EXCEPT ![h] = row]
    BY <1>2 DEF Insert
<1>4. row.sync = "NOT_SYNCED"
    BY DEF NewRequest
<1> HIDE DEF row
<1>5. /\ requests'[h] = row /\ \A q \in Handlers : q # h => requests'[q] = requests[q]
      /\ pc'[h] = "replied" /\ \A g \in Handlers : g # h => pc'[g] = pc[g]
    BY <1>3 DEF SystemInv, Shape, Goto
<1>6. \A q \in Handlers : requests'[q].status = "PENDING" => requests'[q].sync = "NOT_SYNCED"
    BY <1>4, <1>5 DEF MarksInv
<1>7. ASSUME NEW g \in Handlers PROVE Marked(g)'
    <2>1. CASE pc'[g] \in Marking
        <3>1. g # h /\ pc'[g] = pc[g]
            BY <1>5, <2>1 DEF Marking
        <3>2. task[g].request \in Handlers /\ task[g].request # h
            BY <1>2, <2>1, <3>1, MarkingRow
        <3> QED
            BY <1>1, <1>5, <3>1, <3>2 DEF MarksInv, Marked
    <2>2. CASE pc'[g] \notin Marking
        BY <2>2 DEF Marked, Marking
    <2> QED
        BY <2>1, <2>2
<1>8. OneApproval'
    BY <1>1, <1>5 DEF MarksInv, OneApproval, Marking
<1>9. \A q \in Handlers : SyncMoved(q)
    BY <1>2, <1>5 DEF SyncMoved
<1> QED
    BY <1>6, <1>7, <1>8, <1>9 DEF MarksInv

LEMMA SystemMarks ==
    ASSUME OneTurn, SystemInv, TurnInv, MarksInv, [SystemNext]_allVars
    PROVE  MarksInv' /\ \A r \in Handlers : SyncMoved(r)
<1>1. CASE UNCHANGED allVars
    BY <1>1, MarksUntouched DEF allVars, local
<1>2. ASSUME NEW h \in Handlers, StartOf(h) PROVE MarksInv' /\ \A r \in Handlers : SyncMoved(r)
    <2>1. PICK t : task' = [task EXCEPT ![h] = t]
        BY <1>2 DEF StartOf, Start, Submit, Review
    <2>2. PICK p \in {"validate", "find"} : Goto(h, p)
        BY <1>2 DEF StartOf, Start, Submit, Review
    <2>3. UNCHANGED requests
        BY <1>2 DEF StartOf, Start, Submit, Review
    <2>4. \A g \in Handlers : task'[g] = task[g] \/ g = h
        BY <2>1 DEF SystemInv, Shape
    <2>5. p \notin Marking
        BY DEF Marking
    <2> QED
        BY <2>2, <2>3, <2>4, <2>5, MarksQuiet
<1>3. ASSUME NEW h \in Handlers, LocalStep(h)
      PROVE  MarksInv' /\ \A r \in Handlers : SyncMoved(r)
    <2>1. CASE \/ Validate(h) \/ CheckKey(h) \/ CheckOverlap(h) \/ Reserve(h) \/ Find(h)
               \/ Settle(h) \/ LedgerFails(h)
        <3>1. UNCHANGED <<requests, task>>
            BY <2>1 DEF Validate, CheckKey, CheckOverlap, Reserve, Find, Settle, LedgerFails
        <3>2. PICK p \in {"check_key", "refused", "replied", "check_overlap", "reserve",
                          "insert", "settle", "save", "error"} : Goto(h, p)
            BY <2>1 DEF Validate, CheckKey, CheckOverlap, Reserve, Find, Settle, LedgerFails
        <3>3. p \notin Marking
            BY DEF Marking
        <3> QED
            BY <3>1, <3>2, <3>3, MarksQuiet
    <2> QED
        BY <1>3, <2>1, InsertMarks, VerdictMarks, MarkMarks DEF LocalStep
<1>4. ASSUME NEW h \in Handlers, NotifyHcm(h) \/ HcmResolves(h) \/ HcmRejects(h)
      PROVE  MarksInv' /\ \A r \in Handlers : SyncMoved(r)
    <2>1. UNCHANGED <<requests, task>> /\ pc[h] \in {"notify", "in_flight"}
        BY <1>4
        DEF NotifyHcm, Notify, NotifyIf, HcmResolves, HcmRejects, HcmAnswers, At
    <2>2. PICK p \in {"in_flight", "mark_synced", "mark_failed"} : Goto(h, p)
        BY <1>4 DEF NotifyHcm, Notify, NotifyIf, HcmResolves, HcmRejects, HcmAnswers
    <2>3. pc[h] \in Marking /\ pc[h] # "mark_syncing" /\ p # "mark_syncing"
        BY <2>1 DEF Marking
    <2> QED
        BY <2>1, <2>2, <2>3, MarksQuiet
<1>5. CASE \/ \E h \in Handlers : HcmDeducts(h)
           \/ HcmRefreshes \/ Syncing
    <2>1. UNCHANGED <<requests, pc, task>>
        BY <1>5 DEF HcmDeducts, HcmRefreshes, Syncing, SyncReads, SyncWrites, local
    <2> QED
        BY <2>1, MarksUntouched
<1> QED
    BY <1>1, <1>2, <1>3, <1>4, <1>5 DEF SystemNext, StepOf, Syncing

\* A request's sync status moves along its machine and is never set back, for
\* any number of approvals, cancellations, late answers and syncs, one turn of
\* the event loop at a time.
THEOREM MarksMove == ASSUME OneTurn PROVE SystemSpec => SyncStatusMoves
<1>1. SystemInit => MarksInv
    BY DEF SystemInit, Init, MarksInv, Marked, OneApproval, Marking, NoRequest
<1>2. SystemInv /\ TurnInv /\ MarksInv /\ [SystemNext]_allVars => MarksInv'
    BY SystemMarks
<1>3. SystemInv /\ TurnInv /\ MarksInv /\ [SystemNext]_allVars
        => [\A r \in Handlers :
                requests[r] # NoRequest /\ requests'[r].sync # requests[r].sync =>
                    <<requests[r].sync, requests'[r].sync>> \in
                        {<<"NOT_SYNCED", "SYNCING">>, <<"SYNCING", "SYNCED">>,
                         <<"SYNCING", "FAILED">>}]_vars
    BY SystemMarks DEF SyncMoved, SyncMoves
<1> QED
    BY <1>1, <1>2, <1>3, BooksKept, PTL DEF SystemSpec, SyncStatusMoves
=============================================================================
