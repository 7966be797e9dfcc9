-------------------------- MODULE HcmReconciliation --------------------------
(***************************************************************************)
(* Leave requests, their deductions at the HCM, and the inbound sync that  *)
(* brings the HCM's figures back: LeaveRequestService whose approvals ask  *)
(* an HCM that keeps books (HcmDeduction), and whose accounts are          *)
(* overwritten with what a sync has read from those books.                 *)
(*                                                                         *)
(* A sync is here one answer of the HCM and, in a later turn of the event  *)
(* loop, the write of all accounts; each holds an answer of its own, so    *)
(* that syncs which overlap may write in the order opposite to the one     *)
(* they read in.  What may go wrong in between is the subject of           *)
(* HcmSyncService.                                                         *)
(***************************************************************************)
EXTENDS LeaveRequestService

CONSTANTS
    HcmTotals,      \* HcmTotals[a]: the allotment account a has first at the HCM
    Bonuses,        \* the days a refresh adds at the HCM
    MaxTotal,       \* bound on the allotments refreshes lead to
    MaxAttempts,    \* maxRetries + 1 of the HCM client
    Syncs,          \* the syncs that may overlap; each may come again
    NoSnapshot      \* a sync that holds no answer

ASSUME HcmTotalsAssumption == HcmTotals \in [Accounts -> Nat]
ASSUME BonusesAssumption == Bonuses \subseteq Nat
ASSUME MaxAttemptsAssumption == MaxAttempts \in Nat

VARIABLES
    call,           \* call[h]: what approval h asked the HCM to deduct
    outcome,        \* outcome[h]: what it has heard
    applied,        \* applied[h]: how often the HCM deducted it (history)
    hcmUsed,        \* hcmUsed[a]: the days the HCM counts as used
    hcmTotal,       \* hcmTotal[a]: the allotment of account a there
    snapshot        \* snapshot[s]: the figures sync s was answered, to write

local == <<account, requests, pc, task, copy, running, crashes>>
remote == <<call, outcome, applied, hcmUsed, hcmTotal>>
allVars == <<local, remote, snapshot>>

Hcm == INSTANCE HcmDeduction WITH
    Deductions <- Handlers,
    Requests <- {},
    HcmAccounts <- Accounts,
    used <- hcmUsed,
    total <- hcmTotal

SystemInit ==
    /\ Init
    /\ Hcm!Init
    /\ snapshot = [s \in Syncs |-> NoSnapshot]

-----------------------------------------------------------------------------
\* notifyLeaveApproval of a linked employee; the deduct call names no location.
NotifyHcm(h) ==
    /\ Notify(h)
    /\ IF pc'[h] = "in_flight"
       THEN Hcm!Ask(h, [account |-> copy[h].account, days |-> copy[h].days])
       ELSE UNCHANGED remote
    /\ UNCHANGED snapshot

\* Mutant of HcmResolves: a rejection is taken for a success.
HcmResolvesAnyway(h) ==
    /\ HcmAnswers(h)
    /\ pc'[h] = "mark_synced"
    /\ Hcm!Confirm(h) \/ Hcm!Fail(h)
    /\ UNCHANGED snapshot

\* deductBalance resolves.
HcmResolves(h) ==
    /\ HcmAnswers(h)
    /\ pc'[h] = "mark_synced"
    /\ Hcm!Confirm(h)
    /\ UNCHANGED snapshot

\* deductBalance rejects, its attempts spent or one refused.
HcmRejects(h) ==
    /\ HcmAnswers(h)
    /\ pc'[h] = "mark_failed"
    /\ Hcm!Fail(h)
    /\ UNCHANGED snapshot

\* An attempt of approval h reaches the HCM, perhaps long after.
HcmDeducts(h) == Hcm!Apply(h) /\ UNCHANGED <<local, snapshot>>

\* The HCM refreshes an allotment, which nobody hears of before a sync.
HcmRefreshes ==
    \E a \in Accounts, bonus \in Bonuses :
        /\ hcmTotal[a] + bonus <= MaxTotal
        /\ Hcm!Refresh(a, bonus)
        /\ UNCHANGED <<local, snapshot>>

\* The steps of a handler that do not touch the HCM.
LocalStep(h) ==
    /\ \/ Validate(h)
       \/ CheckKey(h)
       \/ CheckOverlap(h)
       \/ Reserve(h)
       \/ Insert(h)
       \/ Find(h)
       \/ Settle(h)
       \/ SaveVerdict(h)
       \/ LedgerFails(h)
       \/ MarkSyncing(h)
       \/ MarkSynced(h)
       \/ MarkFailed(h)
    /\ UNCHANGED <<remote, snapshot>>

StepOf(h) == LocalStep(h) \/ NotifyHcm(h) \/ HcmResolves(h) \/ HcmRejects(h)

StartOf(h) == Start(h) /\ UNCHANGED <<remote, snapshot>>

-----------------------------------------------------------------------------
(* The inbound sync.                                                       *)

\* The HCM answers a sync with its books as they are; a retry reads anew.
SyncReads(s) ==
    /\ snapshot' = [snapshot EXCEPT ![s] =
                    [a \in Accounts |-> [total |-> hcmTotal[a], used |-> hcmUsed[a]]]]
    /\ UNCHANGED <<local, remote>>

\* Mutant of SyncWrites: the HCM's figures replace the pending days too.
SyncWritesPending(s) ==
    /\ Interleaved \/ running = Nobody
    /\ snapshot[s] # NoSnapshot
    /\ account' = [a \in Accounts |->
                    [total |-> snapshot[s][a].total, used |-> snapshot[s][a].used, pending |-> 0]]
    /\ snapshot' = [snapshot EXCEPT ![s] = NoSnapshot]
    /\ UNCHANGED <<requests, pc, task, copy, running, crashes, remote>>

\* syncFromHcm of every account, in one turn.
SyncWrites(s) ==
    /\ Interleaved \/ running = Nobody
    /\ snapshot[s] # NoSnapshot
    /\ account' = [a \in Accounts |->
                    Updated(account[a], [kind |-> "sync", hcm |-> snapshot[s][a]])]
    /\ snapshot' = [snapshot EXCEPT ![s] = NoSnapshot]
    /\ UNCHANGED <<requests, pc, task, copy, running, crashes, remote>>

SystemNext ==
    \/ \E h \in Handlers : StartOf(h) \/ StepOf(h) \/ HcmDeducts(h)
    \/ HcmRefreshes
    \/ \E s \in Syncs : SyncReads(s) \/ SyncWrites(s)

SystemSpec == SystemInit /\ [][SystemNext]_allVars

\* The event loop runs what is ready, the driver settles every query, and an
\* HTTP call to the HCM ends by answer or timeout.  The HCM and the syncs
\* promise nothing.
FairSystemSpec == SystemSpec /\ \A h \in Handlers : WF_allVars(StepOf(h))

-----------------------------------------------------------------------------
Approvals(r) ==
    {h \in Handlers : task[h].kind = "approve" /\ task[h].request = r}

\* The days of the APPROVED requests of an account the HCM never deducted.
Undeducted(a) ==
    SumFunction([r \in Handlers |->
                    IF \E h \in Approvals(r) : applied[h] > 0 THEN 0
                    ELSE Share(requests[r], a, "APPROVED")])

\* What is marked SYNCED was deducted: however an approval's answer, its late
\* attempts, a cancel and a sync fall, the mark is never there without the
\* deduction (docs/TRD.md:193, "HCM sync status tracked per request").
SyncedWasDeducted ==
    \A r \in Handlers :
        requests[r] # NoRequest /\ requests[r].sync = "SYNCED"
            /\ requests[r].employee \in Linked
        => \E h \in Approvals(r) : applied[h] > 0

\* Every day that an account counts as used was deducted at the HCM, or is of
\* an approved request that the HCM has not been told of yet or refused:
\* an employee is never short of days that neither side can account for, not
\* after a sync with older figures, a deduction that arrives late, or a cancel.
\* (docs/TRD.md:206, "Batch sync corrects any drift periodically").
UsedDaysAccounted ==
    Quiescent =>
        \A a \in Accounts : account[a].used <= hcmUsed[a] + Undeducted(a)

\* When all calls have ended, the days of a cancelled request are not counted
\* as used (docs/TRD.md:328, "Cancellation of approved leave -> Used days
\* restored to available").
CancelledDaysReturn ==
    (\A h \in Handlers : pc[h] \in Ended \cup {"start"}) =>
        \A a \in Accounts : account[a].used <= DaysIn(a, "APPROVED")
=============================================================================
