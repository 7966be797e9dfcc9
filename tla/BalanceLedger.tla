---------------------------- MODULE BalanceLedger ----------------------------
(***************************************************************************)
(* What BalanceService promises its callers (docs/TRD.md sections 8 and 9):*)
(* a ledger of leave accounts on which every call takes effect atomically  *)
(* and at most once.  A call ends                                          *)
(*   "ok"            - its whole effect happened in one step;              *)
(*   "insufficient"  - a reservation, refused at an instant at which the   *)
(*                     account really had too few days available;          *)
(*   "failed"        - with no effect at all.                              *)
(* How the service reaches the rows of its table, and what happens between *)
(* its reads and its writes, is module BalanceService.                     *)
(***************************************************************************)
EXTENDS LeaveAccount

CONSTANTS
    Keys,           \* (employeeId, leaveType, locationId) triples
    Calls,          \* the calls made, each at most once
    Kinds,          \* the operations the callers use
    Days,           \* amounts of days a call may name
    HcmFigures,     \* [total, used] pairs the HCM may report
    SeededFigures   \* [total, used] pairs the seeded accounts may have

OperationKinds == {"reserve", "confirm", "release", "restore", "sync"}

\* Accounts as seeds/seed.js fills them.
Seeded ==
    {[total |-> f.total, used |-> f.used, pending |-> 0] : f \in SeededFigures}

Operations ==
    [kind : Kinds \ {"sync"}, key : Keys, days : Days]
        \cup [kind : Kinds \cap {"sync"}, key : Keys, hcm : HcmFigures]

NotCalled == [kind |-> "none"]

-----------------------------------------------------------------------------
VARIABLES
    account,    \* account[k]: the days of key k
    outcome,    \* outcome[c]: "idle", "called", or how call c ended
    op          \* op[c]: what call c asks for, once called

vars == <<account, outcome, op>>

Outcomes == {"idle", "called", "ok", "insufficient", "failed"}

Init ==
    /\ account \in [Keys -> {ZeroAccount} \cup Seeded]
    /\ outcome = [c \in Calls |-> "idle"]
    /\ op = [c \in Calls |-> NotCalled]

Invoke(c, o) ==
    /\ outcome[c] = "idle"
    /\ outcome' = [outcome EXCEPT ![c] = "called"]
    /\ op' = [op EXCEPT ![c] = o]
    /\ UNCHANGED account

Apply(c) ==
    /\ outcome[c] = "called"
    /\ ~ Refused(account[op[c].key], op[c])
    /\ account' = [account EXCEPT ![op[c].key] = Updated(@, op[c])]
    /\ outcome' = [outcome EXCEPT ![c] = "ok"]
    /\ UNCHANGED op

Refuse(c) ==
    /\ outcome[c] = "called"
    /\ Refused(account[op[c].key], op[c])
    /\ outcome' = [outcome EXCEPT ![c] = "insufficient"]
    /\ UNCHANGED <<account, op>>

Fail(c) ==
    /\ outcome[c] = "called"
    /\ outcome' = [outcome EXCEPT ![c] = "failed"]
    /\ UNCHANGED <<account, op>>

Next ==
    \E c \in Calls :
        \/ \E o \in Operations : Invoke(c, o)
        \/ Apply(c)
        \/ Refuse(c)
        \/ Fail(c)

Spec == Init /\ [][Next]_vars
=============================================================================
