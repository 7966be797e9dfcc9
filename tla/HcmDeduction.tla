---------------------------- MODULE HcmDeduction ----------------------------
(***************************************************************************)
(* What deductBalance promises its caller, and no more: a call that was    *)
(* made is applied by the HCM any number of times up to MaxAttempts, early *)
(* or late, also after the caller has given up; it is confirmed only if it *)
(* was applied, and it may fail although it was.  HcmClient implements     *)
(* this; HcmReconciliation builds on it.                                   *)
(***************************************************************************)
EXTENDS Integers

CONSTANTS
    Deductions,     \* calls of deductBalance
    Requests,       \* [account, days] a call may name
    HcmAccounts,    \* the accounts the HCM knows
    HcmTotals,      \* HcmTotals[a]: the allotment account a has first
    Bonuses,        \* the days a refresh may add to an allotment
    MaxAttempts     \* how often a call may reach the HCM

VARIABLES
    call,           \* call[d]: the account and the days it names, or NoCall
    outcome,        \* outcome[d]: what the caller knows of it
    applied,        \* applied[d]: how often the HCM deducted it
    used,           \* used[a]: the days the HCM counts as used
    total           \* total[a]: the allotment of account a

vars == <<call, outcome, applied, used, total>>

NoCall == [days |-> 0]

Init ==
    /\ call = [d \in Deductions |-> NoCall]
    /\ outcome = [d \in Deductions |-> "none"]
    /\ applied = [d \in Deductions |-> 0]
    /\ used = [a \in HcmAccounts |-> 0]
    /\ total = HcmTotals

Ask(d, request) ==
    /\ outcome[d] = "none"
    /\ outcome' = [outcome EXCEPT ![d] = "asked"]
    /\ call' = [call EXCEPT ![d] = request]
    /\ UNCHANGED <<applied, used, total>>

\* The HCM deducts what it has days for, and keeps no record of the call.
Apply(d) ==
    /\ outcome[d] # "none"
    /\ applied[d] < MaxAttempts
    /\ call[d].account \in HcmAccounts
    /\ total[call[d].account] - used[call[d].account] >= call[d].days
    /\ applied' = [applied EXCEPT ![d] = @ + 1]
    /\ used' = [used EXCEPT ![call[d].account] = @ + call[d].days]
    /\ UNCHANGED <<call, outcome, total>>

Confirm(d) ==
    /\ outcome[d] = "asked"
    /\ applied[d] > 0
    /\ outcome' = [outcome EXCEPT ![d] = "confirmed"]
    /\ UNCHANGED <<call, applied, used, total>>

Fail(d) ==
    /\ outcome[d] = "asked"
    /\ outcome' = [outcome EXCEPT ![d] = "failed"]
    /\ UNCHANGED <<call, applied, used, total>>

\* An anniversary or a new year: the HCM allots more days, and tells nobody.
Refresh(a, bonus) ==
    /\ total' = [total EXCEPT ![a] = @ + bonus]
    /\ UNCHANGED <<call, outcome, applied, used>>

Next ==
    \/ \E d \in Deductions :
        \/ \E request \in Requests : Ask(d, request)
        \/ Apply(d)
        \/ Confirm(d)
        \/ Fail(d)
    \/ \E a \in HcmAccounts, bonus \in Bonuses : Refresh(a, bonus)

Spec == Init /\ [][Next]_vars
=============================================================================
