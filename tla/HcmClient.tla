------------------------------ MODULE HcmClient ------------------------------
(***************************************************************************)
(* The outbound call of an approved leave request: deductBalance of        *)
(* src/modules/hcm-sync/hcm-client.service.js under retryWithBackoff and   *)
(* isRetryableError of src/common/utils/retry.utils.js, the network, and   *)
(* the deduct and refresh endpoints of mock-hcm/server.js.                 *)
(*                                                                         *)
(* An attempt is an HTTP request with an HTTP answer.  The server may sit  *)
(* on it for longer than the client waits (HCM_DELAY_MS and HCM_TIMEOUT_MS *)
(* are configured apart), fail before it applies it, or apply it; its      *)
(* answer may get lost.  The client hears only the answer to the attempt   *)
(* it is waiting for.                                                      *)
(***************************************************************************)
EXTENDS Integers, FiniteSetsExt

CONSTANTS
    Deductions,     \* calls of deductBalance, one per approved request
    HcmAccounts,    \* (HCM employee, leaveType) pairs the HCM knows
    AccountOf,      \* AccountOf[d]: what deduction d names; may be unknown
    DaysOf,         \* DaysOf[d]: the days it deducts
    HcmTotals,      \* HcmTotals[a]: the allotment account a has first
    Bonuses,        \* additionalDays of a refresh
    MaxTotal,       \* bound on the allotments refreshes lead to
    maxRetries      \* HCM_MAX_RETRIES

ASSUME DeductionsAssumption == IsFiniteSet(Deductions)
ASSUME DaysOfAssumption == DaysOf \in [Deductions -> Nat \ {0}]
ASSUME HcmTotalsAssumption == HcmTotals \in [HcmAccounts -> Nat]
ASSUME BonusesAssumption == Bonuses \subseteq Nat
ASSUME MaxRetriesAssumption == maxRetries \in Nat

VARIABLES
    pc,             \* pc[d]: "idle", "backoff", "waiting", or how it ended
    attempt,        \* attempt[d]: attempts made so far
    processing,     \* attempts <<d, n>> the server has not handled yet
    answer,         \* answer[d]: the answer on its way to the last attempt
    used,           \* used[a]: the days the HCM counts as used
    total,          \* total[a]: the allotment of account a
    applied         \* applied[d]: how often the HCM deducted d (history)

vars == <<pc, attempt, processing, answer, used, total, applied>>

Attempts == Deductions \X (1..maxRetries + 1)

Init ==
    /\ pc = [d \in Deductions |-> "idle"]
    /\ attempt = [d \in Deductions |-> 0]
    /\ processing = {}
    /\ answer = [d \in Deductions |-> "none"]
    /\ used = [a \in HcmAccounts |-> 0]
    /\ total = HcmTotals
    /\ applied = [d \in Deductions |-> 0]

-----------------------------------------------------------------------------
(* The client.                                                             *)

\* One run of fn inside the loop: POST /balance/deduct.
Post(d) ==
    /\ pc[d] \in {"idle", "backoff"}
    /\ pc' = [pc EXCEPT ![d] = "waiting"]
    /\ attempt' = [attempt EXCEPT ![d] = @ + 1]
    /\ processing' = processing \cup {<<d, attempt[d] + 1>>}
    /\ answer' = [answer EXCEPT ![d] = "none"]
    /\ UNCHANGED <<used, total, applied>>

\* Mutant of AfterError: one retry too many.
AfterErrorOnceMore(d, retryable) ==
    IF attempt[d] > maxRetries + 1 \/ ~ retryable THEN "failed" ELSE "backoff"

\* attempt > maxRetries || !shouldRetry(error): thrown; else slept upon.
AfterError(d, retryable) ==
    IF attempt[d] > maxRetries \/ ~ retryable THEN "failed" ELSE "backoff"

\* Mutant of Succeed: any answer is taken for a success.
SucceedUnvalidated(d) ==
    /\ pc[d] = "waiting"
    /\ answer[d] # "none"
    /\ pc' = [pc EXCEPT ![d] = "confirmed"]
    /\ UNCHANGED <<attempt, processing, answer, used, total, applied>>

\* A validated answer with success; deductBalance resolves.
Succeed(d) ==
    /\ pc[d] = "waiting"
    /\ answer[d] = "ok"
    /\ pc' = [pc EXCEPT ![d] = "confirmed"]
    /\ UNCHANGED <<attempt, processing, answer, used, total, applied>>

\* Mutant of HearError: no error answer is retried.
HearErrorFinal(d) ==
    /\ pc[d] = "waiting"
    /\ answer[d] \in {"client_error", "server_error"}
    /\ pc' = [pc EXCEPT ![d] = AfterError(d, FALSE)]
    /\ UNCHANGED <<attempt, processing, answer, used, total, applied>>

\* 4xx is final; 5xx, 429, an empty body or an error in it is retried.
HearError(d) ==
    /\ pc[d] = "waiting"
    /\ answer[d] \in {"client_error", "server_error"}
    /\ pc' = [pc EXCEPT ![d] = AfterError(d, answer[d] = "server_error")]
    /\ UNCHANGED <<attempt, processing, answer, used, total, applied>>

\* Mutant of HearNothing: no timeout while the server keeps silent.
HearNothingAnswered(d) ==
    /\ pc[d] = "waiting"
    /\ answer[d] # "none"
    /\ pc' = [pc EXCEPT ![d] = AfterError(d, TRUE)]
    /\ UNCHANGED <<attempt, processing, answer, used, total, applied>>

\* Mutant of HearNothing: a timer fires for a call that has failed already.
HearNothingLate(d) ==
    /\ pc[d] \in {"waiting", "failed"}
    /\ pc' = [pc EXCEPT ![d] = AfterError(d, TRUE)]
    /\ UNCHANGED <<attempt, processing, answer, used, total, applied>>

\* No response: the axios timeout, a dropped connection, an answer lost.
HearNothing(d) ==
    /\ pc[d] = "waiting"
    /\ pc' = [pc EXCEPT ![d] = AfterError(d, TRUE)]
    /\ UNCHANGED <<attempt, processing, answer, used, total, applied>>

-----------------------------------------------------------------------------
(* The HCM.                                                                *)

\* The answer reaches the client only if it still waits for this attempt.
Respond(d, n, a) ==
    /\ processing' = processing \ {<<d, n>>}
    /\ answer' = [answer EXCEPT ![d] =
                    IF pc[d] = "waiting" /\ attempt[d] = n THEN a ELSE @]

\* simulateUnreliability, before the handler: 500, 503, or a dropped
\* connection, which the client hears as nothing.
ServerFails(d, n) ==
    /\ <<d, n>> \in processing
    /\ \E a \in {"server_error", "none"} : Respond(d, n, a)
    /\ UNCHANGED <<pc, attempt, used, total, applied>>

\* The checks of the handler: unknown employee or leave type, too few days.
Deductible(d) ==
    /\ AccountOf[d] \in HcmAccounts
    /\ total[AccountOf[d]] - used[AccountOf[d]] >= DaysOf[d]

ServerRefuses(d, n) ==
    /\ <<d, n>> \in processing
    /\ ~ Deductible(d)
    /\ Respond(d, n, "client_error")
    /\ UNCHANGED <<pc, attempt, used, total, applied>>

\* Mutant of ServerDeducts: the message stays and is handled again.
ServerDeductsAgain(d, n) ==
    /\ <<d, n>> \in processing
    /\ Deductible(d)
    /\ used' = [used EXCEPT ![AccountOf[d]] = @ + DaysOf[d]]
    /\ applied' = [applied EXCEPT ![d] = @ + 1]
    /\ answer' = [answer EXCEPT ![d] =
                    IF pc[d] = "waiting" /\ attempt[d] = n THEN "ok" ELSE @]
    /\ UNCHANGED <<pc, attempt, processing, total>>

\* The deduction; referenceId is only echoed.
ServerDeducts(d, n) ==
    /\ <<d, n>> \in processing
    /\ Deductible(d)
    /\ used' = [used EXCEPT ![AccountOf[d]] = @ + DaysOf[d]]
    /\ applied' = [applied EXCEPT ![d] = @ + 1]
    /\ Respond(d, n, "ok")
    /\ UNCHANGED <<pc, attempt, total>>

\* POST /balance/refresh, by whoever runs the HCM; one whose account is
\* unknown changes nothing and is left out.
Refresh(a, bonus) ==
    /\ total[a] + bonus <= MaxTotal
    /\ total' = [total EXCEPT ![a] = @ + bonus]
    /\ UNCHANGED <<pc, attempt, processing, answer, used, applied>>

Client(d) == Post(d) \/ Succeed(d) \/ HearError(d) \/ HearNothing(d)

Server ==
    \E m \in processing :
        \/ ServerFails(m[1], m[2])
        \/ ServerRefuses(m[1], m[2])
        \/ ServerDeducts(m[1], m[2])

Next ==
    \/ Server
    \/ \E d \in Deductions : Client(d)
    \/ \E a \in HcmAccounts, bonus \in Bonuses : Refresh(a, bonus)

Spec == Init /\ [][Next]_vars

\* The event loop runs a call that was made, its backoff timer fires, and an
\* attempt is answered or times out.  The server promises nothing.
FairSpec == Spec /\ \A d \in Deductions : WF_vars(Client(d))

-----------------------------------------------------------------------------
\* What the caller of deductBalance sees of a call.
OutcomeOf(place) ==
    CASE place = "idle" -> "none"
      [] place \in {"waiting", "backoff"} -> "asked"
      [] OTHER -> place

RequestOf(d) == [account |-> AccountOf[d], days |-> DaysOf[d]]

Deduction == INSTANCE HcmDeduction WITH
    Requests <- {RequestOf(d) : d \in Deductions},
    MaxAttempts <- maxRetries + 1,
    call <- [d \in Deductions |-> IF pc[d] = "idle" THEN [days |-> 0] ELSE RequestOf(d)],
    outcome <- [d \in Deductions |-> OutcomeOf(pc[d])]

-----------------------------------------------------------------------------
\* Types of the variables.
TypeOK ==
    /\ pc \in [Deductions -> {"idle", "waiting", "backoff", "confirmed", "failed"}]
    /\ attempt \in [Deductions -> 0..maxRetries + 1]
    /\ processing \subseteq Attempts
    /\ answer \in [Deductions -> {"none", "ok", "client_error", "server_error"}]
    /\ used \in [HcmAccounts -> Nat]
    /\ total \in [HcmAccounts -> Nat]
    /\ applied \in [Deductions -> 0..maxRetries + 1]

\* What is reported SYNCED was deducted at the HCM at least once: an error
\* answer, a lost one, or one that came after the attempt's timeout is never
\* taken for a success.
ConfirmedWasDeducted ==
    \A d \in Deductions : pc[d] = "confirmed" => applied[d] >= 1

\* Attempts of one deduction that cross in the network deduct at most once
\* each, whatever was lost, late or answered twice, and the HCM counts
\* nothing else as used.
DeductedPerAttempt ==
    /\ \A d \in Deductions :
        applied[d] + Cardinality({n \in 1..maxRetries + 1 : <<d, n>> \in processing})
            <= attempt[d]
    /\ \A a \in HcmAccounts :
        used[a] = SumFunction([d \in Deductions |->
                                IF AccountOf[d] = a THEN applied[d] * DaysOf[d] ELSE 0])

\* Nothing but a client error ends a deduction before its retries have run
\* out: server errors, silence and late answers to earlier attempts are all
\* retried (docs/TRD.md:217-219; "HCM times out | Treat as retryable failure").
ClientErrorIsFinal ==
    \A d \in Deductions :
        /\ pc[d] = "failed" /\ attempt[d] <= maxRetries
        => answer[d] = "client_error"

\* Every call of deductBalance ends, also when the HCM never answers.
DeductionEnds ==
    \A d \in Deductions : pc[d] \in {"waiting", "backoff"} ~> pc[d] \in {"confirmed", "failed"}

\* The client, the network and the HCM's endpoint together keep the promise
\* that HcmDeduction states: attempts that cross, are lost or arrive after the
\* call has ended never show as more than deductions late or repeated
\* (hcm-client.service.js:48-72).
DeductionRefinement == Deduction!Spec

\* A deduction that the HCM confirmed is deducted once (docs/TRD.md:28,
\* "Prevent double-deduction of leave balances under concurrent requests").
ConfirmedOnce ==
    \A d \in Deductions : pc[d] = "confirmed" => applied[d] <= 1
=============================================================================
