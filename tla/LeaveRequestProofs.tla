------------------------- MODULE LeaveRequestProofs -------------------------
(***************************************************************************)
(* Theorems about LeaveRequestService as it is deployed: one handler at a  *)
(* time keeps the event loop until it waits for the HCM or ends.  They     *)
(* hold for every set of handlers, submissions, accounts, dates and linked *)
(* employees, with restarts.                                               *)
(*                                                                         *)
(* The argument is that of a critical section.  Whoever is under way is    *)
(* alone; so what create has checked is still so when it inserts, and the  *)
(* object that a review holds is the row as it is when it is saved.  An    *)
(* approval that waits for the HCM is outside of its section: the object   *)
(* it saves afterwards is of the same request, but the request may have    *)
(* been cancelled since, and what holds of the others need not hold of     *)
(* such a one.  A restart in the middle of a turn tears one request from   *)
(* its account, by its days at most.  That a request costs its weekdays    *)
(* does not rest on the turns.                                             *)
(***************************************************************************)
EXTENDS LeaveRequestService, FiniteSums, TLAPS

OneTurn == Interleaved = FALSE

\* Where a create stands, and where a review; from when it holds an object,
\* and from when an approval has waited for the HCM with it.
Creating == {"validate", "check_key", "check_overlap", "reserve", "insert"}
Marking == {"mark_syncing", "notify"}
Late == {"in_flight", "mark_synced", "mark_failed"}
Holding == {"settle", "save"} \cup Marking
Reviewing == {"find"} \cup Holding \cup Late
Places == Creating \cup Reviewing \cup Ended \cup {"start"}

Reviews == {"approve", "reject", "cancel"}

Types ==
    /\ account \in [Accounts -> Account]
    /\ requests \in [Handlers -> Requests \cup {NoRequest}]
    /\ pc \in [Handlers -> Places]
    /\ task \in [Handlers -> Tasks]
    /\ copy \in [Handlers -> Requests \cup {NoRequest}]
    /\ running \in Handlers \cup {Nobody}
    /\ crashes \in 0..MaxCrashes

\* Whoever is under way has the loop.
Turn == \A h \in Handlers : pc[h] \notin Idle <=> running = h

\* Row c is of the claim that row r is of.
SameClaim(c, r) ==
    /\ c \in Requests
    /\ c.employee = r.employee /\ c.first = r.first /\ c.last = r.last
    /\ c.account = r.account /\ c.days = r.days

Decided == {"APPROVED", "CANCELLED"}

\* What a handler under way has checked, and what it holds; an approval that
\* waits or has waited for the HCM holds the request as it approved it.
Local(h) ==
    /\ pc[h] \in Creating => task[h].kind = "create"
    /\ pc[h] \in Creating \ {"validate"} => DaysOf(task[h].body) \in 1..MaxDays
    /\ pc[h] \in {"check_overlap", "reserve", "insert"} => SameKey(task[h].body) = {}
    /\ pc[h] \in {"reserve", "insert"} => Overlapping(task[h].body) = {}
    /\ pc[h] \in Reviewing => task[h].kind \in Reviews
    /\ pc[h] \in Holding => /\ copy[h] \in Requests
                            /\ copy[h] = requests[task[h].request]
    /\ pc[h] \in {"settle", "save"} => MayReview(task[h].kind, copy[h].status)
    /\ pc[h] \in Marking \cup Late => task[h].kind = "approve" /\ copy[h].status = "APPROVED"
    /\ pc[h] = "mark_syncing" => copy[h].attempts = 0
    /\ pc[h] \in Late =>
            /\ copy[h] \in Requests
            /\ SameClaim(requests[task[h].request], copy[h])
            /\ requests[task[h].request].status \in Decided

\* The rows: whose sync has been tried, who has made none yet, and which were
\* cancelled.
Rows ==
    /\ \A r \in Handlers : requests[r].status = "PENDING" => requests[r].attempts = 0
    /\ \A h \in Handlers : pc[h] \in Creating \cup {"start"} => requests[h] = NoRequest
    /\ \A r \in Handlers : requests[r].status = "CANCELLED" => Withdrawn(r)
    /\ \A r \in Handlers : Withdrawn(r) => requests[r].status \in Decided

IInv ==
    /\ Types
    /\ Turn
    /\ \A h \in Handlers : Local(h)
    /\ Rows
    /\ NoDoubleBooking

-----------------------------------------------------------------------------
(* The operators the service is built from.                                *)

\* NoRequest is no row.
LEMMA NoRequestIsNone == NoRequest \notin Requests
<1> SUFFICES ASSUME NoRequest \in Requests PROVE FALSE
    OBVIOUS
<1>1. NoRequest.status \in {"PENDING", "APPROVED", "REJECTED", "CANCELLED"}
    BY DEF Requests
<1> QED
    BY <1>1 DEF NoRequest

\* What create inserts is a row of its submission.
LEMMA NewRequestIsRow ==
    ASSUME NEW s \in Submissions, DaysOf(s) \in 1..MaxDays
    PROVE  /\ NewRequest(s) \in Requests
           /\ NewRequest(s).status = "PENDING" /\ NewRequest(s).attempts = 0
           /\ NewRequest(s).employee = s.employee
           /\ NewRequest(s).first = s.first /\ NewRequest(s).last = s.last
BY SubmissionsAssumption DEF NewRequest, Requests

\* A row with another status, or with another state of its sync, is a row of
\* the same claim.
LEMMA ReviewedRow ==
    ASSUME NEW r \in Requests,
           NEW status \in {"PENDING", "APPROVED", "REJECTED", "CANCELLED"}
    PROVE  SameClaim([r EXCEPT !.status = status], r)
BY DEF SameClaim, Requests

LEMMA SyncingRow ==
    ASSUME NEW r \in Requests, NEW attempts \in 0..1
    PROVE  SameClaim([r EXCEPT !.sync = "SYNCING", !.attempts = attempts], r)
<1> DEFINE c == [r EXCEPT !.sync = "SYNCING", !.attempts = attempts]
<1>1. c \in Requests
    BY DEF Requests
<1>2. /\ c.employee = r.employee /\ c.first = r.first /\ c.last = r.last
      /\ c.account = r.account /\ c.days = r.days
    BY DEF Requests
<1> QED
    BY <1>1, <1>2 DEF SameClaim

LEMMA MarkedRow ==
    ASSUME NEW r \in Requests, NEW mark \in {"SYNCED", "FAILED"}
    PROVE  SameClaim([r EXCEPT !.sync = mark], r)
BY DEF SameClaim, Requests

\* Dates of rows and of submissions are day numbers.
LEMMA Dates ==
    /\ \A s \in Submissions : s.first \in Int /\ s.last \in Int /\ s.account \in Accounts
    /\ \A r \in Requests : r.first \in Int /\ r.last \in Int /\ r.account \in Accounts
                            /\ r.days \in Nat
BY SubmissionsAssumption, MaxDaysAssumption DEF Requests

\* The ledger's operations on days keep an account an account.
LEMMA ChargedIsAccount ==
    ASSUME NEW a \in Account, NEW days \in Nat,
           NEW kind \in {"reserve", "confirm", "release", "restore"}
    PROVE  Updated(a, [kind |-> kind, days |-> days]) \in Account
<1> DEFINE o == [kind |-> kind, days |-> days]
<1>1. o.kind = kind /\ o.days = days
    OBVIOUS
<1>2. \A x \in Int : AtLeastZero(x) \in Nat
    BY DEF AtLeastZero
<1>3. a.total \in Nat /\ a.used \in Nat /\ a.pending \in Nat
    BY DEF Account
<1>4. /\ AtLeastZero(a.pending - days) \in Nat /\ AtLeastZero(a.used - days) \in Nat
      /\ a.pending + days \in Nat /\ a.used + days \in Nat
    BY <1>2, <1>3
<1> HIDE DEF o
<1>5. CASE kind = "reserve"
    BY <1>1, <1>4, <1>5 DEF Updated, Account
<1>6. CASE kind = "confirm"
    BY <1>1, <1>4, <1>6 DEF Updated, Account
<1>7. CASE kind = "release"
    BY <1>1, <1>4, <1>7 DEF Updated, Account
<1>8. CASE kind = "restore"
    BY <1>1, <1>4, <1>8 DEF Updated, Account
<1> QED
    BY <1>5, <1>6, <1>7, <1>8 DEF o

\* A charge of days leaves all accounts accounts.
LEMMA ChargeTypes ==
    ASSUME account \in [Accounts -> Account], NEW a \in Accounts, NEW days \in Nat,
           NEW kind \in {"reserve", "confirm", "release", "restore"}, Charge(a, kind, days)
    PROVE  account' \in [Accounts -> Account]
BY ChargedIsAccount DEF Charge

\* What reviews ask of the ledger and leave behind.
LEMMA ReviewOutcome ==
    ASSUME NEW kind \in Reviews,
           NEW status \in {"PENDING", "APPROVED", "REJECTED", "CANCELLED"}
    PROVE  /\ MayReview(kind, status) => status \in {"PENDING", "APPROVED"}
           /\ MayReview(kind, status) /\ kind # "cancel" => status = "PENDING"
           /\ Settlement(kind, status) \in {"reserve", "confirm", "release", "restore"}
           /\ Verdict(kind) \in {"APPROVED", "REJECTED", "CANCELLED"}
           /\ kind = "approve" <=> Verdict(kind) = "APPROVED"
           /\ kind = "cancel" <=> Verdict(kind) = "CANCELLED"
BY DEF Reviews, MayReview, Settlement, Verdict

-----------------------------------------------------------------------------
(* Turns.                                                                  *)

\* The step of a handler at a place finds everybody else idle and leaves them
\* so; it keeps the loop exactly if it is still under way.
LEMMA TurnTaken ==
    ASSUME OneTurn, Types, Turn, NEW h \in Handlers, NEW p \in Places,
           NEW q \in Places, At(h, q), Goto(h, p)
    PROVE  /\ pc' \in [Handlers -> Places] /\ running' \in Handlers \cup {Nobody}
           /\ Turn'
           /\ pc[h] = q /\ pc'[h] = p
           /\ \A g \in Handlers : g # h => pc[g] \in Idle /\ pc'[g] = pc[g]
<1>1. running \in {Nobody, h} /\ pc[h] = q
    BY DEF OneTurn, At, MayRun
<1>2. running' = IF p \in Idle THEN Nobody ELSE h
    BY DEF OneTurn, Goto
<1>3. pc' = [pc EXCEPT ![h] = p]
    BY DEF Goto
<1>4. \A g \in Handlers : g # h => pc[g] \in Idle /\ pc'[g] = pc[g]
    BY <1>1, <1>3, NobodyAssumption DEF Types, Turn
<1>5. pc' \in [Handlers -> Places] /\ pc'[h] = p
    BY <1>3 DEF Types
<1>6. Turn'
    BY <1>2, <1>4, <1>5, NobodyAssumption DEF Turn
<1> QED
    BY <1>1, <1>2, <1>4, <1>5, <1>6

\* The row of request r stays what an approval that waits relies on.
Relied(r) ==
    requests[r].status \in Decided =>
        requests'[r].status \in Decided /\ SameClaim(requests'[r], requests[r])

\* Whoever is idle has nothing to lose but, if it waits, its request.
LEMMA OtherIsLocal ==
    ASSUME IInv, NEW g \in Handlers, pc[g] \in Idle,
           pc'[g] = pc[g], task'[g] = task[g], copy'[g] = copy[g],
           \A r \in Handlers : Relied(r)
    PROVE  Local(g)'
<1>1. Local(g)
    BY DEF IInv
<1>2. CASE pc[g] = "in_flight"
    <2>1. /\ task[g].kind = "approve" /\ copy[g].status = "APPROVED" /\ copy[g] \in Requests
          /\ SameClaim(requests[task[g].request], copy[g])
          /\ requests[task[g].request].status \in Decided
        BY <1>1, <1>2 DEF Local, Late
    <2>2. task[g].request \in Handlers
        BY <2>1 DEF IInv, Types, Tasks, NoTask
    <2>3. /\ SameClaim(requests'[task[g].request], copy[g])
          /\ requests'[task[g].request].status \in Decided
        BY <2>1, <2>2 DEF Relied, SameClaim
    <2> QED
        BY <1>2, <2>1, <2>3 DEF Local, Creating, Reviewing, Reviews, Holding, Marking, Late
<1>3. CASE pc[g] # "in_flight"
    BY <1>3 DEF Local, Idle, Ended, Creating, Holding, Marking, Late, Reviewing
<1> QED
    BY <1>2, <1>3

\* Rows that stay are relied on as before.
LEMMA UntouchedRelied ==
    ASSUME Types, NEW r \in Handlers, requests'[r] = requests[r] PROVE Relied(r)
<1>1. requests[r].status \in Decided => requests[r] \in Requests
    BY DEF Types, NoRequest, Decided
<1> QED
    BY <1>1 DEF Relied, SameClaim

\* A step answers a cancellation only if it takes a cancel to its end.
LEMMA SameCancellations ==
    ASSUME NEW h \in Handlers, pc[h] # "replied",
           \A g \in Handlers \ {h} : pc'[g] = pc[g] /\ task'[g] = task[g],
           pc'[h] = "replied" => task'[h].kind # "cancel"
    PROVE  Cancellations' = Cancellations /\ \A r : Withdrawn(r)' <=> Withdrawn(r)
<1>1. \A g \in Handlers : g \in Cancellations' <=> g \in Cancellations
    BY DEF Cancellations
<1>2. Cancellations' = Cancellations
    BY <1>1 DEF Cancellations
<1>3. \A g \in Cancellations : task'[g].request = task[g].request
    BY DEF Cancellations
<1> QED
    BY <1>2, <1>3 DEF Withdrawn

\* A step that leaves the rows alone keeps the invariant if it keeps the
\* types and what the handler has checked and holds.
LEMMA QuietStep ==
    ASSUME OneTurn, IInv, NEW h \in Handlers, NEW p \in Places, NEW q \in Places,
           At(h, q), Goto(h, p), UNCHANGED <<requests, crashes>>,
           q # "replied", p = "replied" => task'[h].kind # "cancel",
           q \notin Creating \cup {"start"} => p \notin Creating \cup {"start"},
           account' \in [Accounts -> Account],
           task' \in [Handlers -> Tasks],
           copy' \in [Handlers -> Requests \cup {NoRequest}],
           \A g \in Handlers \ {h} : task'[g] = task[g] /\ copy'[g] = copy[g],
           Local(h)'
    PROVE  IInv'
<1>1. /\ pc' \in [Handlers -> Places] /\ running' \in Handlers \cup {Nobody}
      /\ Turn'
      /\ pc[h] = q /\ pc'[h] = p
      /\ \A g \in Handlers : g # h => pc[g] \in Idle /\ pc'[g] = pc[g]
    BY TurnTaken DEF IInv
<1>2. Types'
    BY <1>1 DEF IInv, Types
<1>3. ASSUME NEW g \in Handlers PROVE Local(g)'
    <2>1. CASE g # h
        BY <1>1, <2>1, UntouchedRelied, OtherIsLocal DEF IInv
    <2> QED
        BY <2>1
<1>4. \A r : Withdrawn(r)' <=> Withdrawn(r)
    BY <1>1, SameCancellations
<1>5. Rows'
    BY <1>1, <1>4 DEF IInv, Rows
<1>6. NoDoubleBooking'
    BY <1>4 DEF IInv, NoDoubleBooking, Active
<1> QED
    BY <1>1, <1>2, <1>3, <1>5, <1>6 DEF IInv

-----------------------------------------------------------------------------
(* The steps of create.                                                    *)

LEMMA SubmitKeeps ==
    ASSUME OneTurn, IInv, NEW h \in Handlers, NEW s \in Submissions, Submit(h, s)
    PROVE  IInv'
<1>1. At(h, "start") /\ Goto(h, "validate") /\ UNCHANGED <<account, requests, copy, crashes>>
    BY DEF Submit
<1>2. /\ task' \in [Handlers -> Tasks] /\ task'[h].kind = "create" /\ task'[h].body = s
      /\ \A g \in Handlers \ {h} : task'[g] = task[g]
    BY DEF Submit, IInv, Types, Tasks
<1>3. pc'[h] = "validate"
    BY <1>1 DEF Goto, IInv, Types
<1>4. Local(h)'
    BY <1>2, <1>3 DEF Local, Creating, Reviewing, Holding, Marking, Late
<1> QED
    BY <1>1, <1>2, <1>4, QuietStep DEF IInv, Types, Places, Creating

LEMMA ValidateKeeps ==
    ASSUME OneTurn, IInv, NEW h \in Handlers, Validate(h) PROVE IInv'
<1>1. At(h, "validate") /\ UNCHANGED <<account, requests, task, copy, crashes>>
    BY DEF Validate
<1>2. pc[h] = "validate" /\ task[h].kind = "create"
    BY <1>1 DEF At, IInv, Local, Creating
<1>3. CASE Goto(h, "refused")
    <2>1. pc'[h] = "refused"
        BY <1>3 DEF Goto, IInv, Types
    <2>2. Local(h)'
        BY <2>1 DEF Local, Creating, Reviewing, Holding, Marking, Late
    <2> QED
        BY <1>1, <1>3, <2>2, QuietStep DEF IInv, Types, Places, Creating, Ended
<1>4. CASE ValidDateRange(task[h].body.first, task[h].body.last) /\ Goto(h, "check_key")
    <2>1. pc'[h] = "check_key"
        BY <1>4 DEF Goto, IInv, Types
    <2>2. DaysOf(task[h].body) \in 1..MaxDays
        BY <1>4 DEF ValidDateRange, DaysOf
    <2>3. Local(h)'
        BY <1>1, <1>2, <2>1, <2>2 DEF Local, Creating, Reviewing, Holding, Marking, Late
    <2> QED
        BY <1>1, <1>4, <2>3, QuietStep DEF IInv, Types, Places, Creating
<1> QED
    BY <1>3, <1>4 DEF Validate

LEMMA CheckKeyKeeps ==
    ASSUME OneTurn, IInv, NEW h \in Handlers, CheckKey(h) PROVE IInv'
<1>1. At(h, "check_key") /\ UNCHANGED <<account, requests, task, crashes>>
    BY DEF CheckKey
<1>2. pc[h] = "check_key" /\ task[h].kind = "create" /\ DaysOf(task[h].body) \in 1..MaxDays
    BY <1>1 DEF At, IInv, Local, Creating
<1>3. CASE SameKey(task[h].body) = {}
    <2>1. Goto(h, "check_overlap") /\ UNCHANGED copy
        BY <1>3 DEF CheckKey
    <2>2. pc'[h] = "check_overlap"
        BY <2>1 DEF Goto, IInv, Types
    <2>3. SameKey(task[h].body)' = SameKey(task[h].body)
        BY <1>1 DEF SameKey
    <2>4. Local(h)'
        BY <1>1, <1>2, <1>3, <2>2, <2>3 DEF Local, Creating, Reviewing, Holding, Marking, Late
    <2> QED
        BY <1>1, <2>1, <2>4, QuietStep DEF IInv, Types, Places, Creating
<1>4. CASE SameKey(task[h].body) # {}
    <2> DEFINE r == CHOOSE r \in SameKey(task[h].body) : TRUE
    <2>1. Goto(h, "replied") /\ copy' = [copy EXCEPT ![h] = requests[r]]
        BY <1>4 DEF CheckKey
    <2>2. r \in Handlers
        BY <1>4 DEF SameKey
    <2>3. /\ copy' \in [Handlers -> Requests \cup {NoRequest}]
          /\ \A g \in Handlers \ {h} : copy'[g] = copy[g]
        BY <2>1, <2>2 DEF IInv, Types
    <2>4. pc'[h] = "replied"
        BY <2>1 DEF Goto, IInv, Types
    <2>5. Local(h)'
        BY <2>4 DEF Local, Creating, Reviewing, Holding, Marking, Late
    <2> QED
        BY <1>1, <1>2, <2>1, <2>3, <2>5, QuietStep DEF IInv, Types, Places, Creating, Ended
<1> QED
    BY <1>3, <1>4

LEMMA CheckOverlapKeeps ==
    ASSUME OneTurn, IInv, NEW h \in Handlers, CheckOverlap(h) PROVE IInv'
<1>1. At(h, "check_overlap") /\ UNCHANGED <<account, requests, task, copy, crashes>>
    BY DEF CheckOverlap
<1>2. /\ pc[h] = "check_overlap" /\ task[h].kind = "create"
      /\ DaysOf(task[h].body) \in 1..MaxDays /\ SameKey(task[h].body) = {}
    BY <1>1 DEF At, IInv, Local, Creating
<1>3. CASE Overlapping(task[h].body) = {}
    <2>1. Goto(h, "reserve")
        BY <1>3 DEF CheckOverlap
    <2>2. pc'[h] = "reserve"
        BY <2>1 DEF Goto, IInv, Types
    <2>3. /\ SameKey(task[h].body)' = SameKey(task[h].body)
          /\ Overlapping(task[h].body)' = Overlapping(task[h].body)
        BY <1>1 DEF SameKey, Overlapping, Active
    <2>4. Local(h)'
        BY <1>1, <1>2, <1>3, <2>2, <2>3 DEF Local, Creating, Reviewing, Holding, Marking, Late
    <2> QED
        BY <1>1, <2>1, <2>4, QuietStep DEF IInv, Types, Places, Creating
<1>4. CASE Overlapping(task[h].body) # {}
    <2>1. Goto(h, "refused")
        BY <1>4 DEF CheckOverlap
    <2>2. pc'[h] = "refused"
        BY <2>1 DEF Goto, IInv, Types
    <2>3. Local(h)'
        BY <2>2 DEF Local, Creating, Reviewing, Holding, Marking, Late
    <2> QED
        BY <1>1, <2>1, <2>3, QuietStep DEF IInv, Types, Places, Creating, Ended
<1> QED
    BY <1>3, <1>4

LEMMA ReserveKeeps ==
    ASSUME OneTurn, IInv, NEW h \in Handlers, Reserve(h) PROVE IInv'
<1>1. At(h, "reserve") /\ UNCHANGED <<requests, task, copy, crashes>>
    BY DEF Reserve
<1>2. /\ pc[h] = "reserve" /\ task[h].kind = "create"
      /\ DaysOf(task[h].body) \in 1..MaxDays /\ SameKey(task[h].body) = {}
      /\ Overlapping(task[h].body) = {}
    BY <1>1 DEF At, IInv, Local, Creating
<1>3. CASE Goto(h, "refused") /\ UNCHANGED account
    <2>1. pc'[h] = "refused"
        BY <1>3 DEF Goto, IInv, Types
    <2>2. Local(h)'
        BY <2>1 DEF Local, Creating, Reviewing, Holding, Marking, Late
    <2> QED
        BY <1>1, <1>3, <2>2, QuietStep DEF IInv, Types, Places, Creating, Ended
<1>4. CASE Goto(h, "insert") /\ Charge(task[h].body.account, "reserve", DaysOf(task[h].body))
    <2>1. pc'[h] = "insert"
        BY <1>4 DEF Goto, IInv, Types
    <2>2. /\ SameKey(task[h].body)' = SameKey(task[h].body)
          /\ Overlapping(task[h].body)' = Overlapping(task[h].body)
        BY <1>1 DEF SameKey, Overlapping, Active
    <2>3. Local(h)'
        BY <1>1, <1>2, <2>1, <2>2 DEF Local, Creating, Reviewing, Holding, Marking, Late
    <2>4. task[h].body \in Submissions
        BY <1>2 DEF IInv, Types, Tasks, NoTask
    <2>5. task[h].body.account \in Accounts /\ DaysOf(task[h].body) \in Nat
        BY <1>2, <2>4, Dates
    <2>6. account' \in [Accounts -> Account]
        BY <1>4, <2>5, ChargeTypes DEF IInv, Types
    <2> QED
        BY <1>1, <1>4, <2>3, <2>6, QuietStep DEF IInv, Types, Places, Creating
<1> QED
    BY <1>3, <1>4 DEF Reserve

-----------------------------------------------------------------------------
(* The steps of a review that leave the rows alone.                        *)

LEMMA ReviewKeeps ==
    ASSUME OneTurn, IInv, NEW h \in Handlers, NEW kind \in Reviews,
           NEW r \in Handlers, Review(h, kind, r)
    PROVE  IInv'
<1>1. At(h, "start") /\ Goto(h, "find") /\ UNCHANGED <<account, requests, copy, crashes>>
    BY DEF Review
<1>2. /\ task' \in [Handlers -> Tasks] /\ task'[h].kind = kind
      /\ \A g \in Handlers \ {h} : task'[g] = task[g]
    BY DEF Review, IInv, Types, Tasks, Reviews
<1>3. pc'[h] = "find"
    BY <1>1 DEF Goto, IInv, Types
<1>4. Local(h)'
    BY <1>2, <1>3 DEF Local, Creating, Reviewing, Holding, Marking, Late
<1> QED
    BY <1>1, <1>2, <1>4, QuietStep DEF IInv, Types, Places, Reviewing

\* A handler that reviews has a request to review.
LEMMA Reviewed ==
    ASSUME IInv, NEW h \in Handlers, task[h].kind \in Reviews
    PROVE  task[h].request \in Handlers
BY DEF IInv, Types, Tasks, NoTask, Reviews

LEMMA FindKeeps ==
    ASSUME OneTurn, IInv, NEW h \in Handlers, Find(h) PROVE IInv'
<1> DEFINE found == requests[task[h].request]
<1>1. At(h, "find") /\ UNCHANGED <<account, requests, task, crashes>>
    BY DEF Find
<1>2. pc[h] = "find" /\ task[h].kind \in Reviews
    BY <1>1 DEF At, IInv, Local, Reviewing
<1>3. CASE found # NoRequest /\ MayReview(task[h].kind, found.status)
    <2>1. Goto(h, "settle") /\ copy' = [copy EXCEPT ![h] = found]
        BY <1>3 DEF Find
    <2>2. found \in Requests
        BY <1>2, <1>3, Reviewed DEF IInv, Types
    <2>3. /\ copy' \in [Handlers -> Requests \cup {NoRequest}] /\ copy'[h] = found
          /\ \A g \in Handlers \ {h} : copy'[g] = copy[g]
        BY <2>1, <2>2 DEF IInv, Types
    <2>4. pc'[h] = "settle"
        BY <2>1 DEF Goto, IInv, Types
    <2>5. Local(h)'
        BY <1>1, <1>2, <1>3, <2>2, <2>3, <2>4 DEF Local, Creating, Reviewing, Holding, Marking, Late
    <2> QED
        BY <1>1, <2>1, <2>3, <2>5, QuietStep
        DEF IInv, Types, Places, Creating, Reviewing, Holding
<1>4. CASE ~(found # NoRequest /\ MayReview(task[h].kind, found.status))
    <2>1. Goto(h, "refused") /\ UNCHANGED copy
        BY <1>4 DEF Find
    <2>2. pc'[h] = "refused"
        BY <2>1 DEF Goto, IInv, Types
    <2>3. Local(h)'
        BY <2>2 DEF Local, Creating, Reviewing, Holding, Marking, Late
    <2> QED
        BY <1>1, <2>1, <2>3, QuietStep
        DEF IInv, Types, Places, Creating, Reviewing, Ended
<1> QED
    BY <1>3, <1>4

LEMMA SettleKeeps ==
    ASSUME OneTurn, IInv, NEW h \in Handlers, Settle(h) PROVE IInv'
<1>1. At(h, "settle") /\ Goto(h, "save") /\ UNCHANGED <<requests, task, copy, crashes>>
    BY DEF Settle
<1>2. /\ pc[h] = "settle" /\ task[h].kind \in Reviews
      /\ copy[h] \in Requests /\ copy[h] = requests[task[h].request]
      /\ MayReview(task[h].kind, copy[h].status)
    BY <1>1 DEF At, IInv, Local, Reviewing, Holding
<1>3. copy[h].status \in {"PENDING", "APPROVED", "REJECTED", "CANCELLED"}
    BY <1>2 DEF Requests
<1>4. Settlement(task[h].kind, copy[h].status) \in {"reserve", "confirm", "release", "restore"}
    BY <1>2, <1>3, ReviewOutcome
<1>5. account' \in [Accounts -> Account]
    BY <1>2, <1>4, Dates, ChargeTypes DEF Settle, IInv, Types
<1>6. pc'[h] = "save"
    BY <1>1 DEF Goto, IInv, Types
<1>7. Local(h)'
    BY <1>1, <1>2, <1>6 DEF Local, Creating, Reviewing, Holding, Marking, Late
<1> QED
    BY <1>1, <1>5, <1>7, QuietStep DEF IInv, Types, Places, Creating, Reviewing, Holding

LEMMA LedgerFailsKeeps ==
    ASSUME OneTurn, IInv, NEW h \in Handlers, LedgerFails(h) PROVE IInv'
<1>1. Goto(h, "error") /\ UNCHANGED <<account, requests, task, copy, crashes>>
    BY DEF LedgerFails
<1>2. pc'[h] = "error"
    BY <1>1 DEF Goto, IInv, Types
<1>3. Local(h)'
    BY <1>2 DEF Local, Creating, Reviewing, Holding, Marking, Late
<1>4. CASE At(h, "reserve")
    BY <1>1, <1>3, <1>4, QuietStep DEF IInv, Types, Places, Creating, Ended
<1>5. CASE At(h, "settle")
    BY <1>1, <1>3, <1>5, QuietStep DEF IInv, Types, Places, Creating, Reviewing, Holding, Ended
<1> QED
    BY <1>4, <1>5 DEF LedgerFails, At

\* The approval asks the HCM, or goes on at once for who is not linked.
LEMMA NotifyKeeps ==
    ASSUME OneTurn, IInv, NEW h \in Handlers, Notify(h) PROVE IInv'
<1>1. At(h, "notify") /\ UNCHANGED <<account, requests, task, copy, crashes>>
    BY DEF Notify, NotifyIf
<1>2. PICK p \in {"in_flight", "mark_synced"} : Goto(h, p)
    BY DEF Notify, NotifyIf
<1>3. /\ pc[h] = "notify" /\ task[h].kind = "approve" /\ copy[h].status = "APPROVED"
      /\ copy[h] \in Requests /\ copy[h] = requests[task[h].request]
    BY <1>1 DEF At, IInv, Local, Holding, Marking
<1>4. pc'[h] = p
    BY <1>2 DEF Goto, IInv, Types
<1>5. Local(h)'
    BY <1>1, <1>3, <1>4
    DEF Local, Creating, Reviewing, Reviews, Holding, Marking, Late, SameClaim, Decided
<1>6. p \in Places /\ "notify" \in Places /\ p \notin Creating \cup {"start"} /\ p # "replied"
    BY DEF Places, Reviewing, Holding, Marking, Late, Creating
<1> QED
    BY <1>1, <1>2, <1>5, <1>6, QuietStep DEF IInv, Types

\* The answer of the HCM, or its absence, changes what is to be marked only.
LEMMA HcmAnswersKeeps ==
    ASSUME OneTurn, IInv, NEW h \in Handlers, HcmAnswers(h) PROVE IInv'
<1>1. At(h, "in_flight") /\ UNCHANGED <<account, requests, task, copy, crashes>>
    BY DEF HcmAnswers
<1>2. PICK p \in {"mark_synced", "mark_failed"} : Goto(h, p)
    BY DEF HcmAnswers
<1>3. pc[h] = "in_flight" /\ pc'[h] = p
    BY <1>1, <1>2 DEF At, Goto, IInv, Types
<1>4. Local(h)'
    BY <1>1, <1>3 DEF IInv, Local, Creating, Reviewing, Holding, Marking, Late
<1>5. /\ p \in Places /\ "in_flight" \in Places
      /\ p \notin Creating \cup {"start"} /\ p # "replied"
    BY DEF Places, Reviewing, Holding, Marking, Late, Creating
<1> QED
    BY <1>1, <1>2, <1>4, <1>5, QuietStep DEF IInv, Types

-----------------------------------------------------------------------------
(* The steps that write a row.                                             *)

\* A save of the same claim that revives no rejected request, leaves a pending
\* one untried and cancels only to answer so keeps the invariant.
LEMMA SaveKeeps ==
    ASSUME OneTurn, IInv, NEW h \in Handlers, NEW q \in Holding \cup Late,
           NEW p \in Ended \cup Holding, NEW object,
           At(h, q), Goto(h, p), SaveCopy(h, object),
           UNCHANGED <<account, task, crashes>>,
           SameClaim(object, requests[task[h].request]),
           requests[task[h].request].status \in {"PENDING"} \cup Decided,
           object.status = "PENDING" => object.attempts = 0,
           requests[task[h].request].status \in Decided => object.status \in Decided,
           object.status = "CANCELLED" <=> p = "replied" /\ task[h].kind = "cancel",
           Local(h)'
    PROVE  IInv'
<1> DEFINE r == task[h].request
<1>1. /\ p \in Places /\ q \in Places /\ p \notin Creating \cup {"start"} /\ q # "replied"
      /\ object \in Requests
    BY DEF Places, Reviewing, Holding, Marking, Late, Creating, Ended, SameClaim
<1>2. /\ pc' \in [Handlers -> Places] /\ running' \in Handlers \cup {Nobody}
      /\ Turn'
      /\ pc[h] = q /\ pc'[h] = p
      /\ \A g \in Handlers : g # h => pc[g] \in Idle /\ pc'[g] = pc[g]
    BY <1>1, TurnTaken DEF IInv
<1>3. Local(h) /\ task[h].kind \in Reviews
    BY <1>2 DEF IInv, Local, Reviewing
<1>4. r \in Handlers /\ requests[r] # NoRequest
    BY <1>3, Reviewed DEF NoRequest, Decided
<1>5. /\ requests' = [requests EXCEPT ![r] = object]
      /\ copy' = [copy EXCEPT ![h] = object]
    BY DEF SaveCopy
<1>6. /\ requests'[r] = object
      /\ \A g \in Handlers : g # r => requests'[g] = requests[g]
      /\ \A g \in Handlers : g # h => copy'[g] = copy[g]
    BY <1>4, <1>5 DEF IInv, Types
<1> HIDE DEF r
<1>7. Types'
    BY <1>1, <1>2, <1>5 DEF IInv, Types
<1>8. ASSUME NEW g \in Handlers PROVE Local(g)'
    <2>1. ASSUME NEW s \in Handlers PROVE Relied(s)
        <3>1. CASE s = r
            BY <1>6, <3>1 DEF Relied, r
        <3>2. CASE s # r
            BY <1>6, <3>2, UntouchedRelied DEF IInv
        <3> QED
            BY <3>1, <3>2
    <2>2. CASE g # h
        BY <1>2, <1>6, <2>1, <2>2, OtherIsLocal
    <2> QED
        BY <2>2
<1>9. \A s : Withdrawn(s)' <=> Withdrawn(s) \/ (s = r /\ object.status = "CANCELLED")
    <2>1. \A g \in Handlers \ {h} : g \in Cancellations' <=> g \in Cancellations
        BY <1>2 DEF Cancellations
    <2>2. h \notin Cancellations
        BY <1>1, <1>2 DEF Cancellations
    <2>3. h \in Cancellations' <=> object.status = "CANCELLED"
        BY <1>2 DEF Cancellations
    <2>4. Cancellations \subseteq Handlers /\ Cancellations' \subseteq Handlers
        BY DEF Cancellations
    <2> QED
        BY <2>1, <2>2, <2>3, <2>4 DEF Withdrawn, r
<1>10. Rows'
    <2>1. \A g \in Handlers : requests'[g].status = "PENDING" => requests'[g].attempts = 0
        BY <1>6 DEF IInv, Rows
    <2>2. ASSUME NEW g \in Handlers, pc'[g] \in Creating \cup {"start"}
          PROVE  requests'[g] = NoRequest
        <3>1. pc[g] = pc'[g]
            BY <1>1, <1>2, <2>2
        <3>2. requests[g] = NoRequest
            BY <2>2, <3>1 DEF IInv, Rows
        <3> QED
            BY <1>4, <1>6, <3>2
    <2>3. \A g \in Handlers : requests'[g].status = "CANCELLED" => Withdrawn(g)'
        BY <1>6, <1>9 DEF IInv, Rows
    <2>4. \A g \in Handlers : Withdrawn(g)' => requests'[g].status \in Decided
        BY <1>6, <1>9 DEF IInv, Rows, r, Decided
    <2> QED
        BY <2>1, <2>2, <2>3, <2>4 DEF Rows
<1>11. NoDoubleBooking'
    <2>1. ASSUME NEW g \in Handlers, Active(requests'[g]), ~Withdrawn(g)'
          PROVE  /\ Active(requests[g]) /\ ~Withdrawn(g)
                 /\ requests'[g].employee = requests[g].employee
                 /\ requests'[g].first = requests[g].first
                 /\ requests'[g].last = requests[g].last
        <3>1. CASE g = r
            <4>1. ~Withdrawn(r) /\ requests[r].status # "CANCELLED"
                BY <1>9, <2>1, <3>1 DEF IInv, Rows
            <4>2. Active(requests[r])
                BY <4>1 DEF Active, Decided, r
            <4> QED
                BY <1>6, <3>1, <4>1, <4>2 DEF SameClaim, r
        <3>2. CASE g # r
            BY <1>6, <1>9, <2>1, <3>2
        <3> QED
            BY <3>1, <3>2
    <2> QED
        BY <2>1 DEF IInv, NoDoubleBooking, Active
<1> QED
    BY <1>2, <1>7, <1>8, <1>10, <1>11 DEF IInv

LEMMA SaveVerdictKeeps ==
    ASSUME OneTurn, IInv, NEW h \in Handlers, SaveVerdict(h) PROVE IInv'
<1> DEFINE object == [copy[h] EXCEPT !.status = Verdict(task[h].kind)]
           p == IF task[h].kind = "approve" THEN "mark_syncing" ELSE "replied"
<1>1. /\ At(h, "save") /\ Goto(h, p) /\ SaveCopy(h, object)
      /\ UNCHANGED <<account, task, crashes>>
    BY DEF SaveVerdict
<1>2. /\ pc[h] = "save" /\ task[h].kind \in Reviews
      /\ copy[h] \in Requests /\ copy[h] = requests[task[h].request]
      /\ MayReview(task[h].kind, copy[h].status)
    BY <1>1 DEF At, IInv, Local, Reviewing, Holding
<1>3. copy[h].status \in {"PENDING", "APPROVED", "REJECTED", "CANCELLED"}
    BY <1>2 DEF Requests
<1>4. /\ Verdict(task[h].kind) \in {"APPROVED", "REJECTED", "CANCELLED"}
      /\ copy[h].status \in {"PENDING", "APPROVED"}
    BY <1>2, <1>3, ReviewOutcome
<1>5. SameClaim(object, copy[h]) /\ object \in Requests
    <2>1. Verdict(task[h].kind) \in {"PENDING", "APPROVED", "REJECTED", "CANCELLED"}
        BY <1>4
    <2>2. SameClaim([copy[h] EXCEPT !.status = Verdict(task[h].kind)], copy[h])
        BY <1>2, <2>1, ReviewedRow
    <2> QED
        BY <2>2 DEF SameClaim
<1>6. object.status = Verdict(task[h].kind) /\ object.attempts = copy[h].attempts
    BY <1>2 DEF Requests
<1>7. task[h].request \in Handlers
    BY <1>2, Reviewed
<1>8. copy'[h] = object /\ requests'[task[h].request] = object /\ pc'[h] = p
    BY <1>1, <1>7 DEF SaveCopy, Goto, IInv, Types
<1>9. Local(h)'
    <2>1. CASE task[h].kind = "approve"
        <3>1. copy[h].status = "PENDING" /\ Verdict(task[h].kind) = "APPROVED"
            BY <1>2, <1>3, <2>1, ReviewOutcome
        <3>2. copy[h].attempts = 0
            BY <1>2, <1>7, <3>1 DEF IInv, Rows
        <3> HIDE DEF object
        <3>3. task'[h] = task[h] /\ pc'[h] = "mark_syncing"
            BY <1>1, <1>8, <2>1
        <3> QED
            BY <1>2, <1>5, <1>6, <1>8, <2>1, <3>1, <3>2, <3>3
            DEF Local, Creating, Reviewing, Reviews, Holding, Marking, Late
    <2>2. CASE task[h].kind # "approve"
        <3>1. pc'[h] = "replied"
            BY <1>8, <2>2
        <3> QED
            BY <3>1 DEF Local, Creating, Reviewing, Holding, Marking, Late
    <2> QED
        BY <2>1, <2>2
<1>10. p \in Ended \cup Holding
    BY DEF Ended, Holding, Marking
<1>11. "save" \in Holding
    BY DEF Holding
<1>12. object.status = "CANCELLED" <=> p = "replied" /\ task[h].kind = "cancel"
    BY <1>2, <1>3, <1>6, ReviewOutcome
<1>13. copy[h].status \in Decided => object.status \in Decided
    <2>1. copy[h].status = "APPROVED" => task[h].kind = "cancel"
        BY <1>2, <1>3, ReviewOutcome
    <2> QED
        BY <1>2, <1>3, <1>4, <1>6, <2>1, ReviewOutcome DEF Decided
<1>14. object.status # "PENDING" /\ copy[h].status \in {"PENDING"} \cup Decided
    BY <1>4, <1>6 DEF Decided
<1> HIDE DEF object, p
<1> QED
    BY <1>1, <1>2, <1>5, <1>9, <1>10, <1>11, <1>12, <1>13, <1>14, SaveKeeps

LEMMA MarkSyncingKeeps ==
    ASSUME OneTurn, IInv, NEW h \in Handlers, MarkSyncing(h) PROVE IInv'
<1> DEFINE object == [copy[h] EXCEPT !.sync = "SYNCING", !.attempts = @ + 1]
<1>1. /\ At(h, "mark_syncing") /\ Goto(h, "notify") /\ SaveCopy(h, object)
      /\ UNCHANGED <<account, task, crashes>>
    BY DEF MarkSyncing
<1>2. /\ pc[h] = "mark_syncing" /\ task[h].kind = "approve"
      /\ copy[h] \in Requests /\ copy[h] = requests[task[h].request]
      /\ copy[h].status = "APPROVED" /\ copy[h].attempts = 0
    BY <1>1 DEF At, IInv, Local, Holding, Marking
<1>3. object = [copy[h] EXCEPT !.sync = "SYNCING", !.attempts = 1]
    BY <1>2
<1>4. SameClaim(object, copy[h]) /\ object \in Requests
    <2>1. 1 \in 0..1
        OBVIOUS
    <2>2. SameClaim([copy[h] EXCEPT !.sync = "SYNCING", !.attempts = 1], copy[h])
        BY <1>2, <2>1, SyncingRow
    <2> QED
        BY <1>3, <2>2 DEF SameClaim
<1>5. object.status = "APPROVED"
    BY <1>2 DEF Requests
<1>6. task[h].request \in Handlers
    BY <1>2, Reviewed DEF Reviews
<1>7. copy'[h] = object /\ requests'[task[h].request] = object /\ pc'[h] = "notify"
    BY <1>1, <1>6 DEF SaveCopy, Goto, IInv, Types
<1>8. "mark_syncing" \in Holding /\ "notify" \in Holding
    BY DEF Holding, Marking
<1> HIDE DEF object
<1>9. Local(h)'
    BY <1>1, <1>2, <1>4, <1>5, <1>7
    DEF Local, Creating, Reviewing, Reviews, Holding, Marking, Late
<1>10. object.status # "PENDING" /\ object.status # "CANCELLED" /\ object.status \in Decided
    BY <1>5 DEF Decided
<1>11. copy[h].status \in Decided
    BY <1>2 DEF Decided
<1> QED
    BY <1>1, <1>2, <1>4, <1>8, <1>9, <1>10, <1>11, SaveKeeps

\* The last save of an approval writes the object it held while it waited.
LEMMA LateSaveKeeps ==
    ASSUME OneTurn, IInv, NEW h \in Handlers, MarkSynced(h) \/ MarkFailed(h) PROVE IInv'
<1>1. PICK q \in {"mark_synced", "mark_failed"}, mark \in {"SYNCED", "FAILED"} :
        /\ At(h, q) /\ Goto(h, "settled")
        /\ SaveCopy(h, [copy[h] EXCEPT !.sync = mark])
        /\ UNCHANGED <<account, task, crashes>>
    BY DEF MarkSynced, MarkFailed
<1> DEFINE object == [copy[h] EXCEPT !.sync = mark]
           row == requests[task[h].request]
<1>2. /\ pc[h] \in Late /\ copy[h] \in Requests /\ copy[h].status = "APPROVED"
      /\ SameClaim(row, copy[h]) /\ row.status \in Decided
    BY <1>1 DEF At, IInv, Local, Late
<1>3. object.status = "APPROVED"
    BY <1>2 DEF Requests
<1>4. SameClaim(object, row)
    BY <1>2, MarkedRow DEF SameClaim
<1>5. pc'[h] = "settled"
    BY <1>1 DEF Goto, IInv, Types
<1>6. q \in Late /\ "settled" \in Ended
    BY DEF Late, Ended
<1>7. Local(h)'
    BY <1>5 DEF Local, Creating, Reviewing, Holding, Marking, Late
<1>8. object.status \in Decided /\ object.status \notin {"PENDING", "CANCELLED"}
    BY <1>3 DEF Decided
<1> HIDE DEF object
<1> QED
    BY <1>1, <1>2, <1>4, <1>6, <1>7, <1>8, SaveKeeps DEF object

\* What create checked is still so: the new row meets no active one.
LEMMA InsertKeeps ==
    ASSUME OneTurn, IInv, NEW h \in Handlers, Insert(h) PROVE IInv'
<1> DEFINE s == task[h].body
<1>1. At(h, "insert") /\ UNCHANGED <<account, task, crashes>>
    BY DEF Insert
<1>2. /\ pc[h] = "insert" /\ task[h].kind = "create" /\ DaysOf(s) \in 1..MaxDays
      /\ SameKey(s) = {} /\ Overlapping(s) = {}
    BY <1>1 DEF At, IInv, Local, Creating
<1>3. s \in Submissions
    BY <1>2 DEF IInv, Types, Tasks, NoTask
<1>4. /\ Goto(h, "replied")
      /\ requests' = [requests EXCEPT ![h] = NewRequest(s)]
      /\ copy' = [copy EXCEPT ![h] = NewRequest(s)]
    BY <1>2 DEF Insert
<1>5. /\ NewRequest(s) \in Requests
      /\ NewRequest(s).status = "PENDING" /\ NewRequest(s).attempts = 0
      /\ NewRequest(s).employee = s.employee
      /\ NewRequest(s).first = s.first /\ NewRequest(s).last = s.last
    BY <1>2, <1>3, NewRequestIsRow
<1>6. "replied" \in Places /\ "insert" \in Places
    BY DEF Places, Creating, Ended
<1>7. /\ pc' \in [Handlers -> Places] /\ running' \in Handlers \cup {Nobody}
      /\ Turn' /\ pc'[h] = "replied"
      /\ \A g \in Handlers : g # h => pc[g] \in Idle /\ pc'[g] = pc[g]
    BY <1>1, <1>4, <1>6, TurnTaken DEF IInv
<1>8. /\ requests'[h] = NewRequest(s)
      /\ \A g \in Handlers : g # h => requests'[g] = requests[g]
    BY <1>4 DEF IInv, Types
<1> HIDE DEF s
<1>9. Types'
    BY <1>1, <1>4, <1>5, <1>7 DEF IInv, Types
<1>13. requests[h] = NoRequest
    BY <1>2 DEF IInv, Rows, Creating
<1>14. \A r : Withdrawn(r)' <=> Withdrawn(r)
    BY <1>1, <1>2, <1>7, SameCancellations
<1>15. ~Withdrawn(h)
    BY <1>13 DEF IInv, Rows, NoRequest, Decided
<1>10. ASSUME NEW g \in Handlers PROVE Local(g)'
    <2>1. CASE g = h
        BY <1>7, <2>1 DEF Local, Creating, Holding, Marking, Late, Reviewing
    <2>2. CASE g # h
        <3>1. ASSUME NEW r \in Handlers PROVE Relied(r)
            <4>1. CASE r = h
                BY <1>13, <4>1 DEF Relied, NoRequest, Decided
            <4>2. CASE r # h
                BY <1>8, <4>2, UntouchedRelied DEF IInv
            <4> QED
                BY <4>1, <4>2
        <3>2. copy'[g] = copy[g] /\ task'[g] = task[g]
            BY <1>1, <1>4, <2>2 DEF IInv, Types
        <3> QED
            BY <1>7, <2>2, <3>1, <3>2, OtherIsLocal
    <2> QED
        BY <2>1, <2>2
<1>11. Rows'
    <2>1. \A g \in Handlers : requests'[g].status = "PENDING" => requests'[g].attempts = 0
        BY <1>5, <1>8 DEF IInv, Rows
    <2>2. \A g \in Handlers : pc'[g] \in Creating \cup {"start"} => requests'[g] = NoRequest
        BY <1>7, <1>8 DEF IInv, Rows, Creating
    <2>3. \A g \in Handlers : requests'[g].status = "CANCELLED" => Withdrawn(g)'
        BY <1>5, <1>8, <1>14 DEF IInv, Rows
    <2>4. \A g \in Handlers : Withdrawn(g)' => requests'[g].status \in Decided
        BY <1>8, <1>14, <1>15 DEF IInv, Rows
    <2> QED
        BY <2>1, <2>2, <2>3, <2>4 DEF Rows
<1>12. NoDoubleBooking'
    <2>1. ASSUME NEW g \in Handlers, g # h, Active(requests[g]),
                 requests[g].employee = s.employee
          PROVE  (requests[g].first..requests[g].last) \cap (s.first..s.last) = {}
        <3>1. requests[g] \in Requests
            BY <2>1 DEF IInv, Types, Active, NoRequest
        <3>2. /\ requests[g].first \in Int /\ requests[g].last \in Int
              /\ s.first \in Int /\ s.last \in Int
            BY <1>3, <3>1, Dates
        <3>3. ~(requests[g].first <= s.last /\ requests[g].last >= s.first)
            BY <1>2, <2>1 DEF Overlapping
        <3> QED
            BY <3>2, <3>3
    <2>2. ASSUME NEW q \in Handlers, NEW r \in Handlers, q # r,
                 Active(requests'[q]), Active(requests'[r]),
                 ~Withdrawn(q)', ~Withdrawn(r)',
                 requests'[q].employee = requests'[r].employee
          PROVE  (requests'[q].first..requests'[q].last)
                     \cap (requests'[r].first..requests'[r].last) = {}
        <3>1. CASE q = h
            BY <1>5, <1>8, <2>1, <2>2, <3>1
        <3>2. CASE r = h
            BY <1>5, <1>8, <2>1, <2>2, <3>2
        <3>3. CASE q # h /\ r # h
            BY <1>8, <1>14, <2>2, <3>3 DEF IInv, NoDoubleBooking
        <3> QED
            BY <3>1, <3>2, <3>3
    <2> QED
        BY <2>2 DEF NoDoubleBooking, Active
<1> QED
    BY <1>7, <1>9, <1>10, <1>11, <1>12 DEF IInv

\* A restart leaves nobody under way and the rows as they are.
LEMMA CrashKeeps ==
    ASSUME OneTurn, IInv, Crash PROVE IInv'
<1>1. /\ crashes' = crashes + 1 /\ crashes < MaxCrashes /\ running' = Nobody
      /\ UNCHANGED <<account, requests, task, copy>>
    BY DEF Crash
<1>2. pc' = [h \in Handlers |->
                IF pc[h] \in Ended \cup {"start"} THEN pc[h] ELSE "crashed"]
    BY DEF Crash
<1>3. \A h \in Handlers : pc'[h] \in Ended \cup {"start"}
                            /\ (pc'[h] = "start" => pc[h] = "start")
    BY <1>2 DEF Ended
<1>4. Types'
    <2>1. crashes' \in 0..MaxCrashes
        BY <1>1, MaxCrashesAssumption DEF IInv, Types
    <2>2. pc' \in [Handlers -> Places]
        BY <1>2 DEF Places, Ended
    <2> QED
        BY <1>1, <2>1, <2>2 DEF IInv, Types
<1>5. Turn'
    BY <1>1, <1>3, NobodyAssumption DEF Turn, Idle
<1>6. ASSUME NEW h \in Handlers PROVE Local(h)'
    BY <1>3 DEF Local, Ended, Creating, Holding, Marking, Late, Reviewing
<1>9. \A r : Withdrawn(r)' <=> Withdrawn(r)
    BY <1>1, <1>2 DEF Withdrawn, Cancellations, Ended
<1>7. Rows'
    BY <1>1, <1>3, <1>9 DEF IInv, Rows, Creating, Ended
<1>8. NoDoubleBooking'
    BY <1>1, <1>9 DEF IInv, NoDoubleBooking, Active
<1> QED
    BY <1>4, <1>5, <1>6, <1>7, <1>8 DEF IInv

-----------------------------------------------------------------------------
(* The theorems.                                                           *)

LEMMA InitHolds == ASSUME Init PROVE IInv
<1>1. Types
    BY AllotmentsAssumption, MaxCrashesAssumption
    DEF Init, Types, Account, Places, Tasks
<1>2. Turn
    BY NobodyAssumption DEF Init, Turn, Idle
<1>3. \A h \in Handlers : Local(h)
    BY DEF Init, Local, Creating, Reviewing, Holding, Marking, Late
<1>4. Rows /\ NoDoubleBooking
    BY DEF Init, Rows, NoDoubleBooking, Active, NoRequest, Withdrawn, Cancellations
<1> QED
    BY <1>1, <1>2, <1>3, <1>4 DEF IInv

LEMMA StutterKeeps == ASSUME IInv, UNCHANGED vars PROVE IInv'
<1>4. \A r : Withdrawn(r)' <=> Withdrawn(r)
    BY DEF Withdrawn, Cancellations, vars
<1>1. Types' /\ Turn' /\ Rows'
    BY <1>4 DEF IInv, Types, Turn, Rows, vars
<1>2. \A h \in Handlers : Local(h)'
    BY DEF IInv, Local, vars, SameKey, Overlapping, Active
<1>3. NoDoubleBooking'
    BY <1>4 DEF IInv, NoDoubleBooking, Active, vars
<1> QED
    BY <1>1, <1>2, <1>3 DEF IInv

LEMMA StartKeeps ==
    ASSUME OneTurn, IInv, NEW h \in Handlers, Start(h) PROVE IInv'
<1>1. ASSUME NEW s \in Submissions, Submit(h, s) PROVE IInv'
    BY <1>1, SubmitKeeps
<1>2. ASSUME NEW kind \in Reviews, NEW r \in Handlers, Review(h, kind, r) PROVE IInv'
    BY <1>2, ReviewKeeps
<1> QED
    BY <1>1, <1>2 DEF Start, Reviews

LEMMA StepKeeps ==
    ASSUME OneTurn, IInv, NEW h \in Handlers, Step(h) PROVE IInv'
BY ValidateKeeps, CheckKeyKeeps, CheckOverlapKeeps, ReserveKeeps, InsertKeeps,
   FindKeeps, SettleKeeps, SaveVerdictKeeps, LedgerFailsKeeps, MarkSyncingKeeps,
   NotifyKeeps, HcmAnswersKeeps, LateSaveKeeps
DEF Step

\* What is checked and held on the way to a write stays true: a turn of the
\* event loop is a critical section.
THEOREM InductiveInvariant == ASSUME OneTurn PROVE Spec => []IInv
<1>1. Init => IInv
    BY InitHolds
<1>2. IInv /\ [Next]_vars => IInv'
    BY StartKeeps, StepKeeps, CrashKeeps, StutterKeeps DEF Next
<1> QED
    BY <1>1, <1>2, PTL DEF Spec

\* Accounts stay accounts, rows stay rows, and whoever runs is on the way.
THEOREM TypeCorrect == ASSUME OneTurn PROVE Spec => []TypeOK
<1>1. IInv => TypeOK
    BY DEF IInv, Types, Turn, TypeOK
<1> QED
    BY <1>1, InductiveInvariant, PTL

\* No employee holds two active requests on one day, however many requests
\* are made, under whatever keys, with whatever restarts and answers of the
\* HCM, unless one of the two was cancelled while its approval waited.
THEOREM NoDayTwice == ASSUME OneTurn PROVE Spec => []NoDoubleBooking
<1>1. IInv => NoDoubleBooking
    BY DEF IInv
<1> QED
    BY <1>1, InductiveInvariant, PTL

\* A key that made a request, whatever became of it, reserves no days again.
THEOREM KeysReserveOnce == ASSUME OneTurn PROVE Spec => KeyReservesOnce
<1>1. IInv => \A h \in Handlers :
                pc[h] = "reserve" /\ pc'[h] = "insert" => SameKey(task[h].body) = {}
    BY DEF IInv, Local
<1> QED
    BY <1>1, InductiveInvariant, PTL DEF KeyReservesOnce

\* What the writes of a row do to its status.
Moved(r) ==
    LET before == requests[r].status
        after == requests[r].status'
    IN  before # after =>
            \/ <<before, after>> \in StatusMachine
            \/ /\ <<before, after>> = <<"CANCELLED", "APPROVED">>
               /\ \E h \in Handlers : Marks(h, r)

LEMMA InsertMoves ==
    ASSUME IInv, NEW h \in Handlers, Insert(h), NEW r \in Handlers PROVE Moved(r)
<1>1. pc[h] = "insert" /\ requests[h] = NoRequest
    BY DEF Insert, At, IInv, Rows, Creating
<1>2. requests' = [requests EXCEPT ![h] = NewRequest(task[h].body)] \/ UNCHANGED requests
    BY DEF Insert
<1>3. NewRequest(task[h].body).status = "PENDING" /\ NoRequest.status = "none"
    BY DEF NewRequest, NoRequest
<1> QED
    BY <1>1, <1>2, <1>3 DEF Moved, StatusMachine, IInv, Types

LEMMA SaveMoves ==
    ASSUME IInv, NEW h \in Handlers, pc[h] \in Holding, NEW object,
           SaveCopy(h, object),
           <<copy[h].status, object.status>> \in StatusMachine
             \/ copy[h].status = object.status,
           NEW r \in Handlers
    PROVE  Moved(r)
<1>1. copy[h] = requests[task[h].request] /\ task[h].request \in Handlers
    BY Reviewed DEF IInv, Local, Reviewing
<1>2. requests' = [requests EXCEPT ![task[h].request] = object]
    BY DEF SaveCopy
<1>3. CASE r = task[h].request
    <2>1. requests'[r] = object /\ requests[r] = copy[h]
        BY <1>1, <1>2, <1>3 DEF IInv, Types
    <2> QED
        BY <2>1 DEF Moved
<1>4. CASE r # task[h].request
    <2>1. requests'[r] = requests[r]
        BY <1>1, <1>2, <1>4 DEF IInv, Types
    <2> QED
        BY <2>1 DEF Moved
<1> QED
    BY <1>3, <1>4

LEMMA VerdictMoves ==
    ASSUME IInv, NEW h \in Handlers, SaveVerdict(h), NEW r \in Handlers PROVE Moved(r)
<1> DEFINE object == [copy[h] EXCEPT !.status = Verdict(task[h].kind)]
<1>1. pc[h] = "save" /\ SaveCopy(h, object)
    BY DEF SaveVerdict, At
<1>2. pc[h] \in Holding /\ task[h].kind \in Reviews /\ copy[h] \in Requests
      /\ MayReview(task[h].kind, copy[h].status)
    BY <1>1 DEF IInv, Local, Reviewing, Holding
<1>3. object.status = Verdict(task[h].kind)
    BY <1>2 DEF Requests
<1> HIDE DEF object
<1>4. <<copy[h].status, object.status>> \in StatusMachine
    BY <1>2, <1>3 DEF Reviews, MayReview, Verdict, StatusMachine
<1> QED
    BY <1>1, <1>2, <1>4, SaveMoves

LEMMA MarkSyncingMoves ==
    ASSUME IInv, NEW h \in Handlers, MarkSyncing(h), NEW r \in Handlers PROVE Moved(r)
<1> DEFINE object == [copy[h] EXCEPT !.sync = "SYNCING", !.attempts = @ + 1]
<1>1. pc[h] \in Holding /\ copy[h] \in Requests
    BY DEF MarkSyncing, At, IInv, Local, Holding, Marking
<1>2. SaveCopy(h, object) /\ object.status = copy[h].status
    BY <1>1 DEF MarkSyncing, Requests
<1> HIDE DEF object
<1> QED
    BY <1>1, <1>2, SaveMoves

\* The last save of an approval finds its request approved or cancelled.
LEMMA LateSaveMoves ==
    ASSUME IInv, NEW h \in Handlers, MarkSynced(h) \/ MarkFailed(h), NEW r \in Handlers
    PROVE  Moved(r)
<1> DEFINE q == task[h].request
<1>1. PICK mark \in {"SYNCED", "FAILED"} :
            requests' = [requests EXCEPT ![q] = [copy[h] EXCEPT !.sync = mark]]
    BY DEF MarkSynced, MarkFailed, SaveCopy
<1>2. pc[h] \in {"mark_synced", "mark_failed"} /\ pc'[h] = "settled"
    BY DEF MarkSynced, MarkFailed, At, Goto, IInv, Types
<1>3. /\ task[h].kind = "approve" /\ copy[h] \in Requests /\ copy[h].status = "APPROVED"
      /\ requests[q].status \in Decided
    BY <1>2 DEF IInv, Local, Late
<1>4. q \in Handlers
    BY <1>3, Reviewed DEF Reviews
<1>5. CASE r = q
    <2>1. requests'[r].status = "APPROVED"
        BY <1>1, <1>3, <1>4, <1>5 DEF IInv, Types, Requests
    <2>2. Marks(h, r)
        BY <1>2, <1>3, <1>5 DEF Marks
    <2> QED
        BY <1>3, <1>5, <2>1, <2>2 DEF Moved, Decided
<1>6. CASE r # q
    BY <1>1, <1>4, <1>6 DEF Moved, IInv, Types
<1> QED
    BY <1>5, <1>6

\* A request moves only along the state machine, except that an approval that
\* waited for the HCM brings back a request cancelled meanwhile: a rejected
\* one stays as it is, and none becomes PENDING again.
THEOREM StatusesMove == ASSUME OneTurn PROVE Spec => OnlyLateMarksRevive
<1> DEFINE A == \A r \in Handlers : Moved(r)
<1>1. ASSUME IInv, NEW h \in Handlers, Start(h) PROVE A
    BY <1>1 DEF Start, Submit, Review, Moved
<1>2. ASSUME IInv, NEW h \in Handlers, Step(h) PROVE A
    <2>1. CASE Insert(h) \/ SaveVerdict(h) \/ MarkSyncing(h) \/ MarkSynced(h) \/ MarkFailed(h)
        BY <1>2, <2>1, InsertMoves, VerdictMoves, MarkSyncingMoves, LateSaveMoves
    <2>2. CASE UNCHANGED requests
        BY <2>2 DEF Moved
    <2> QED
        BY <1>2, <2>1, <2>2
        DEF Step, Validate, CheckKey, CheckOverlap, Reserve, Find, Settle,
            LedgerFails, Notify, NotifyIf, HcmAnswers
<1>3. ASSUME Crash \/ UNCHANGED vars PROVE A
    BY <1>3 DEF Crash, vars, Moved
<1>4. IInv /\ [Next]_vars => A
    BY <1>1, <1>2, <1>3 DEF Next
<1>5. A => [\A r \in Handlers :
        LET before == requests[r].status
            after == requests[r].status'
        IN  before # after =>
                \/ <<before, after>> \in StatusMachine
                \/ /\ <<before, after>> = <<"CANCELLED", "APPROVED">>
                   /\ \E h \in Handlers : Marks(h, r)]_vars
    BY DEF Moved
<1> HIDE DEF A
<1> QED
    BY <1>4, <1>5, InductiveInvariant, PTL DEF Spec, OnlyLateMarksRevive

-----------------------------------------------------------------------------
(* What a request costs.                                                   *)

Weekdays(first, last) == {m \in first..last : ~ Weekend(m)}

\* The loop of calculateBusinessDays counts the weekdays it passes.
LEMMA CountsWeekdays ==
    ASSUME NEW day \in Int
    PROVE  \A n \in Nat : CountFrom(day)[n] = Cardinality(Weekdays(day, day + n - 1))
<1> DEFINE Rule(count) ==
        count = [n \in Nat |->
                    IF n = 0 THEN 0
                    ELSE count[n - 1] + (IF Weekend(day + n - 1) THEN 0 ELSE 1)]
           W(n) == Weekdays(day, day + n - 1)
           weekdays == [n \in Nat |-> Cardinality(W(n))]
           count == CHOOSE count : Rule(count)
<1>1. \A n \in Nat : IsFiniteSet(W(n)) /\ Cardinality(W(n)) \in Nat
  <2> SUFFICES ASSUME NEW n \in Nat
               PROVE  IsFiniteSet(W(n)) /\ Cardinality(W(n)) \in Nat
    OBVIOUS
  <2>1. W(n) \in SUBSET (day..day + n - 1)
    BY DEF Weekdays
  <2>2. IsFiniteSet(day..day + n - 1)
    BY FS_Interval
  <2> QED
    BY <2>1, <2>2, FS_Subset, FS_CardinalityType
<1>2. Cardinality(W(0)) = 0
  <2>1. W(0) = {}
    BY DEF Weekdays
  <2> QED
    BY <2>1, FS_EmptySet
<1>3. ASSUME NEW n \in Nat
      PROVE  Cardinality(W(n + 1)) =
                Cardinality(W(n)) + (IF Weekend(day + n) THEN 0 ELSE 1)
  <2>1. W(n + 1) = IF Weekend(day + n) THEN W(n) ELSE W(n) \cup {day + n}
    <3>1. \A m \in Int : m \in day..day + (n + 1) - 1
                            <=> m \in day..day + n - 1 \/ m = day + n
      OBVIOUS
    <3> QED
      BY <3>1 DEF Weekdays
  <2>2. day + n \notin W(n)
    BY DEF Weekdays
  <2> HIDE DEF W
  <2>3. CASE Weekend(day + n)
    BY <1>1, <2>1, <2>3
  <2>4. CASE ~ Weekend(day + n)
    BY <1>1, <2>1, <2>2, <2>4, FS_AddElement
  <2> QED
    BY <2>3, <2>4
<1> HIDE DEF W
<1>4. Rule(weekdays)
  <2> SUFFICES ASSUME NEW n \in Nat
               PROVE  weekdays[n] =
                        IF n = 0 THEN 0
                        ELSE weekdays[n - 1] + (IF Weekend(day + n - 1) THEN 0 ELSE 1)
    OBVIOUS
  <2>1. CASE n = 0
    BY <1>2, <2>1
  <2>2. CASE n # 0
    <3>1. n - 1 \in Nat /\ (n - 1) + 1 = n /\ day + (n - 1) = day + n - 1
      BY <2>2
    <3>2. Cardinality(W(n)) =
            Cardinality(W(n - 1)) + (IF Weekend(day + n - 1) THEN 0 ELSE 1)
      BY <1>3, <3>1
    <3> QED
      BY <2>2, <3>1, <3>2
  <2> QED
    BY <2>1, <2>2
<1>5. Rule(count)
    BY <1>4
<1>6. CountFrom(day) = count
    BY DEF CountFrom
<1> HIDE DEF count
<1> DEFINE N == {n \in Nat : count[n] = Cardinality(W(n))}
<1>7. 0 \in N
    BY <1>2, <1>5
<1>8. ASSUME NEW n \in Nat, n \in N PROVE n + 1 \in N
  <2>1. count[n + 1] = count[n] + (IF Weekend(day + n) THEN 0 ELSE 1)
    <3>1. n + 1 \in Nat /\ n + 1 # 0 /\ (n + 1) - 1 = n /\ day + (n + 1) - 1 = day + n
      OBVIOUS
    <3>2. count[n + 1] = count[(n + 1) - 1]
                            + (IF Weekend(day + (n + 1) - 1) THEN 0 ELSE 1)
      BY <1>5, <3>1
    <3> QED
      BY <3>1, <3>2
  <2> QED
    BY <1>3, <1>8, <2>1
<1>9. N = Nat
  <2>1. N \in SUBSET Nat
    OBVIOUS
  <2> HIDE DEF N
  <2> QED
    BY <1>7, <1>8, <2>1, Induction
<1> QED
    BY <1>6, <1>9 DEF W

\* On a host that is not west of Greenwich a range costs its weekdays.
LEMMA BusinessDays ==
    ASSUME HostWest = FALSE, NEW first \in Int, NEW last \in Int, first <= last
    PROVE  calculateBusinessDays(first, last) =
             Cardinality({n \in first..last : n % 7 \in 1..5})
<1> DEFINE n == last - first + 1
<1>1. n \in Nat /\ first + n - 1 = last
    OBVIOUS
<1>2. CountFrom(first)[n] = Cardinality(Weekdays(first, last))
    BY <1>1, CountsWeekdays
<1>3. \A m \in Int : ~ Weekend(m) <=> m % 7 \in 1..5
    BY DEF Weekend
<1>4. Weekdays(first, last) = {m \in first..last : m % 7 \in 1..5}
    BY <1>3 DEF Weekdays
<1>5. ~ (first > last)
    OBVIOUS
<1> QED
    BY <1>2, <1>4, <1>5 DEF calculateBusinessDays, LocalDay

\* An object bears the cost of a submission that was let through.
Columns ==
    {"employee", "account", "first", "last", "days", "key", "status", "sync", "attempts"}

Accepted(s) == s \in Submissions /\ s.first <= s.last /\ DaysOf(s) \in 1..MaxDays

Priced(object) ==
    /\ DOMAIN object = Columns
    /\ \E s \in Submissions :
        /\ Accepted(s)
        /\ object.first = s.first /\ object.last = s.last /\ object.days = DaysOf(s)

\* Also of a handler that waits for the HCM.
Carrying == Holding \cup Late

PricedAt(h) ==
    /\ pc[h] \in Creating => task[h].kind = "create"
    /\ pc[h] \in Creating \ {"validate"} => Accepted(task[h].body)
    /\ pc[h] \in {"find"} \cup Carrying => task[h].kind \in Reviews
    /\ pc[h] \in Carrying => Priced(copy[h])

PriceInv ==
    /\ DOMAIN requests = Handlers /\ DOMAIN copy = Handlers /\ DOMAIN pc = Handlers
    /\ task \in [Handlers -> Tasks]
    /\ \A r \in Handlers : requests[r] = NoRequest \/ Priced(requests[r])
    /\ \A h \in Handlers : PricedAt(h)

\* A step of one handler that writes priced rows only.
LEMMA PriceStep ==
    ASSUME PriceInv, NEW h \in Handlers, NEW p, Goto(h, p), UNCHANGED task,
           UNCHANGED copy \/ \E object : copy' = [copy EXCEPT ![h] = object],
           \/ UNCHANGED requests
           \/ \E r \in Handlers : \E object :
                Priced(object) /\ requests' = [requests EXCEPT ![r] = object],
           p \in Creating => pc[h] \in Creating,
           p \in Creating \ {"validate"} => Accepted(task[h].body),
           p \in {"find"} \cup Carrying => task[h].kind \in Reviews,
           p \in Carrying => Priced(copy'[h])
    PROVE  PriceInv'
<1>1. pc' = [pc EXCEPT ![h] = p]
    BY DEF Goto
<1>2. DOMAIN pc' = Handlers /\ DOMAIN copy' = Handlers /\ DOMAIN requests' = Handlers
    BY <1>1 DEF PriceInv
<1>3. \A r \in Handlers : requests'[r] = NoRequest \/ Priced(requests'[r])
    BY DEF PriceInv
<1>4. ASSUME NEW g \in Handlers PROVE PricedAt(g)'
    <2>1. CASE g = h
        BY <1>1, <2>1 DEF PriceInv, PricedAt
    <2>2. CASE g # h
        <3>1. pc'[g] = pc[g] /\ copy'[g] = copy[g] /\ task'[g] = task[g]
            BY <1>1, <2>2 DEF PriceInv
        <3> QED
            BY <3>1 DEF PriceInv, PricedAt
    <2> QED
        BY <2>1, <2>2
<1> QED
    BY <1>2, <1>3, <1>4 DEF PriceInv

LEMMA StartPrices == ASSUME PriceInv, NEW h \in Handlers, Start(h) PROVE PriceInv'
<1>1. UNCHANGED <<requests, copy>>
    BY DEF Start, Submit, Review
<1>2. PICK p \in {"validate", "find"}, t \in Tasks :
        /\ pc' = [pc EXCEPT ![h] = p] /\ task' = [task EXCEPT ![h] = t]
        /\ p = "validate" => t.kind = "create"
        /\ p = "find" => t.kind \in Reviews
    <2>1. ASSUME NEW s \in Submissions, Submit(h, s)
          PROVE  \E t \in Tasks : /\ pc' = [pc EXCEPT ![h] = "validate"]
                                  /\ task' = [task EXCEPT ![h] = t] /\ t.kind = "create"
        <3> DEFINE t == [kind |-> "create", body |-> s]
        <3>1. t \in Tasks /\ t.kind = "create"
            BY DEF Tasks
        <3>2. pc' = [pc EXCEPT ![h] = "validate"] /\ task' = [task EXCEPT ![h] = t]
            BY <2>1 DEF Submit, Goto
        <3> HIDE DEF t
        <3> QED
            BY <3>1, <3>2
    <2>2. ASSUME NEW kind \in Reviews, NEW r \in Handlers, Review(h, kind, r)
          PROVE  \E t \in Tasks : /\ pc' = [pc EXCEPT ![h] = "find"]
                                  /\ task' = [task EXCEPT ![h] = t] /\ t.kind \in Reviews
        <3> DEFINE t == [kind |-> kind, request |-> r]
        <3>1. t \in Tasks /\ t.kind \in Reviews
            BY DEF Tasks, Reviews
        <3>2. pc' = [pc EXCEPT ![h] = "find"] /\ task' = [task EXCEPT ![h] = t]
            BY <2>2 DEF Review, Goto
        <3> HIDE DEF t
        <3> QED
            BY <3>1, <3>2
    <2> QED
        BY <2>1, <2>2 DEF Start, Reviews
<1>3. DOMAIN pc' = Handlers /\ task' \in [Handlers -> Tasks]
    BY <1>2 DEF PriceInv
<1>4. ASSUME NEW g \in Handlers PROVE PricedAt(g)'
    <2>1. CASE g = h
        <3>1. pc'[g] = p /\ task'[g] = t
            BY <1>2, <2>1 DEF PriceInv
        <3> QED
            BY <1>2, <3>1 DEF PricedAt, Creating, Carrying, Holding, Marking, Late
    <2>2. CASE g # h
        <3>1. pc'[g] = pc[g] /\ copy'[g] = copy[g] /\ task'[g] = task[g]
            BY <1>1, <1>2, <2>2 DEF PriceInv
        <3> QED
            BY <3>1 DEF PriceInv, PricedAt
    <2> QED
        BY <2>1, <2>2
<1> QED
    BY <1>1, <1>3, <1>4 DEF PriceInv

\* A save keeps the cost of what it saves.
LEMMA SavePrices ==
    ASSUME PriceInv, NEW h \in Handlers, pc[h] \in Carrying,
           SaveVerdict(h) \/ MarkSyncing(h) \/ MarkSynced(h) \/ MarkFailed(h)
    PROVE  PriceInv'
<1>1. Priced(copy[h]) /\ task[h].kind \in Reviews
    BY DEF PriceInv, PricedAt
<1>2. task[h].request \in Handlers
    BY <1>1 DEF PriceInv, Tasks, NoTask, Reviews
<1>3. PICK object :
        /\ SaveCopy(h, object)
        /\ DOMAIN object = DOMAIN copy[h]
        /\ object.first = copy[h].first /\ object.last = copy[h].last
        /\ object.days = copy[h].days
    <2> DEFINE Same(object) ==
            /\ DOMAIN object = DOMAIN copy[h]
            /\ object.first = copy[h].first /\ object.last = copy[h].last
            /\ object.days = copy[h].days
        verdict == [copy[h] EXCEPT !.status = Verdict(task[h].kind)]
        syncing == [copy[h] EXCEPT !.sync = "SYNCING", !.attempts = @ + 1]
        synced == [copy[h] EXCEPT !.sync = "SYNCED"]
        failed == [copy[h] EXCEPT !.sync = "FAILED"]
    <2>1. Same(verdict) /\ Same(syncing) /\ Same(synced) /\ Same(failed)
        BY <1>1 DEF Priced, Columns
    <2>2. SaveCopy(h, verdict) \/ SaveCopy(h, syncing) \/ SaveCopy(h, synced)
            \/ SaveCopy(h, failed)
        BY DEF SaveVerdict, MarkSyncing, MarkSynced, MarkFailed
    <2> HIDE DEF verdict, syncing, synced, failed
    <2> QED
        BY <2>1, <2>2
<1>4. Priced(object)
    BY <1>1, <1>3 DEF Priced
<1>5. /\ copy' = [copy EXCEPT ![h] = object]
      /\ requests' = [requests EXCEPT ![task[h].request] = object]
      /\ copy'[h] = object
    BY <1>3 DEF SaveCopy, PriceInv
<1>6. UNCHANGED task
    BY DEF SaveVerdict, MarkSyncing, MarkSynced, MarkFailed
<1>7. PICK p \in {"mark_syncing", "replied", "notify", "settled"} : Goto(h, p)
    BY DEF SaveVerdict, MarkSyncing, MarkSynced, MarkFailed
<1>8. p \notin Creating
    BY DEF Creating
<1> QED
    BY <1>1, <1>2, <1>4, <1>5, <1>6, <1>7, <1>8, PriceStep

LEMMA InsertPrices == ASSUME PriceInv, NEW h \in Handlers, Insert(h) PROVE PriceInv'
<1> DEFINE row == NewRequest(task[h].body)
<1>1. Accepted(task[h].body)
    BY DEF Insert, At, PriceInv, PricedAt, Creating
<1>2. Priced(row)
    BY <1>1 DEF Priced, NewRequest, Columns, Accepted
<1>3. UNCHANGED task
    BY DEF Insert
<1> HIDE DEF row
<1>4. CASE Goto(h, "error") /\ UNCHANGED <<requests, copy>>
    BY <1>3, <1>4, PriceStep DEF Creating, Carrying, Holding, Marking, Late
<1>5. CASE /\ Goto(h, "replied") /\ requests' = [requests EXCEPT ![h] = row]
           /\ copy' = [copy EXCEPT ![h] = row]
    BY <1>2, <1>3, <1>5, PriceStep DEF Creating, Carrying, Holding, Marking, Late
<1> QED
    BY <1>4, <1>5 DEF Insert, row

LEMMA FindPrices == ASSUME PriceInv, NEW h \in Handlers, Find(h) PROVE PriceInv'
<1> DEFINE found == requests[task[h].request]
<1>1. task[h].kind \in Reviews /\ UNCHANGED <<requests, task>>
    BY DEF Find, At, PriceInv, PricedAt
<1>2. task[h].request \in Handlers
    BY <1>1 DEF PriceInv, Tasks, NoTask, Reviews
<1>3. found = NoRequest \/ Priced(found)
    BY <1>2 DEF PriceInv
<1>4. CASE Goto(h, "refused") /\ UNCHANGED copy
    BY <1>1, <1>4, PriceStep DEF Creating, Carrying, Holding, Marking, Late
<1>5. CASE found # NoRequest /\ Goto(h, "settle") /\ copy' = [copy EXCEPT ![h] = found]
    <2>1. copy'[h] = found /\ Priced(found)
        BY <1>3, <1>5 DEF PriceInv
    <2> HIDE DEF found
    <2> QED
        BY <1>1, <1>5, <2>1, PriceStep DEF Creating
<1> QED
    BY <1>4, <1>5 DEF Find

\* The steps of create before its row, and those that carry an object on.
LEMMA WayPrices ==
    ASSUME PriceInv, NEW h \in Handlers,
           \/ Validate(h) \/ CheckKey(h) \/ CheckOverlap(h) \/ Reserve(h)
           \/ Settle(h) \/ LedgerFails(h) \/ Notify(h) \/ HcmAnswers(h)
    PROVE  PriceInv'
<1>1. UNCHANGED <<requests, task>>
    BY DEF Validate, CheckKey, CheckOverlap, Reserve, Settle, LedgerFails, Notify,
           NotifyIf, HcmAnswers
<1>2. CASE Validate(h)
    <2>1. pc[h] = "validate" /\ task[h].kind = "create"
        BY <1>2 DEF Validate, At, PriceInv, PricedAt, Creating
    <2>2. task[h].body \in Submissions
        BY <2>1 DEF PriceInv, Tasks, NoTask
    <2>3. CASE Goto(h, "refused")
        BY <1>1, <1>2, <2>3, PriceStep DEF Validate, Creating, Carrying, Holding, Marking, Late
    <2>4. CASE ValidDateRange(task[h].body.first, task[h].body.last) /\ Goto(h, "check_key")
        <3>1. Accepted(task[h].body)
            BY <2>2, <2>4 DEF Accepted, ValidDateRange, DaysOf
        <3> QED
            BY <1>1, <1>2, <2>1, <2>4, <3>1, PriceStep
            DEF Validate, Creating, Carrying, Holding, Marking, Late
    <2> QED
        BY <1>2, <2>3, <2>4 DEF Validate
<1>3. CASE CheckKey(h) \/ CheckOverlap(h) \/ Reserve(h)
    <2>1. pc[h] \in Creating \ {"validate"} /\ Accepted(task[h].body)
        BY <1>3 DEF CheckKey, CheckOverlap, Reserve, At, PriceInv, PricedAt, Creating
    <2>2. UNCHANGED copy \/ \E object : copy' = [copy EXCEPT ![h] = object]
        BY <1>3 DEF CheckKey, CheckOverlap, Reserve
    <2>3. PICK p \in {"check_overlap", "replied", "reserve", "refused", "insert"} : Goto(h, p)
        BY <1>3 DEF CheckKey, CheckOverlap, Reserve
    <2>4. p \notin {"find"} \cup Carrying
        BY DEF Carrying, Holding, Marking, Late
    <2> QED
        BY <1>1, <2>1, <2>2, <2>3, <2>4, PriceStep
<1>4. CASE LedgerFails(h)
    BY <1>1, <1>4, PriceStep DEF LedgerFails, Creating, Carrying, Holding, Marking, Late
<1>5. CASE Settle(h) \/ Notify(h) \/ HcmAnswers(h)
    <2>1. pc[h] \in Carrying /\ UNCHANGED copy
        BY <1>5 DEF Settle, Notify, NotifyIf, HcmAnswers, At, Carrying, Holding, Marking, Late
    <2>2. Priced(copy[h]) /\ task[h].kind \in Reviews
        BY <2>1 DEF PriceInv, PricedAt
    <2>3. PICK p \in {"save", "in_flight", "mark_synced", "mark_failed"} : Goto(h, p)
        BY <1>5 DEF Settle, Notify, NotifyIf, HcmAnswers
    <2>4. p \notin Creating
        BY DEF Creating
    <2> QED
        BY <1>1, <2>1, <2>2, <2>3, <2>4, PriceStep
<1> QED
    BY <1>2, <1>3, <1>4, <1>5

LEMMA CrashPrices == ASSUME PriceInv, Crash PROVE PriceInv'
<1>1. \A h \in Handlers : pc'[h] \notin {"find"} \cup Creating \cup Carrying
    BY DEF Crash, Ended, Creating, Carrying, Holding, Marking, Late
<1> QED
    BY <1>1 DEF Crash, PriceInv, PricedAt

\* Every row, and every object under way, costs what its dates are worth.
LEMMA Prices == Spec => []PriceInv
<1>1. Init => PriceInv
    BY DEF Init, PriceInv, PricedAt, Tasks, Creating, Carrying, Holding, Marking, Late
<1>2. PriceInv /\ [Next]_vars => PriceInv'
    <2> SUFFICES ASSUME PriceInv, [Next]_vars PROVE PriceInv'
        OBVIOUS
    <2>1. ASSUME NEW h \in Handlers, Step(h) PROVE PriceInv'
        <3>1. SaveVerdict(h) \/ MarkSyncing(h) \/ MarkSynced(h) \/ MarkFailed(h)
                => pc[h] \in Carrying
            BY DEF SaveVerdict, MarkSyncing, MarkSynced, MarkFailed, At, Carrying, Holding,
                   Marking, Late
        <3> QED
            BY <2>1, <3>1, WayPrices, InsertPrices, FindPrices, SavePrices
            DEF Step
    <2>2. CASE UNCHANGED vars
        BY <2>2 DEF vars, PriceInv, PricedAt
    <2> QED
        BY <2>1, <2>2, StartPrices, CrashPrices DEF Next
<1> QED
    BY <1>1, <1>2, PTL DEF Spec

\* On a host that is not west of Greenwich every request costs the weekdays
\* among its dates, and at least one, whatever interleaves, is linked to the
\* HCM or crashes.
THEOREM WeekdaysCharged == ASSUME HostWest = FALSE PROVE Spec => []ChargesBusinessDays
<1>1. PriceInv => ChargesBusinessDays
    <2> SUFFICES ASSUME PriceInv, NEW r \in Handlers, requests[r] # NoRequest
                 PROVE  LET dates == requests[r].first..requests[r].last
                        IN  /\ requests[r].days =
                                    Cardinality({n \in dates : n % 7 \in 1..5})
                            /\ requests[r].days > 0
        BY DEF ChargesBusinessDays
    <2>1. PICK s \in Submissions :
            /\ Accepted(s)
            /\ requests[r].first = s.first /\ requests[r].last = s.last
            /\ requests[r].days = DaysOf(s)
        BY DEF PriceInv, Priced
    <2>2. s.first \in Int /\ s.last \in Int /\ s.first <= s.last /\ DaysOf(s) \in 1..MaxDays
        BY <2>1, SubmissionsAssumption DEF Accepted
    <2>3. DaysOf(s) = Cardinality({n \in s.first..s.last : n % 7 \in 1..5})
        BY <2>2, BusinessDays DEF DaysOf
    <2>4. DaysOf(s) > 0
        BY <2>2, MaxDaysAssumption
    <2> QED
        BY <2>1, <2>3, <2>4
<1> QED
    BY <1>1, Prices, PTL


-----------------------------------------------------------------------------
(* What a restart, or a second cancellation, costs.                        *)

\* The days handler h has reserved and not yet put in a row, or settled and
\* not yet written off its row; the same of the used days.
Reserved(h, a) ==
    IF pc[h] = "insert"
    THEN IF task[h].body.account = a THEN DaysOf(task[h].body) ELSE 0
    ELSE IF pc[h] = "save" THEN 0 - Share(copy[h], a, "PENDING") ELSE 0

Taken(h, a) ==
    IF pc[h] = "save"
    THEN IF task[h].kind = "approve" THEN Share(copy[h], a, "PENDING")
         ELSE IF Withdrawn(task[h].request) THEN 0
         ELSE 0 - Share(copy[h], a, "APPROVED")
    ELSE 0

\* Has handler h given back the days of a request that had been cancelled.
Again(h) ==
    IF pc[h] = "save" /\ task[h].kind = "cancel" /\ Withdrawn(task[h].request) THEN 1 ELSE 0

\* Of whoever is under way.
ReservedNow(a) == IF running = Nobody THEN 0 ELSE Reserved(running, a)
TakenNow(a) == IF running = Nobody THEN 0 ELSE Taken(running, a)
AgainNow == IF running = Nobody THEN 0 ELSE Again(running)

\* Within what n restarts and second cancellations may have cost.
Near(days, expected, n) == days - expected \in -(n * LargestRequest)..(n * LargestRequest)

Slack(again) == crashes + SecondCancellations + again

DriftInv ==
    /\ SecondCancellations \in Nat
    /\ \A a \in Accounts :
        /\ Near(account[a].pending, StandingDays(a, "PENDING") + ReservedNow(a), Slack(AgainNow))
        /\ Near(account[a].used, StandingDays(a, "APPROVED") + TakenNow(a), Slack(AgainNow))

\* The same of handler h, to see what its step does.
PendingNear(h, a) ==
    Near(account[a].pending, StandingDays(a, "PENDING") + Reserved(h, a), Slack(Again(h)))
UsedNear(h, a) ==
    Near(account[a].used, StandingDays(a, "APPROVED") + Taken(h, a), Slack(Again(h)))

Counting == {"PENDING", "APPROVED"}

\* The days of the largest request are a number no accepted one exceeds.
LEMMA Largest ==
    /\ LargestRequest \in Nat
    /\ \A s : Accepted(s) => DaysOf(s) \in Nat /\ DaysOf(s) <= LargestRequest
<1> DEFINE D == {0} \cup {days \in 1..MaxDays : \E s \in Submissions : days = DaysOf(s)}
<1>1. D \in SUBSET Nat /\ D # {} /\ \A n \in D : n <= MaxDays
    BY MaxDaysAssumption
<1>2. \A s : Accepted(s) => DaysOf(s) \in D
    BY DEF Accepted
<1>3. LargestRequest = Max(D)
    BY DEF LargestRequest
<1> HIDE DEF D
<1>4. IsFiniteSet(D)
    BY <1>1, MaxDaysAssumption, FS_BoundedSetOfNaturals
<1>5. Max(D) \in D /\ \A n \in D : n <= Max(D)
    BY <1>1, <1>4, MaxOfFinite
<1> QED
    BY <1>1, <1>2, <1>3, <1>5

LEMMA ShareNat ==
    ASSUME NEW r \in Requests \cup {NoRequest}, NEW a, NEW status \in Counting
    PROVE  Share(r, a, status) \in Nat
<1>1. CASE r = NoRequest
    BY <1>1 DEF Share, NoRequest, Counting
<1>2. CASE r \in Requests
    BY <1>2, Dates DEF Share
<1> QED
    BY <1>1, <1>2

\* What a row adds to the days of its account, if it stands.
Standing(r, a, status) == IF Withdrawn(r) THEN 0 ELSE Share(requests[r], a, status)

Tables == requests \in [Handlers -> Requests \cup {NoRequest}]

LEMMA StandingNat ==
    ASSUME Tables, NEW r \in Handlers, NEW a, NEW status \in Counting
    PROVE  Standing(r, a, status) \in Nat
BY ShareNat DEF Standing, Tables

\* The days of the requests of an account are a number, no less than those of
\* any one of them.
LEMMA StandingDaysNat ==
    ASSUME Tables, NEW a, NEW status \in Counting
    PROVE  /\ StandingDays(a, status) \in Nat
           /\ \A r \in Handlers : Standing(r, a, status) <= StandingDays(a, status)
<1> DEFINE w == [r \in Handlers |-> Standing(r, a, status)]
<1>1. w \in [Handlers -> Nat]
    BY StandingNat
<1>2. StandingDays(a, status) = SumFunction(w)
    BY DEF StandingDays, Standing
<1>3. \A r \in Handlers : w[r] = Standing(r, a, status)
    OBVIOUS
<1> HIDE DEF w
<1> QED
    BY <1>1, <1>2, <1>3, HandlersAssumption, SumNat

\* When one row is written or cancelled, the days change by what it was and
\* what it is.
LEMMA StandingDaysChange ==
    ASSUME Tables, Tables', NEW a, NEW status \in Counting, NEW r \in Handlers,
           \A q \in Handlers \ {r} : Standing(q, a, status)' = Standing(q, a, status)
    PROVE  StandingDays(a, status)' = StandingDays(a, status) - Standing(r, a, status)
                                                + Standing(r, a, status)'
<1> DEFINE v == [q \in Handlers |-> Standing(q, a, status)]
           w == [q \in Handlers |-> Standing(q, a, status)']
<1>1. \A q \in Handlers : Standing(q, a, status)' \in Nat
    BY ShareNat DEF Standing, Tables
<1>2. v \in [Handlers -> Int] /\ w \in [Handlers -> Int]
    BY <1>1, StandingNat
<1>3. StandingDays(a, status) = SumFunction(v) /\ StandingDays(a, status)' = SumFunction(w)
    BY DEF StandingDays, Standing
<1>4. \A q \in Handlers \ {r} : v[q] = w[q]
    OBVIOUS
<1>5. v[r] = Standing(r, a, status) /\ w[r] = Standing(r, a, status)'
    OBVIOUS
<1> HIDE DEF v, w
<1> QED
    BY <1>2, <1>3, <1>4, <1>5, HandlersAssumption, SumChange

LEMMA StandingDaysSame ==
    ASSUME NEW a, NEW status,
           \A q \in Handlers : Standing(q, a, status)' = Standing(q, a, status)
    PROVE  StandingDays(a, status)' = StandingDays(a, status)
<1> DEFINE v == [q \in Handlers |-> Standing(q, a, status)]
           w == [q \in Handlers |-> Standing(q, a, status)']
<1>1. StandingDays(a, status) = SumFunction(v) /\ StandingDays(a, status)' = SumFunction(w)
    BY DEF StandingDays, Standing
<1>2. v = w
    OBVIOUS
<1> QED
    BY <1>1, <1>2

\* Where no cancellation is answered, none is a second one.
LEMMA SameSecond ==
    ASSUME Cancellations' = Cancellations, \A r : Withdrawn(r)' <=> Withdrawn(r)
    PROVE  SecondCancellations' = SecondCancellations
<1>1. {r \in Handlers : Withdrawn(r)}' = {r \in Handlers : Withdrawn(r)}
    OBVIOUS
<1> QED
    BY <1>1 DEF SecondCancellations

\* What each operation makes of an account.
LEMMA Charged ==
    ASSUME NEW c \in Account, NEW days \in Nat
    PROVE  /\ Updated(c, [kind |-> "reserve", days |-> days])
                = [c EXCEPT !.pending = c.pending + days]
           /\ Updated(c, [kind |-> "confirm", days |-> days])
                = [c EXCEPT !.pending = AtLeastZero(c.pending - days), !.used = c.used + days]
           /\ Updated(c, [kind |-> "release", days |-> days])
                = [c EXCEPT !.pending = AtLeastZero(c.pending - days)]
           /\ Updated(c, [kind |-> "restore", days |-> days])
                = [c EXCEPT !.used = AtLeastZero(c.used - days)]
BY DEF Account, Updated

\* Taking days that are there brings neither side further from the other,
\* though it stops at zero.
LEMMA ClampNear ==
    ASSUME NEW x \in Nat, NEW sum \in Nat, NEW days \in Nat, days <= sum,
           NEW b \in Nat, x - sum \in -b..b
    PROVE  AtLeastZero(x - days) - (sum - days) \in -b..b
BY DEF AtLeastZero

\* What whoever is under way has open is what the handler that steps has.
LEMMA OpenNow ==
    ASSUME IInv, NEW h \in Handlers, running \in {Nobody, h}, NEW a
    PROVE  /\ ReservedNow(a) = Reserved(h, a) /\ TakenNow(a) = Taken(h, a)
           /\ AgainNow = Again(h)
<1>1. CASE running = Nobody
    <2>1. pc[h] \in Idle
        BY <1>1, NobodyAssumption DEF IInv, Turn
    <2> QED
        BY <1>1, <2>1 DEF ReservedNow, TakenNow, AgainNow, Reserved, Taken, Again,
            Idle, Ended
<1>2. CASE running = h
    BY <1>2, NobodyAssumption DEF ReservedNow, TakenNow, AgainNow
<1> QED
    BY <1>1, <1>2

LEMMA OpenThen ==
    ASSUME IInv', NEW h \in Handlers, running' \in {Nobody, h}, NEW a
    PROVE  /\ ReservedNow(a)' = Reserved(h, a)' /\ TakenNow(a)' = Taken(h, a)'
           /\ AgainNow' = Again(h)'
<1>1. CASE running' = Nobody
    <2>1. pc'[h] \in Idle
        BY <1>1, NobodyAssumption DEF IInv, Turn
    <2> QED
        BY <1>1, <2>1 DEF ReservedNow, TakenNow, AgainNow, Reserved, Taken, Again,
            Idle, Ended
<1>2. CASE running' = h
    BY <1>2, NobodyAssumption DEF ReservedNow, TakenNow, AgainNow
<1> QED
    BY <1>1, <1>2

\* A step of a handler keeps the drift if it keeps, for each account, what is
\* reserved and what is taken near what the rows and the handler say.
LEMMA DriftStep ==
    ASSUME OneTurn, IInv, IInv', DriftInv, NEW h \in Handlers, NEW p,
           MayRun(h), Goto(h, p), SecondCancellations' \in Nat,
           \A a \in Accounts : /\ PendingNear(h, a) => PendingNear(h, a)'
                               /\ UsedNear(h, a) => UsedNear(h, a)'
    PROVE  DriftInv'
<1>1. running \in {Nobody, h} /\ running' \in {Nobody, h}
    BY DEF OneTurn, MayRun, Goto
<1> SUFFICES ASSUME NEW a \in Accounts
             PROVE  /\ Near(account[a].pending,
                            StandingDays(a, "PENDING") + ReservedNow(a), Slack(AgainNow))'
                    /\ Near(account[a].used,
                            StandingDays(a, "APPROVED") + TakenNow(a), Slack(AgainNow))'
    BY DEF DriftInv
<1>2. /\ ReservedNow(a) = Reserved(h, a) /\ TakenNow(a) = Taken(h, a)
      /\ AgainNow = Again(h)
      /\ ReservedNow(a)' = Reserved(h, a)' /\ TakenNow(a)' = Taken(h, a)'
      /\ AgainNow' = Again(h)'
    BY <1>1, OpenNow, OpenThen
<1>3. PendingNear(h, a) /\ UsedNear(h, a)
    BY <1>2 DEF DriftInv, PendingNear, UsedNear
<1>4. PendingNear(h, a)' /\ UsedNear(h, a)'
    BY <1>3
<1> QED
    BY <1>2, <1>4 DEF PendingNear, UsedNear, Slack

\* Most steps touch neither accounts nor rows, nor stand between two writes,
\* nor answer a cancellation.
Aside(h) ==
    /\ pc[h] \notin {"save", "replied"}
    /\ pc'[h] = "replied" => task'[h].kind # "cancel"
    /\ \A g \in Handlers \ {h} : pc'[g] = pc[g] /\ task'[g] = task[g]

LEMMA AsideKeeps ==
    ASSUME NEW h \in Handlers, Aside(h)
    PROVE  /\ SecondCancellations' = SecondCancellations
           /\ \A r : Withdrawn(r)' <=> Withdrawn(r)
           /\ UNCHANGED requests =>
                \A a, status : StandingDays(a, status)' = StandingDays(a, status)
<1>1. Cancellations' = Cancellations /\ \A r : Withdrawn(r)' <=> Withdrawn(r)
    BY SameCancellations DEF Aside
<1>2. SecondCancellations' = SecondCancellations
    BY <1>1, SameSecond
<1>3. ASSUME UNCHANGED requests, NEW a, NEW status
      PROVE  StandingDays(a, status)' = StandingDays(a, status)
    <2>1. \A q \in Handlers : Standing(q, a, status)' = Standing(q, a, status)
        BY <1>1, <1>3 DEF Standing, Share
    <2> QED
        BY <2>1, StandingDaysSame
<1> QED
    BY <1>1, <1>2, <1>3

LEMMA DriftUntouched ==
    ASSUME OneTurn, IInv, IInv', DriftInv, NEW h \in Handlers, NEW p,
           MayRun(h), Goto(h, p), UNCHANGED <<account, requests, crashes>>, Aside(h),
           pc[h] # "insert", p \notin {"insert", "save"}
    PROVE  DriftInv'
<1>1. pc'[h] = p /\ pc[h] \notin {"insert", "save"}
    BY DEF Goto, IInv, Types, Aside
<1>2. \A a : /\ Reserved(h, a) = 0 /\ Taken(h, a) = 0 /\ Again(h) = 0
             /\ Reserved(h, a)' = 0 /\ Taken(h, a)' = 0 /\ Again(h)' = 0
    BY <1>1 DEF Reserved, Taken, Again
<1>3. /\ \A a : /\ StandingDays(a, "PENDING")' = StandingDays(a, "PENDING")
                /\ StandingDays(a, "APPROVED")' = StandingDays(a, "APPROVED")
      /\ SecondCancellations' = SecondCancellations
    BY AsideKeeps
<1>4. \A a \in Accounts : /\ PendingNear(h, a) => PendingNear(h, a)'
                          /\ UsedNear(h, a) => UsedNear(h, a)'
    BY <1>2, <1>3 DEF PendingNear, UsedNear, Near, Slack
<1>5. SecondCancellations' \in Nat
    BY <1>3 DEF DriftInv
<1> QED
    BY <1>4, <1>5, DriftStep

LEMMA ReserveDrift ==
    ASSUME OneTurn, IInv, IInv', DriftInv, NEW h \in Handlers, Reserve(h) PROVE DriftInv'
<1> DEFINE s == task[h].body
<1>1. pc[h] = "reserve" /\ MayRun(h) /\ UNCHANGED <<requests, task, copy, crashes>>
    BY DEF Reserve, At
<1>2. task[h].kind = "create" /\ DaysOf(s) \in 1..MaxDays
    BY <1>1 DEF IInv, Local, Creating
<1>3. s \in Submissions
    BY <1>2 DEF IInv, Types, Tasks, NoTask
<1>4. s.account \in Accounts /\ DaysOf(s) \in Nat
    BY <1>2, <1>3, Dates
<1>7. /\ \A g \in Handlers \ {h} : pc'[g] = pc[g] /\ task'[g] = task[g]
      /\ task'[h].kind # "cancel"
    BY <1>1, <1>2 DEF Reserve, Goto, IInv, Types
<1>8. Aside(h)
    BY <1>1, <1>7 DEF Aside
<1>5. CASE Goto(h, "refused") /\ UNCHANGED account
    BY <1>1, <1>5, <1>8, DriftUntouched
<1>6. CASE Goto(h, "insert") /\ Charge(s.account, "reserve", DaysOf(s))
    <2>1. pc'[h] = "insert"
        BY <1>6 DEF Goto, IInv, Types
    <2>4. /\ \A a : /\ StandingDays(a, "PENDING")' = StandingDays(a, "PENDING")
                    /\ StandingDays(a, "APPROVED")' = StandingDays(a, "APPROVED")
          /\ SecondCancellations' = SecondCancellations
        BY <1>1, <1>8, AsideKeeps
    <2>6. SecondCancellations' \in Nat
        BY <2>4 DEF DriftInv
    <2> SUFFICES ASSUME NEW a \in Accounts
                 PROVE  /\ PendingNear(h, a) => PendingNear(h, a)'
                        /\ UsedNear(h, a) => UsedNear(h, a)'
        BY <1>1, <1>6, <2>6, DriftStep
    <2> DEFINE d == IF s.account = a THEN DaysOf(s) ELSE 0
    <2>2. /\ Reserved(h, a) = 0 /\ Taken(h, a) = 0 /\ Again(h) = 0
          /\ Reserved(h, a)' = d /\ Taken(h, a)' = 0 /\ Again(h)' = 0
        BY <1>1, <2>1 DEF Reserved, Taken, Again
    <2>3. account'[a].pending = account[a].pending + d /\ account'[a].used = account[a].used
        <3>1. account[a] \in Account
            BY DEF IInv, Types
        <3>2. CASE s.account = a
            <4>1. account'[a] = Updated(account[a], [kind |-> "reserve", days |-> DaysOf(s)])
                BY <1>4, <1>6, <3>2 DEF Charge, IInv, Types
            <4>2. account'[a] = [account[a] EXCEPT !.pending = account[a].pending + DaysOf(s)]
                BY <1>4, <3>1, <4>1, Charged
            <4> QED
                BY <3>1, <3>2, <4>2 DEF Account
        <3>3. CASE s.account # a
            BY <1>4, <1>6, <3>1, <3>3 DEF Charge, IInv, Types, Account
        <3> QED
            BY <3>2, <3>3
    <2>5. /\ account[a].pending \in Nat /\ StandingDays(a, "PENDING") \in Nat /\ d \in Nat
        BY <1>4, StandingDaysNat DEF IInv, Types, Tables, Account, Counting
    <2> HIDE DEF d, s
    <2>7. account'[a].pending - (StandingDays(a, "PENDING") + d)
                = account[a].pending - (StandingDays(a, "PENDING") + 0)
        BY <2>3, <2>5
    <2> QED
        BY <1>1, <2>2, <2>3, <2>4, <2>7 DEF PendingNear, UsedNear, Near, Slack
<1> QED
    BY <1>5, <1>6 DEF Reserve

\* The row that appears takes over what was reserved for it.
LEMMA InsertDrift ==
    ASSUME OneTurn, IInv, IInv', DriftInv, NEW h \in Handlers, Insert(h) PROVE DriftInv'
<1> DEFINE s == task[h].body
           row == NewRequest(s)
<1>1. pc[h] = "insert" /\ MayRun(h) /\ UNCHANGED <<account, task, crashes>>
    BY DEF Insert, At
<1>2. /\ task[h].kind = "create" /\ DaysOf(s) \in 1..MaxDays /\ SameKey(s) = {}
      /\ requests[h] = NoRequest
    BY <1>1 DEF IInv, Local, Rows, Creating
<1>3. Goto(h, "replied") /\ requests' = [requests EXCEPT ![h] = row]
    BY <1>2 DEF Insert
<1>4. /\ requests'[h] = row
      /\ \A q \in Handlers \ {h} : requests'[q] = requests[q]
      /\ pc'[h] = "replied"
    BY <1>3 DEF IInv, Types, Goto
<1>5. ~Withdrawn(h)
    BY <1>2 DEF IInv, Rows, NoRequest, Decided
<1>6. Aside(h)
    BY <1>1, <1>2, <1>3 DEF Aside, Goto, IInv, Types
<1>7. SecondCancellations' = SecondCancellations /\ \A r : Withdrawn(r)' <=> Withdrawn(r)
    BY <1>6, AsideKeeps
<1>8. SecondCancellations' \in Nat
    BY <1>7 DEF DriftInv
<1> SUFFICES ASSUME NEW a \in Accounts
             PROVE  /\ PendingNear(h, a) => PendingNear(h, a)'
                    /\ UsedNear(h, a) => UsedNear(h, a)'
    BY <1>1, <1>3, <1>8, DriftStep
<1> DEFINE d == IF s.account = a THEN DaysOf(s) ELSE 0
<1>9. Standing(h, a, "PENDING")' = d /\ Standing(h, a, "APPROVED")' = 0
    BY <1>4, <1>5, <1>7 DEF Standing, Share, NewRequest
<1>10. Standing(h, a, "PENDING") = 0 /\ Standing(h, a, "APPROVED") = 0
    BY <1>2, <1>5 DEF Standing, Share, NoRequest
<1>11. /\ Reserved(h, a) = d /\ Taken(h, a) = 0 /\ Again(h) = 0
       /\ Reserved(h, a)' = 0 /\ Taken(h, a)' = 0 /\ Again(h)' = 0
    BY <1>1, <1>4 DEF Reserved, Taken, Again
<1>12. d \in Int
    BY <1>2
<1> HIDE DEF d, row, s
<1>13. \A q \in Handlers \ {h} : \A status : Standing(q, a, status)' = Standing(q, a, status)
    BY <1>4, <1>7 DEF Standing, Share
<1>14. Tables /\ Tables'
    BY DEF IInv, Types, Tables
<1>15. /\ StandingDays(a, "PENDING")' = StandingDays(a, "PENDING") - 0 + d
       /\ StandingDays(a, "APPROVED")' = StandingDays(a, "APPROVED") - 0 + 0
    BY <1>9, <1>10, <1>13, <1>14, StandingDaysChange DEF Counting
<1>16. StandingDays(a, "PENDING") \in Nat /\ StandingDays(a, "APPROVED") \in Nat
    BY <1>14, StandingDaysNat DEF Counting
<1>17. /\ StandingDays(a, "PENDING")' + 0 = StandingDays(a, "PENDING") + d
       /\ StandingDays(a, "APPROVED")' = StandingDays(a, "APPROVED")
    BY <1>12, <1>15, <1>16
<1> QED
    BY <1>1, <1>7, <1>11, <1>17 DEF PendingNear, UsedNear, Near, Slack

\* What a review settles is written off its row later, and no row has more
\* days than all of its account together.
LEMMA SettleDrift ==
    ASSUME OneTurn, IInv, IInv', PriceInv, DriftInv, NEW h \in Handlers, Settle(h)
    PROVE  DriftInv'
<1> DEFINE kind == task[h].kind
           c == copy[h]
           o == [kind |-> Settlement(kind, c.status), days |-> c.days]
<1>1. /\ pc[h] = "settle" /\ MayRun(h) /\ Goto(h, "save")
      /\ UNCHANGED <<requests, task, copy, crashes>>
      /\ account' = [account EXCEPT ![c.account] = Updated(@, o)]
    BY DEF Settle, At, Charge
<1>2. /\ kind \in Reviews /\ MayReview(kind, c.status)
      /\ c \in Requests /\ c = requests[task[h].request]
    BY <1>1 DEF IInv, Local, Reviewing, Holding
<1>3. task[h].request \in Handlers
    BY <1>2, Reviewed
<1>4. c.account \in Accounts /\ c.days \in Nat
    BY <1>2, Dates
<1>5. pc'[h] = "save"
    BY <1>1 DEF Goto, IInv, Types
<1>60. /\ SecondCancellations' = SecondCancellations /\ \A r : Withdrawn(r)' <=> Withdrawn(r)
       /\ \A a, status : StandingDays(a, status)' = StandingDays(a, status)
    <2>1. Aside(h)
        BY <1>1 DEF Aside, Goto, IInv, Types
    <2> QED
        BY <1>1, <2>1, AsideKeeps
<1>61. SecondCancellations \in Nat /\ SecondCancellations' \in Nat
    BY <1>60 DEF DriftInv
<1>62. c.days <= LargestRequest
    <2>1. Priced(c)
        BY <1>1 DEF PriceInv, PricedAt, Carrying, Holding
    <2> QED
        BY <2>1, Largest DEF Priced
<1> SUFFICES ASSUME NEW a \in Accounts
             PROVE  /\ PendingNear(h, a) => PendingNear(h, a)'
                    /\ UsedNear(h, a) => UsedNear(h, a)'
    BY <1>1, <1>61, DriftStep
<1> DEFINE P == StandingDays(a, "PENDING")
           A == StandingDays(a, "APPROVED")
           held == Share(c, a, "PENDING")
           kept == Share(c, a, "APPROVED")
           again == IF kind = "cancel" /\ Withdrawn(task[h].request) THEN 1 ELSE 0
           m == crashes + SecondCancellations
           L == LargestRequest
<1>6. /\ P \in Nat /\ A \in Nat /\ held \in Nat /\ kept \in Nat
      /\ held <= P /\ kept <= L
      /\ ~Withdrawn(task[h].request) => kept <= A
      /\ Withdrawn(task[h].request) => held = 0 /\ kind = "cancel"
    <2>1. Tables
        BY DEF IInv, Types, Tables
    <2>2. /\ P \in Nat /\ A \in Nat /\ held \in Nat /\ kept \in Nat
          /\ Standing(task[h].request, a, "PENDING") <= P
          /\ Standing(task[h].request, a, "APPROVED") <= A
        BY <1>2, <1>3, <2>1, StandingDaysNat, ShareNat DEF Counting
    <2>3. kept <= L
        BY <1>4, <1>62, Largest DEF Share
    <2>4. CASE Withdrawn(task[h].request)
        <3>1. c.status \in Decided
            BY <1>2, <1>3, <2>4 DEF IInv, Rows
        <3>2. held = 0 /\ c.status # "PENDING"
            BY <3>1 DEF Share, Decided
        <3>3. kind = "cancel"
            BY <1>2, <3>2 DEF Reviews, MayReview
        <3> QED
            BY <2>2, <2>3, <2>4, <3>2, <3>3
    <2>5. CASE ~Withdrawn(task[h].request)
        <3>1. /\ Standing(task[h].request, a, "PENDING") = held
              /\ Standing(task[h].request, a, "APPROVED") = kept
            BY <1>2, <2>5 DEF Standing
        <3> QED
            BY <2>2, <2>3, <2>5, <3>1
    <2> QED
        BY <2>4, <2>5
<1>7. StandingDays(a, "PENDING")' = P /\ StandingDays(a, "APPROVED")' = A
    BY <1>60
<1>8. /\ Reserved(h, a) = 0 /\ Taken(h, a) = 0 /\ Again(h) = 0
      /\ Reserved(h, a)' = 0 - held
      /\ Taken(h, a)' = IF kind = "approve" THEN held
                        ELSE IF again = 1 THEN 0 ELSE 0 - kept
      /\ Again(h)' = again
    <2>1. Withdrawn(task[h].request)' <=> Withdrawn(task[h].request)
        BY <1>1, <1>60
    <2>2. Withdrawn(task[h].request) => kind = "cancel"
        BY <1>6
    <2> QED
        BY <1>1, <1>5, <2>1, <2>2 DEF Reserved, Taken, Again
<1>9. /\ account[a] \in Account /\ m \in Nat /\ m' = m /\ L \in Nat /\ again \in {0, 1}
      /\ again = 0 => kept <= A \/ kind = "approve"
      /\ again = 1 => held = 0 /\ kind # "approve"
    BY <1>1, <1>6, <1>60, <1>61, Largest, MaxCrashesAssumption DEF IInv, Types, Reviews
<1>10. /\ account'[a].pending = AtLeastZero(account[a].pending - held)
       /\ account'[a].used = IF kind = "approve" THEN account[a].used + held
                             ELSE AtLeastZero(account[a].used - kept)
    <2>0. account[a].pending \in Nat /\ account[a].used \in Nat
        BY <1>9 DEF Account
    <2>00. /\ AtLeastZero(account[a].pending - 0) = account[a].pending
           /\ AtLeastZero(account[a].used - 0) = account[a].used
        BY <2>0 DEF AtLeastZero
    <2>1. CASE c.account # a
        <3>1. held = 0 /\ kept = 0
            BY <2>1 DEF Share
        <3>2. account'[a] = account[a]
            BY <1>1, <2>1 DEF IInv, Types
        <3> HIDE DEF held, kept, kind
        <3> QED
            BY <2>0, <2>00, <3>1, <3>2
    <2>2. CASE c.account = a
        <3>1. account'[a] = Updated(account[a], o)
            BY <1>1, <2>2 DEF IInv, Types
        <3>2. CASE kind = "approve"
            <4>1. o = [kind |-> "confirm", days |-> c.days] /\ held = c.days
                BY <1>2, <2>2, <3>2 DEF MayReview, Settlement, Share
            <4>2. account'[a] = Updated(account[a], [kind |-> "confirm", days |-> c.days])
                BY <3>1, <4>1
            <4> HIDE DEF c, o, held, kept
            <4>3. account'[a] = [account[a] EXCEPT
                                    !.pending = AtLeastZero(account[a].pending - c.days),
                                    !.used = account[a].used + c.days]
                BY <1>4, <1>9, <4>2, Charged
            <4>4. /\ account'[a].pending = AtLeastZero(account[a].pending - c.days)
                  /\ account'[a].used = account[a].used + c.days
                BY <1>9, <4>3 DEF Account
            <4> QED
                BY <3>2, <4>1, <4>4
        <3>3. CASE kind # "approve" /\ c.status = "PENDING"
            <4>1. /\ o = [kind |-> "release", days |-> c.days]
                  /\ held = c.days /\ kept = 0
                BY <1>2, <2>2, <3>3 DEF Reviews, MayReview, Settlement, Share
            <4>2. account'[a] = Updated(account[a], [kind |-> "release", days |-> c.days])
                BY <3>1, <4>1
            <4> HIDE DEF c, o, held, kept
            <4>3. account'[a] = [account[a] EXCEPT
                                    !.pending = AtLeastZero(account[a].pending - c.days)]
                BY <1>4, <1>9, <4>2, Charged
            <4> QED
                BY <1>9, <2>00, <3>3, <4>1, <4>3 DEF Account
        <3>4. CASE kind # "approve" /\ c.status # "PENDING"
            <4>1. /\ o = [kind |-> "restore", days |-> c.days]
                  /\ held = 0 /\ kept = c.days
                BY <1>2, <2>2, <3>4 DEF Reviews, MayReview, Settlement, Share
            <4>2. account'[a] = Updated(account[a], [kind |-> "restore", days |-> c.days])
                BY <3>1, <4>1
            <4> HIDE DEF c, o, held, kept
            <4>3. account'[a] = [account[a] EXCEPT
                                    !.used = AtLeastZero(account[a].used - c.days)]
                BY <1>4, <1>9, <4>2, Charged
            <4> QED
                BY <1>9, <2>00, <3>4, <4>1, <4>3 DEF Account
        <3> QED
            BY <3>2, <3>3, <3>4
    <2> QED
        BY <2>1, <2>2
<1>11. account[a].pending \in Nat /\ account[a].used \in Nat
    BY <1>9 DEF Account
<1> HIDE DEF P, A, held, kept, again, m, L, kind, c, o
<1>12. ASSUME NEW b \in Nat, account[a].pending - (P + 0) \in -b..b
       PROVE  account'[a].pending - (P + (0 - held)) \in -b..b
    <2>1. PICK x \in Nat : x = account[a].pending
        BY <1>11
    <2>2. P + 0 = P
        BY <1>6
    <2>3. x - P \in -b..b
        BY <1>12, <2>1, <2>2
    <2>4. AtLeastZero(x - held) - (P - held) \in -b..b
        BY <1>6, <2>3, ClampNear
    <2>5. P + (0 - held) = P - held
        BY <1>6
    <2> QED
        BY <1>10, <2>1, <2>4, <2>5
<1>13. ASSUME NEW b \in Nat, again = 0, account[a].used - (A + 0) \in -b..b
       PROVE  account'[a].used - (A + (IF kind = "approve" THEN held ELSE 0 - kept)) \in -b..b
    <2>1. PICK x \in Nat : x = account[a].used
        BY <1>11
    <2>2. A + 0 = A
        BY <1>6
    <2>3. x - A \in -b..b
        BY <1>13, <2>1, <2>2
    <2>4. CASE kind = "approve"
        <3>1. (x + held) - (A + held) = x - A
            BY <1>6
        <3> QED
            BY <1>10, <2>1, <2>3, <2>4, <3>1
    <2>5. CASE kind # "approve"
        <3>1. AtLeastZero(x - kept) - (A - kept) \in -b..b
            BY <1>6, <1>9, <1>13, <2>3, <2>5, ClampNear
        <3>2. A + (0 - kept) = A - kept
            BY <1>6
        <3> QED
            BY <1>10, <2>1, <2>5, <3>1, <3>2
    <2> QED
        BY <2>4, <2>5
<1>14. ASSUME NEW b \in Nat, again = 1, account[a].used - (A + 0) \in -b..b
       PROVE  account'[a].used - (A + 0) \in -(b + L)..(b + L)
    <2>1. PICK x \in Nat : x = account[a].used
        BY <1>11
    <2>2. account'[a].used = AtLeastZero(x - kept)
        BY <1>9, <1>10, <1>14, <2>1
    <2>3. AtLeastZero(x - kept) \in Nat /\ AtLeastZero(x - kept) <= x /\ x <= AtLeastZero(x - kept) + L
        BY <1>6, <1>9, <2>1 DEF AtLeastZero
    <2>4. x - (A + 0) \in -b..b
        BY <1>14, <2>1
    <2>5. PICK y \in Nat : y = AtLeastZero(x - kept)
        BY <2>3
    <2>6. y - (A + 0) \in -(b + L)..(b + L)
        BY <1>6, <1>9, <2>3, <2>4, <2>5
    <2> QED
        BY <2>2, <2>5, <2>6
<1>15. /\ (m + 0) * L \in Nat
       /\ (m + 1) * L = (m + 0) * L + L
    <2>1. \A u, v \in Nat : (u + 0) * v \in Nat /\ (u + 1) * v = (u + 0) * v + v
        OBVIOUS
    <2> QED
        BY <1>9, <2>1
<1>16. /\ PendingNear(h, a) <=> account[a].pending - (P + 0) \in -((m + 0) * L)..((m + 0) * L)
       /\ PendingNear(h, a)' <=> account'[a].pending - (P + (0 - held))
                                    \in -((m + again) * L)..((m + again) * L)
       /\ UsedNear(h, a) <=> account[a].used - (A + 0) \in -((m + 0) * L)..((m + 0) * L)
    BY <1>1, <1>7, <1>8, <1>60 DEF PendingNear, UsedNear, Near, Slack, P, A, m, L
<1>17. UsedNear(h, a)' <=> account'[a].used - (A + Taken(h, a)')
                                    \in -((m + again) * L)..((m + again) * L)
    BY <1>1, <1>7, <1>8, <1>60 DEF UsedNear, Near, Slack, A, m, L
<1>18. CASE again = 0
    <2>1. PendingNear(h, a) => PendingNear(h, a)'
        BY <1>12, <1>15, <1>16, <1>18
    <2>2. Taken(h, a)' = IF kind = "approve" THEN held ELSE 0 - kept
        BY <1>8, <1>18
    <2>3. UsedNear(h, a) => UsedNear(h, a)'
        BY <1>13, <1>15, <1>16, <1>17, <1>18, <2>2
    <2> QED
        BY <2>1, <2>3
<1>19. CASE again = 1
    <2>1. Taken(h, a)' = 0
        BY <1>8, <1>9, <1>19
    <2>2. UsedNear(h, a) => UsedNear(h, a)'
        BY <1>14, <1>15, <1>16, <1>17, <1>19, <2>1
    <2>3. ASSUME PendingNear(h, a)
          PROVE  account'[a].pending - (P + (0 - held)) \in -((m + 0) * L)..((m + 0) * L)
        BY <1>12, <1>15, <1>16, <2>3
    <2>4. \A x \in Int : \A b \in Nat : x \in -b..b => x \in -(b + L)..(b + L)
        BY <1>9
    <2>5. account'[a].pending - (P + (0 - held)) \in Int
        <3>1. account'[a].pending \in Nat
            BY DEF IInv, Types, Account
        <3> QED
            BY <1>6, <3>1
    <2>6. PendingNear(h, a) => PendingNear(h, a)'
        BY <1>15, <1>16, <1>19, <2>3, <2>4, <2>5
    <2> QED
        BY <2>2, <2>6
<1> QED
    BY <1>9, <1>18, <1>19

\* A verdict answers a cancellation if it is one: the first of its request,
\* or a second one.
LEMMA VerdictCounts ==
    ASSUME OneTurn, IInv, SecondCancellations \in Nat, NEW h \in Handlers, SaveVerdict(h)
    PROVE  /\ SecondCancellations' = SecondCancellations + Again(h)
           /\ \A r : Withdrawn(r)' <=>
                        Withdrawn(r) \/ (r = task[h].request /\ task[h].kind = "cancel")
<1> DEFINE W == {r \in Handlers : Withdrawn(r)}
           q == task[h].request
<1>1. /\ pc[h] = "save" /\ UNCHANGED task
      /\ \A g \in Handlers \ {h} : pc'[g] = pc[g] /\ task'[g] = task[g]
      /\ pc'[h] = IF task[h].kind = "approve" THEN "mark_syncing" ELSE "replied"
    BY DEF SaveVerdict, At, Goto, IInv, Types
<1>2. CASE task[h].kind # "cancel"
    <2>1. Cancellations' = Cancellations /\ \A r : Withdrawn(r)' <=> Withdrawn(r)
        BY <1>1, <1>2, SameCancellations
    <2>2. Again(h) = 0
        BY <1>2 DEF Again
    <2>3. SecondCancellations' = SecondCancellations
        BY <2>1, SameSecond
    <2> QED
        BY <1>2, <2>1, <2>2, <2>3
<1>3. CASE task[h].kind = "cancel"
    <2>1. q \in Handlers
        BY <1>3, Reviewed DEF Reviews
    <2>2. h \notin Cancellations /\ Cancellations' = Cancellations \cup {h}
        <3>1. h \in Cancellations' /\ h \notin Cancellations
            BY <1>1, <1>3 DEF Cancellations
        <3>2. \A g \in Handlers \ {h} : g \in Cancellations' <=> g \in Cancellations
            BY <1>1 DEF Cancellations
        <3>3. Cancellations \subseteq Handlers /\ Cancellations' \subseteq Handlers
            BY DEF Cancellations
        <3> QED
            BY <3>1, <3>2, <3>3
    <2>3. \A r : Withdrawn(r)' <=> Withdrawn(r) \/ r = q
        BY <1>1, <2>2 DEF Withdrawn
    <2> HIDE DEF q
    <2>4. W' = W \cup {q}
        BY <2>1, <2>3
    <2>5. /\ IsFiniteSet(Cancellations) /\ IsFiniteSet(W)
          /\ Cancellations \subseteq Handlers /\ W \subseteq Handlers
        BY HandlersAssumption, FS_Subset DEF Cancellations
    <2>6. /\ Cardinality(Cancellations') = Cardinality(Cancellations) + 1
          /\ Cardinality(W') = IF q \in W THEN Cardinality(W) ELSE Cardinality(W) + 1
        BY <2>2, <2>4, <2>5, FS_AddElement
    <2>7. Cardinality(Cancellations) \in Nat /\ Cardinality(W) \in Nat
        BY <2>5, FS_CardinalityType
    <2>8. /\ SecondCancellations = Cardinality(Cancellations) - Cardinality(W)
          /\ SecondCancellations' = Cardinality(Cancellations') - Cardinality(W')
        BY DEF SecondCancellations
    <2>9. Again(h) = IF q \in W THEN 1 ELSE 0
        BY <1>1, <1>3, <2>1 DEF Again, q
    <2> HIDE DEF W
    <2>10. SecondCancellations' = SecondCancellations + Again(h)
        BY <2>6, <2>7, <2>8, <2>9
    <2> QED
        BY <1>3, <2>3, <2>10 DEF q
<1> QED
    BY <1>2, <1>3

\* The verdict moves the days of its row from one sum to the other.
LEMMA VerdictDrift ==
    ASSUME OneTurn, IInv, IInv', DriftInv, NEW h \in Handlers, SaveVerdict(h) PROVE DriftInv'
<1> DEFINE kind == task[h].kind
           c == copy[h]
           r == task[h].request
           object == [c EXCEPT !.status = Verdict(kind)]
           p == IF kind = "approve" THEN "mark_syncing" ELSE "replied"
<1>1. /\ pc[h] = "save" /\ MayRun(h) /\ Goto(h, p)
      /\ requests' = [requests EXCEPT ![r] = object]
      /\ UNCHANGED <<account, task, crashes>>
    BY DEF SaveVerdict, SaveCopy, At
<1>2. /\ kind \in Reviews /\ MayReview(kind, c.status)
      /\ c \in Requests /\ c = requests[r]
    BY <1>1 DEF IInv, Local, Reviewing, Holding
<1>3. r \in Handlers
    BY <1>2, Reviewed
<1>4. /\ requests'[r] = object
      /\ \A q \in Handlers \ {r} : requests'[q] = requests[q]
      /\ pc'[h] = p /\ p \notin {"insert", "save"}
    BY <1>1, <1>3 DEF IInv, Types, Goto
<1>5. object.status = Verdict(kind) /\ object.account = c.account /\ object.days = c.days
    BY <1>2 DEF Requests
<1>6. <<kind, c.status, object.status>> \in {<<"approve", "PENDING", "APPROVED">>,
                                              <<"reject", "PENDING", "REJECTED">>,
                                              <<"cancel", "PENDING", "CANCELLED">>,
                                              <<"cancel", "APPROVED", "CANCELLED">>}
    <2>1. CASE kind = "approve"
        BY <1>2, <1>5, <2>1 DEF MayReview, Verdict
    <2>2. CASE kind = "reject"
        BY <1>2, <1>5, <2>2 DEF MayReview, Verdict
    <2>3. CASE kind = "cancel"
        BY <1>2, <1>5, <2>3 DEF MayReview, Verdict
    <2> QED
        BY <1>2, <2>1, <2>2, <2>3 DEF Reviews
<1>60. /\ SecondCancellations' = SecondCancellations + Again(h)
       /\ \A q : Withdrawn(q)' <=> Withdrawn(q) \/ (q = r /\ kind = "cancel")
    BY VerdictCounts DEF DriftInv
<1>61. SecondCancellations \in Nat /\ Again(h) \in Nat /\ SecondCancellations' \in Nat
    BY <1>60 DEF DriftInv, Again
<1>62. Tables /\ Tables'
    BY DEF IInv, Types, Tables
<1>63. Withdrawn(r) => c.status # "PENDING"
    BY <1>2, <1>3 DEF IInv, Rows, Decided
<1> SUFFICES ASSUME NEW a \in Accounts
             PROVE  /\ PendingNear(h, a) => PendingNear(h, a)'
                    /\ UsedNear(h, a) => UsedNear(h, a)'
    BY <1>1, <1>61, DriftStep
<1> DEFINE held == Share(c, a, "PENDING")
           kept == Share(c, a, "APPROVED")
<1>7. held \in Nat /\ kept \in Nat
    BY <1>2, ShareNat DEF Counting
<1>8. /\ Share(object, a, "PENDING") = 0
      /\ Share(object, a, "APPROVED") = IF kind = "approve" THEN held ELSE 0
      /\ kind = "approve" => kept = 0 /\ c.status = "PENDING"
      /\ c.status # "PENDING" => held = 0 /\ kind = "cancel"
    <2> HIDE DEF object, c, kind
    <2> QED
        BY <1>5, <1>6 DEF Share
<1> DEFINE gone == Withdrawn(r)
<1>9. /\ Reserved(h, a) = 0 - held
      /\ Taken(h, a) = IF kind = "approve" THEN held ELSE IF gone THEN 0 ELSE 0 - kept
      /\ Reserved(h, a)' = 0 /\ Taken(h, a)' = 0 /\ Again(h)' = 0
    BY <1>1, <1>4 DEF Reserved, Taken, Again
<1>64. PICK mine \in Handlers : mine = r
    BY <1>3
<1>10. /\ Standing(mine, a, "PENDING") = held
       /\ Standing(mine, a, "APPROVED") = IF gone THEN 0 ELSE kept
       /\ Standing(mine, a, "PENDING")' = 0
       /\ Standing(mine, a, "APPROVED")' = IF kind = "approve" THEN held ELSE 0
    <2>1. requests[mine] = c /\ requests'[mine] = object
        BY <1>2, <1>4, <1>64
    <2>2. gone => held = 0 /\ kind = "cancel"
        BY <1>8, <1>63
    <2>3. (Withdrawn(mine) <=> gone) /\ (Withdrawn(mine)' <=> gone \/ kind = "cancel")
        BY <1>60, <1>64
    <2>4. kind = "approve" => kind # "cancel"
        OBVIOUS
    <2>6. /\ Share(requests[mine], a, "PENDING") = held
          /\ Share(requests[mine], a, "APPROVED") = kept
        BY <2>1
    <2>7. /\ Share(requests'[mine], a, "PENDING") = 0
          /\ Share(requests'[mine], a, "APPROVED") = IF kind = "approve" THEN held ELSE 0
        BY <1>8, <2>1
    <2> HIDE DEF object, c, kind, r, gone, held, kept
    <2> QED
        BY <2>2, <2>3, <2>4, <2>6, <2>7 DEF Standing
<1>11. \A q \in Handlers \ {mine} : \A status : Standing(q, a, status)' = Standing(q, a, status)
    BY <1>4, <1>60, <1>64 DEF Standing
<1> HIDE DEF object, p
<1>12. /\ StandingDays(a, "PENDING")' = StandingDays(a, "PENDING") - held + 0
       /\ StandingDays(a, "APPROVED")' = StandingDays(a, "APPROVED")
                    - (IF gone THEN 0 ELSE kept) + (IF kind = "approve" THEN held ELSE 0)
    <2> HIDE DEF c, kind, r, gone, held, kept
    <2> QED
        BY <1>10, <1>11, <1>62, StandingDaysChange DEF Counting
<1>13. StandingDays(a, "PENDING") \in Nat /\ StandingDays(a, "APPROVED") \in Nat
    BY <1>62, StandingDaysNat DEF Counting
<1>14. kind = "approve" => kept = 0 /\ ~gone
    BY <1>8, <1>63
<1> HIDE DEF held, kept, kind, c, r, gone
<1>15. /\ StandingDays(a, "PENDING")' + 0 = StandingDays(a, "PENDING") + (0 - held)
       /\ StandingDays(a, "APPROVED")' + 0 = StandingDays(a, "APPROVED")
                + (IF kind = "approve" THEN held ELSE IF gone THEN 0 ELSE 0 - kept)
    BY <1>7, <1>12, <1>13, <1>14
<1>16. crashes + SecondCancellations' + 0 = crashes + SecondCancellations + Again(h)
    BY <1>60, <1>61, MaxCrashesAssumption DEF IInv, Types
<1>17. account' = account /\ crashes' = crashes
    BY <1>1
<1> QED
    BY <1>9, <1>15, <1>16, <1>17 DEF PendingNear, UsedNear, Near, Slack

\* The marks of the sync leave the days as they are; one that brings a request
\* back leaves it withdrawn.
LEMMA MarkDrift ==
    ASSUME OneTurn, IInv, IInv', DriftInv, NEW h \in Handlers,
           MarkSyncing(h) \/ MarkSynced(h) \/ MarkFailed(h)
    PROVE  DriftInv'
<1> DEFINE r == task[h].request
<1>1. /\ pc[h] \in {"mark_syncing", "mark_synced", "mark_failed"} /\ MayRun(h)
      /\ UNCHANGED <<account, task, crashes>>
    BY DEF MarkSyncing, MarkSynced, MarkFailed, At
<1>2. /\ copy[h] \in Requests /\ copy[h].status = "APPROVED" /\ task[h].kind = "approve"
      /\ requests[r].status \in Decided
      /\ requests[r].account = copy[h].account /\ requests[r].days = copy[h].days
    BY <1>1 DEF IInv, Local, Holding, Marking, Late, SameClaim, Decided
<1>3. r \in Handlers
    BY <1>2, Reviewed DEF Reviews
<1>4. PICK p \in {"notify", "settled"} : Goto(h, p)
    BY DEF MarkSyncing, MarkSynced, MarkFailed
<1>5. PICK object :
        /\ requests' = [requests EXCEPT ![r] = object]
        /\ object.status = "APPROVED" /\ object.account = copy[h].account
        /\ object.days = copy[h].days
    <2> DEFINE Same(object) == /\ object.status = "APPROVED"
                               /\ object.account = copy[h].account
                               /\ object.days = copy[h].days
               syncing == [copy[h] EXCEPT !.sync = "SYNCING", !.attempts = @ + 1]
               synced == [copy[h] EXCEPT !.sync = "SYNCED"]
               failed == [copy[h] EXCEPT !.sync = "FAILED"]
    <2>1. Same(syncing) /\ Same(synced) /\ Same(failed)
        BY <1>2 DEF Requests
    <2>2. \/ requests' = [requests EXCEPT ![r] = syncing]
          \/ requests' = [requests EXCEPT ![r] = synced]
          \/ requests' = [requests EXCEPT ![r] = failed]
        BY DEF MarkSyncing, MarkSynced, MarkFailed, SaveCopy
    <2> HIDE DEF syncing, synced, failed
    <2> QED
        BY <2>1, <2>2
<1>6. Aside(h) /\ pc'[h] = p
    BY <1>1, <1>4 DEF Aside, Goto, IInv, Types
<1>7. SecondCancellations' = SecondCancellations /\ \A q : Withdrawn(q)' <=> Withdrawn(q)
    BY <1>6, AsideKeeps
<1>8. ASSUME NEW q \in Handlers, NEW a, NEW status \in Counting
      PROVE  Standing(q, a, status)' = Standing(q, a, status)
    <2>1. CASE q # r
        BY <1>3, <1>5, <1>7, <2>1 DEF Standing, Share, IInv, Types
    <2>2. CASE q = r
        <3>1. requests'[r] = object
            BY <1>3, <1>5 DEF IInv, Types
        <3>2. requests[r].status # "APPROVED" => Withdrawn(r)
            BY <1>2, <1>3 DEF IInv, Rows, Decided
        <3> HIDE DEF r
        <3> QED
            BY <1>2, <1>5, <1>7, <2>2, <3>1, <3>2 DEF Standing, Share
    <2> QED
        BY <2>1, <2>2
<1>9. \A a : /\ StandingDays(a, "PENDING")' = StandingDays(a, "PENDING")
             /\ StandingDays(a, "APPROVED")' = StandingDays(a, "APPROVED")
    BY <1>8, StandingDaysSame DEF Counting
<1>10. \A a : /\ Reserved(h, a) = 0 /\ Taken(h, a) = 0 /\ Again(h) = 0
              /\ Reserved(h, a)' = 0 /\ Taken(h, a)' = 0 /\ Again(h)' = 0
    BY <1>1, <1>6 DEF Reserved, Taken, Again
<1>11. \A a \in Accounts : /\ PendingNear(h, a) => PendingNear(h, a)'
                           /\ UsedNear(h, a) => UsedNear(h, a)'
    BY <1>1, <1>7, <1>9, <1>10 DEF PendingNear, UsedNear, Near, Slack
<1>12. SecondCancellations' \in Nat
    BY <1>7 DEF DriftInv
<1> QED
    BY <1>1, <1>4, <1>11, <1>12, DriftStep

\* Whoever is stopped had one request open.
LEMMA CrashDrift ==
    ASSUME OneTurn, IInv, IInv', PriceInv, DriftInv, Crash PROVE DriftInv'
<1> DEFINE L == LargestRequest
           m == crashes + SecondCancellations
           b == (m + AgainNow) * L
<1>1. crashes' = crashes + 1 /\ running' = Nobody /\ UNCHANGED <<account, requests, task>>
    BY DEF Crash
<1>2. L \in Nat /\ m \in Nat /\ AgainNow \in {0, 1} /\ b \in Nat
    <2>1. L \in Nat /\ crashes \in Nat /\ SecondCancellations \in Nat
        BY Largest, MaxCrashesAssumption DEF IInv, Types, DriftInv
    <2>2. AgainNow \in {0, 1}
        BY DEF AgainNow, Again
    <2>3. \A u, v, w \in Nat : u + v \in Nat /\ (u + v) * w \in Nat
        OBVIOUS
    <2>4. m \in Nat
        BY <2>1, <2>3
    <2>5. AgainNow \in Nat
        BY <2>2
    <2> HIDE DEF L, m
    <2> QED
        BY <2>1, <2>2, <2>3, <2>4, <2>5
<1>3. /\ SecondCancellations' = SecondCancellations
      /\ \A a, status : StandingDays(a, status)' = StandingDays(a, status)
    <2>1. \A g \in Handlers : pc'[g] = "replied" <=> pc[g] = "replied"
        BY DEF Crash, Ended
    <2>2. Cancellations' = Cancellations
        BY <1>1, <2>1 DEF Cancellations
    <2>3. \A r : Withdrawn(r)' <=> Withdrawn(r)
        BY <1>1, <2>2 DEF Withdrawn
    <2>4. ASSUME NEW a, NEW status PROVE StandingDays(a, status)' = StandingDays(a, status)
        <3>1. \A q \in Handlers : Standing(q, a, status)' = Standing(q, a, status)
            BY <1>1, <2>3 DEF Standing, Share
        <3> QED
            BY <3>1, StandingDaysSame
    <2> QED
        BY <2>2, <2>3, <2>4, SameSecond
<1>20. SecondCancellations' \in Nat
    BY <1>3 DEF DriftInv
<1> SUFFICES ASSUME NEW a \in Accounts
             PROVE  /\ Near(account[a].pending,
                            StandingDays(a, "PENDING") + ReservedNow(a), Slack(AgainNow))'
                    /\ Near(account[a].used,
                            StandingDays(a, "APPROVED") + TakenNow(a), Slack(AgainNow))'
    BY <1>20 DEF DriftInv
<1>4. ASSUME NEW h \in Handlers PROVE Reserved(h, a) \in -L..L /\ Taken(h, a) \in -L..L
    <2>1. CASE pc[h] = "insert"
        <3>1. Accepted(task[h].body)
            BY <2>1 DEF PriceInv, PricedAt, Creating
        <3>2. DaysOf(task[h].body) \in Nat /\ DaysOf(task[h].body) <= L
            BY <3>1, Largest
        <3> HIDE DEF L
        <3>3. Reserved(h, a) \in {0, DaysOf(task[h].body)} /\ Taken(h, a) = 0
            BY <2>1 DEF Reserved, Taken
        <3> QED
            BY <1>2, <3>2, <3>3
    <2>2. CASE pc[h] = "save"
        <3>1. Priced(copy[h])
            BY <2>2 DEF PriceInv, PricedAt, Carrying, Holding
        <3>2. copy[h].days \in Nat /\ copy[h].days <= L
            BY <3>1, Largest DEF Priced
        <3> HIDE DEF L
        <3>3. \A status : Share(copy[h], a, status) \in {0, copy[h].days}
            BY DEF Share
        <3>4. /\ Reserved(h, a) \in {0, 0 - copy[h].days}
              /\ Taken(h, a) \in {0, copy[h].days, 0 - copy[h].days}
            BY <2>2, <3>2, <3>3 DEF Reserved, Taken
        <3> QED
            BY <1>2, <3>2, <3>4
    <2>3. CASE pc[h] \notin {"insert", "save"}
        BY <1>2, <2>3 DEF Reserved, Taken
    <2> QED
        BY <2>1, <2>2, <2>3
<1>5. /\ ReservedNow(a) \in -L..L /\ TakenNow(a) \in -L..L
      /\ AgainNow = 1 => ReservedNow(a) = 0 /\ TakenNow(a) = 0
    <2>1. CASE running = Nobody
        BY <1>2, <2>1 DEF ReservedNow, TakenNow, AgainNow
    <2>2. CASE running # Nobody
        <3>1. running \in Handlers
            BY <2>2 DEF IInv, Types
        <3>2. /\ ReservedNow(a) = Reserved(running, a) /\ TakenNow(a) = Taken(running, a)
              /\ AgainNow = Again(running)
            BY <2>2 DEF ReservedNow, TakenNow, AgainNow
        <3>3. ASSUME Again(running) = 1
              PROVE  Reserved(running, a) = 0 /\ Taken(running, a) = 0
            <4>1. /\ pc[running] = "save" /\ task[running].kind = "cancel"
                  /\ Withdrawn(task[running].request)
                BY <3>3 DEF Again
            <4>2. /\ task[running].request \in Handlers
                  /\ copy[running] = requests[task[running].request]
                BY <3>1, <4>1, Reviewed DEF Reviews, IInv, Local, Holding
            <4>3. copy[running].status # "PENDING"
                BY <4>1, <4>2 DEF IInv, Rows, Decided
            <4> QED
                BY <4>1, <4>3 DEF Reserved, Taken, Share
        <3> QED
            BY <1>4, <3>1, <3>2, <3>3
    <2> QED
        BY <2>1, <2>2
<1>6. ReservedNow(a)' = 0 /\ TakenNow(a)' = 0 /\ AgainNow' = 0
    BY <1>1 DEF ReservedNow, TakenNow, AgainNow
<1>7. /\ StandingDays(a, "PENDING")' = StandingDays(a, "PENDING")
      /\ StandingDays(a, "APPROVED")' = StandingDays(a, "APPROVED")
    BY <1>3
<1>8. /\ StandingDays(a, "PENDING") \in Nat /\ StandingDays(a, "APPROVED") \in Nat
      /\ account[a].pending \in Nat /\ account[a].used \in Nat
    BY StandingDaysNat DEF IInv, Types, Tables, Account, Counting
<1>9. /\ account[a].pending - (StandingDays(a, "PENDING") + ReservedNow(a)) \in -b..b
      /\ account[a].used - (StandingDays(a, "APPROVED") + TakenNow(a)) \in -b..b
    BY DEF DriftInv, Near, Slack
<1>10. (m + 1) * L \in Nat /\ (AgainNow = 0 => (m + 1) * L = b + L)
                         /\ (AgainNow = 1 => (m + 1) * L = b)
    <2>1. \A u, v \in Nat : (u + 1) * v \in Nat /\ (u + 1) * v = (u + 0) * v + v
        OBVIOUS
    <2> HIDE DEF m, L
    <2> QED
        BY <1>2, <2>1
<1>11. ASSUME NEW x \in Int, NEW sum \in Int, NEW n \in Int, n \in -L..L,
              AgainNow = 1 => n = 0, x - (sum + n) \in -b..b
       PROVE  x - (sum + 0) \in -((m + 1) * L)..((m + 1) * L)
    <2> HIDE DEF L, m, b
    <2>1. CASE AgainNow = 0
        <3>1. x - (sum + 0) \in -(b + L)..(b + L)
            BY <1>2, <1>11
        <3> QED
            BY <1>10, <2>1, <3>1
    <2>2. CASE AgainNow = 1
        <3>1. x - (sum + 0) \in -b..b
            BY <1>11, <2>2
        <3> QED
            BY <1>10, <2>2, <3>1
    <2> QED
        BY <1>2, <2>1, <2>2
<1>12. /\ account[a].pending - (StandingDays(a, "PENDING") + 0) \in -((m + 1) * L)..((m + 1) * L)
       /\ account[a].used - (StandingDays(a, "APPROVED") + 0) \in -((m + 1) * L)..((m + 1) * L)
    <2>1. ReservedNow(a) \in Int /\ TakenNow(a) \in Int
        BY <1>2, <1>5
    <2> HIDE DEF L, b, m
    <2> QED
        BY <1>5, <1>8, <1>9, <1>11, <2>1
<1>13. crashes' + SecondCancellations' + 0 = m + 1
    BY <1>1, <1>3, MaxCrashesAssumption DEF IInv, Types, DriftInv
<1> HIDE DEF m
<1> QED
    BY <1>1, <1>6, <1>7, <1>12, <1>13 DEF Near, Slack

\* However many restarts stop a handler between its two writes, and however
\* many requests come back after their cancellation, each restart and each
\* second cancellation costs the days of one request: within that, the pending
\* and used days of an account are those of its requests that stand.
THEOREM DriftStaysBounded == ASSUME OneTurn PROVE Spec => []DriftBounded
<1>1. Init => DriftInv
    <2> SUFFICES ASSUME Init PROVE DriftInv
        OBVIOUS
    <2>1. Cancellations = {} /\ {r \in Handlers : Withdrawn(r)} = {}
        BY DEF Init, Cancellations, Withdrawn
    <2>2. SecondCancellations = 0
        BY <2>1, FS_EmptySet DEF SecondCancellations
    <2>3. ASSUME NEW a \in Accounts, NEW status \in Counting PROVE StandingDays(a, status) = 0
        <3> DEFINE w == [r \in Handlers |-> Standing(r, a, status)]
        <3>1. w \in [Handlers -> Int] /\ \A r \in Handlers : w[r] = 0
            BY DEF Init, Standing, Share, NoRequest, Counting
        <3>2. SumFunction(w) = 0
            <4> HIDE DEF w
            <4> QED
                BY <3>1, HandlersAssumption, SumZero
        <3> QED
            BY <3>2 DEF StandingDays, Standing
    <2>4. \A a \in Accounts :
            /\ account[a].pending = 0 /\ account[a].used = 0 /\ crashes = 0
            /\ ReservedNow(a) = 0 /\ TakenNow(a) = 0 /\ AgainNow = 0
        BY DEF Init, ReservedNow, TakenNow, AgainNow
    <2>5. ASSUME NEW a \in Accounts
          PROVE  /\ Near(account[a].pending,
                          StandingDays(a, "PENDING") + ReservedNow(a), Slack(AgainNow))
                 /\ Near(account[a].used,
                          StandingDays(a, "APPROVED") + TakenNow(a), Slack(AgainNow))
        <3>1. Slack(AgainNow) = 0
            BY <2>2, <2>4, <2>5 DEF Slack
        <3>2. StandingDays(a, "PENDING") = 0 /\ StandingDays(a, "APPROVED") = 0
            BY <2>3 DEF Counting
        <3>3. Near(0, 0 + 0, 0)
            BY Largest DEF Near
        <3> QED
            BY <2>4, <3>1, <3>2, <3>3
    <2> QED
        BY <2>2, <2>5 DEF DriftInv
<1>2. ASSUME OneTurn, IInv, IInv', PriceInv, DriftInv, [Next]_vars PROVE DriftInv'
    <2>1. ASSUME NEW h \in Handlers, Start(h) PROVE DriftInv'
        <3>1. PICK p \in {"validate", "find"} : Goto(h, p)
            BY <2>1 DEF Start, Submit, Review
        <3>2. MayRun(h) /\ pc[h] = "start" /\ UNCHANGED <<account, requests, crashes>>
            BY <2>1 DEF Start, Submit, Review, At
        <3>3. \A g \in Handlers \ {h} : task'[g] = task[g]
            <4>1. PICK t : task' = [task EXCEPT ![h] = t]
                BY <2>1 DEF Start, Submit, Review
            <4> QED
                BY <1>2, <4>1 DEF IInv, Types
        <3>4. Aside(h)
            BY <1>2, <3>1, <3>2, <3>3 DEF Aside, Goto, IInv, Types
        <3> QED
            BY <1>2, <3>1, <3>2, <3>4, DriftUntouched
    <2>2. ASSUME NEW h \in Handlers,
                 \/ Validate(h) \/ CheckKey(h) \/ CheckOverlap(h) \/ Find(h)
                 \/ LedgerFails(h) \/ Notify(h) \/ HcmAnswers(h)
          PROVE  DriftInv'
        <3>1. PICK p \in {"check_key", "refused", "check_overlap", "replied", "reserve",
                          "settle", "error", "in_flight", "mark_synced", "mark_failed"} :
                    Goto(h, p)
            BY <2>2 DEF Validate, CheckKey, CheckOverlap, Find, LedgerFails, Notify, NotifyIf,
                        HcmAnswers
        <3>2. /\ MayRun(h) /\ pc[h] \notin {"insert", "save", "replied"}
              /\ UNCHANGED <<account, requests, task, crashes>>
            BY <2>2 DEF Validate, CheckKey, CheckOverlap, Find, LedgerFails, Notify, NotifyIf,
                        HcmAnswers, At
        <3>3. p = "replied" => task[h].kind = "create"
            <4>1. \A x : Goto(h, x) => pc'[h] = x
                BY <1>2 DEF Goto, IInv, Types
            <4>2. ASSUME p = "replied", ~CheckKey(h) PROVE FALSE
                <5>1. PICK x \in {"check_key", "refused", "reserve", "settle", "error",
                                  "in_flight", "mark_synced", "mark_failed"} : Goto(h, x)
                    BY <2>2, <4>2 DEF Validate, CheckOverlap, Find, LedgerFails, Notify,
                                      NotifyIf, HcmAnswers
                <5> QED
                    BY <3>1, <4>1, <4>2, <5>1
            <4>3. p = "replied" => pc[h] = "check_key"
                BY <4>2 DEF CheckKey, At
            <4> QED
                BY <1>2, <4>3 DEF IInv, Local, Creating
        <3>4. Aside(h)
            BY <1>2, <3>1, <3>2, <3>3 DEF Aside, Goto, IInv, Types
        <3> QED
            BY <1>2, <3>1, <3>2, <3>4, DriftUntouched
    <2>3. CASE UNCHANGED vars
        <3>1. Cancellations' = Cancellations
            BY <2>3 DEF vars, Cancellations
        <3>2. \A r : Withdrawn(r)' <=> Withdrawn(r)
            BY <2>3, <3>1 DEF vars, Withdrawn
        <3>3. SecondCancellations' = SecondCancellations
            BY <3>1, <3>2, SameSecond
        <3>4. \A a, status : \A q \in Handlers :
                    Standing(q, a, status)' = Standing(q, a, status)
            BY <2>3, <3>2 DEF vars, Standing, Share
        <3>5. \A a, status : StandingDays(a, status)' = StandingDays(a, status)
            BY <3>4, StandingDaysSame
        <3>6. \A h : Withdrawn(task[h].request)' <=> Withdrawn(task[h].request)
            BY <2>3, <3>1 DEF vars, Withdrawn
        <3>7. /\ AgainNow' = AgainNow
              /\ \A a : ReservedNow(a)' = ReservedNow(a) /\ TakenNow(a)' = TakenNow(a)
            BY <2>3, <3>2, <3>6
            DEF vars, ReservedNow, TakenNow, AgainNow, Reserved, Taken, Again
        <3> QED
            BY <1>2, <2>3, <3>3, <3>5, <3>7 DEF vars, DriftInv, Near, Slack
    <2> QED
        BY <1>2, <2>1, <2>2, <2>3, ReserveDrift, InsertDrift, SettleDrift, VerdictDrift,
           MarkDrift, CrashDrift
        DEF Next, Step
<1>3. IInv /\ DriftInv => DriftBounded
    <2> SUFFICES ASSUME IInv, DriftInv, Quiescent, NEW a \in Accounts
                 PROVE  /\ Near(account[a].pending, StandingDays(a, "PENDING"),
                                crashes + SecondCancellations)
                        /\ Near(account[a].used, StandingDays(a, "APPROVED"),
                                crashes + SecondCancellations)
        BY DEF DriftBounded, Near
    <2>1. running = Nobody
        BY DEF IInv, Types, Turn, Quiescent
    <2>2. ReservedNow(a) = 0 /\ TakenNow(a) = 0 /\ AgainNow = 0
        BY <2>1 DEF ReservedNow, TakenNow, AgainNow
    <2>3. StandingDays(a, "PENDING") \in Nat /\ StandingDays(a, "APPROVED") \in Nat
        BY StandingDaysNat DEF IInv, Types, Tables, Counting
    <2>4. /\ StandingDays(a, "PENDING") + 0 = StandingDays(a, "PENDING")
          /\ StandingDays(a, "APPROVED") + 0 = StandingDays(a, "APPROVED")
        BY <2>3
    <2>5. Slack(0) = crashes + SecondCancellations
        BY MaxCrashesAssumption DEF Slack, IInv, Types, DriftInv
    <2> QED
        BY <2>2, <2>4, <2>5 DEF DriftInv
<1>4. Spec => []DriftInv
    BY <1>1, <1>2, Prices, InductiveInvariant, PTL DEF Spec
<1> QED
    BY <1>3, <1>4, InductiveInvariant, PTL
=============================================================================
