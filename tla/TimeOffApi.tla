----------------------------- MODULE TimeOffApi -----------------------------
(***************************************************************************)
(* The service as its clients meet it: the idempotency middleware of       *)
(* src/common/middleware/idempotency.middleware.js in front of the leave   *)
(* requests and the employees, with clients that repeat what they asked    *)
(* and a process that restarts.                                            *)
(*                                                                         *)
(* A handler is one HTTP request.  Clients give a key to one operation and *)
(* to its repetitions only; the key of a review or of a new employee is    *)
(* called by what it asks for.  Employees are always posted under a key.   *)
(***************************************************************************)
EXTENDS LeaveRequestService

CONSTANTS
    Emails, HcmIds, NoLink, Locations, Staff, FirstStaff,
    CreateBodies, UpdateBodies      \* as in EmployeeService

VARIABLES
    employees, desk, errand, held,  \* as in EmployeeService
    header,         \* header[h]: the X-Idempotency-Key request h carries
    waiting,        \* requests that res.json has not answered
    processedKeys,  \* the requests whose answers are cached, under their keys
    late            \* late[h]: its key had made a row when h came (history)

leave == vars
people == <<employees, desk, errand, held>>
cache == <<header, waiting, processedKeys, late>>
apiVars == <<leave, people, cache>>

People == INSTANCE EmployeeService

ASSUME PeopleAssumption == People!SeedsAssumption /\ People!BodiesAssumption

\* A key belongs to one operation.
ASSUME KeysAssumption ==
    \A s \in Submissions :
        /\ \A kind \in {"approve", "reject", "cancel"}, r \in Handlers : s.key # <<kind, r>>
        /\ \A body \in CreateBodies : s.key # <<"employee", body>>

ApiInit ==
    /\ Init
    /\ People!Init
    /\ header = [h \in Handlers |-> NoKey]
    /\ waiting = {}
    /\ processedKeys = {}
    /\ late = [h \in Handlers |-> FALSE]

-----------------------------------------------------------------------------
(* use: a request comes in.                                                *)

Cached(key) == {g \in processedKeys : key # NoKey /\ header[g] = key}

\* Nothing says that a request with the key is under way.
Arrive(h, key) ==
    /\ pc[h] = "start" /\ desk[h] = "start"
    /\ header' = [header EXCEPT ![h] = key]
    /\ UNCHANGED processedKeys

\* next(): the request reaches its controller.
Pass(h, key) ==
    /\ Cached(key) = {}
    /\ waiting' = waiting \cup {h}

\* A cached answer is the object of the request that was answered with it; it
\* is sent at once, and its entry stays as old as it is.
Replay(key, g) ==
    /\ g \in Cached(key)
    /\ UNCHANGED waiting

ReplayLeave(h, asked, g) ==
    /\ task' = [task EXCEPT ![h] = asked]
    /\ copy' = [copy EXCEPT ![h] = copy[g]]
    /\ pc' = [pc EXCEPT ![h] = "replied"]
    /\ UNCHANGED <<account, requests, running, crashes>>

\* POST /leave-request
PostSubmission(h, s) ==
    /\ Arrive(h, s.key)
    /\ late' = [late EXCEPT ![h] = SameKey(s) # {}]
    /\ \/ Pass(h, s.key) /\ Submit(h, s)
       \/ \E g \in Handlers :
            /\ Replay(s.key, g)
            /\ ReplayLeave(h, [kind |-> "create", body |-> s], g)
    /\ UNCHANGED people

\* POST /leave-request/:id/approve, reject or cancel
PostReview(h, kind, r, key) ==
    /\ Arrive(h, key)
    /\ \/ Pass(h, key) /\ Review(h, kind, r)
       \/ \E g \in Handlers :
            /\ Replay(key, g)
            /\ ReplayLeave(h, [kind |-> kind, request |-> r], g)
    /\ UNCHANGED <<late, people>>

\* POST /employees
PostEmployee(h, body) ==
    LET key == <<"employee", body>> IN
    /\ Arrive(h, key)
    /\ \/ Pass(h, key) /\ People!Create(h, body)
       \/ /\ \E g \in Handlers : Replay(key, g)
          /\ errand' = [errand EXCEPT ![h] = [kind |-> "create", body |-> body]]
          /\ desk' = [desk EXCEPT ![h] = "replayed"]
          /\ UNCHANGED <<employees, held>>
    /\ UNCHANGED <<late, leave>>

\* PUT /employees/:id, which the middleware lets pass
PutEmployee(h, e, fields) ==
    /\ Arrive(h, NoKey)
    /\ waiting' = waiting \cup {h}
    /\ People!Update(h, e, fields)
    /\ UNCHANGED <<late, leave>>

-----------------------------------------------------------------------------
(* The answer.                                                             *)

AfterVerdict == {"mark_syncing", "notify", "in_flight", "mark_synced",
                 "mark_failed", "settled", "replied"}

Succeeded(h) == pc[h] \in AfterVerdict \/ desk[h] = "created"

Answerable(h) ==
    Succeeded(h) \/ pc[h] \in {"refused", "error"} \/ desk[h] \in People!Ended

\* Mutant of Answer: failures are cached like answers.
AnswerCachesAll(h) ==
    /\ h \in waiting /\ Answerable(h)
    /\ waiting' = waiting \ {h}
    /\ processedKeys' =
            IF header[h] # NoKey /\ Cached(header[h]) = {}
            THEN processedKeys \cup {h} ELSE processedKeys
    /\ UNCHANGED <<header, late, leave, people>>

\* Mutant of Answer: an entry of the same key is kept beside the new one.
AnswerKeepsBoth(h) ==
    /\ h \in waiting /\ Answerable(h)
    /\ waiting' = waiting \ {h}
    /\ processedKeys' =
            IF header[h] # NoKey /\ Succeeded(h)
            THEN processedKeys \cup {h} ELSE processedKeys
    /\ UNCHANGED <<header, late, leave, people>>

\* res.json: a success is cached, over what another request has put under the
\* same key meanwhile.  approve answers before its sync to the HCM.
Answer(h) ==
    /\ h \in waiting /\ Answerable(h)
    /\ waiting' = waiting \ {h}
    /\ processedKeys' =
            IF header[h] # NoKey /\ Succeeded(h)
            THEN (processedKeys \ Cached(header[h])) \cup {h} ELSE processedKeys
    /\ UNCHANGED <<header, late, leave, people>>

\* _cleanup, after 24 hours
Cleanup ==
    /\ \E expired \in SUBSET processedKeys \ {{}} :
            processedKeys' = processedKeys \ expired
    /\ UNCHANGED <<header, waiting, late, leave, people>>

-----------------------------------------------------------------------------
(* The services behind it.                                                 *)

\* validateActive and validateDateRange; every leave type offered is valid.
ValidateActive(h) ==
    /\ Validate(h)
    /\ pc'[h] = "check_key" <=>
            LET s == task[h].body
            IN  employees[s.employee].active /\ ValidDateRange(s.first, s.last)

LeaveStep(h) ==
    /\ \/ ValidateActive(h)
       \/ CheckKey(h)
       \/ CheckOverlap(h)
       \/ Reserve(h)
       \/ Insert(h)
       \/ Find(h)
       \/ Settle(h)
       \/ SaveVerdict(h)
       \/ LedgerFails(h)
       \/ MarkSyncing(h)
       \/ NotifyIf(h, employees[copy[h].employee].link # NoLink)
       \/ HcmAnswers(h)
       \/ MarkSynced(h)
       \/ MarkFailed(h)
    /\ UNCHANGED <<people, cache>>

PeopleStep(h) == People!Step(h) /\ UNCHANGED <<leave, cache>>

\* The cache is in memory: a restart forgets every key, and whoever waits for
\* an answer gets none.
Restart ==
    /\ Crash
    /\ desk' = [h \in Handlers |->
                    IF desk[h] \in People!Ended \cup {"start"} THEN desk[h] ELSE "crashed"]
    /\ waiting' = {}
    /\ processedKeys' = {}
    /\ UNCHANGED <<employees, errand, held, header, late>>

\* Updates of employees that do not exist change nothing and are left out.
ApiNext ==
    \/ \E h \in Handlers :
        \/ \E s \in Submissions : PostSubmission(h, s)
        \/ \E kind \in {"approve", "reject", "cancel"}, r \in Handlers :
                \E key \in {NoKey, <<kind, r>>} : PostReview(h, kind, r, key)
        \/ \E body \in CreateBodies : PostEmployee(h, body)
        \/ \E e \in People!Employed, fields \in UpdateBodies : PutEmployee(h, e, fields)
        \/ LeaveStep(h)
        \/ PeopleStep(h)
        \/ Answer(h)
    \/ Cleanup
    \/ Restart

ApiSpec == ApiInit /\ [][ApiNext]_apiVars

-----------------------------------------------------------------------------
\* Types of the variables; the cache holds one answer for a key.
ApiTypeOK ==
    /\ TypeOK
    /\ People!TypeOK
    /\ waiting \subseteq Handlers
    /\ processedKeys \subseteq Handlers \ waiting
    /\ \A g, h \in processedKeys : header[g] = header[h] => g = h

\* A submission that comes when its key has made a request reserves nothing,
\* be its key cached, expired, or forgotten by a restart, and be the request
\* it made long rejected (idempotency.middleware.js:16, "This is critical for
\* preventing double-submission of leave requests when clients retry after
\* network timeouts").
LateSubmissionsReserveNothing ==
    \A h \in Handlers :
        late[h] => pc[h] \notin {"check_overlap", "reserve", "insert"}

\* Whoever is told of success finds it done: a review has left PENDING, the
\* object returned bears its verdict, and an employee exists, whether the
\* answer was computed or comes out of the cache (docs/TRD.md:32, "Duplicate
\* request submissions produce the same result").
SuccessWasDone ==
    \A h \in Handlers :
        /\ pc[h] \in AfterVerdict /\ task[h].kind \in {"approve", "reject", "cancel"} =>
            /\ copy[h].status = Verdict(task[h].kind)
            /\ requests[task[h].request].status \notin {"none", "PENDING"}
        /\ desk[h] \in {"created", "replayed"} =>
            \E e \in People!Employed \cap Handlers :
                employees[e].email = errand[h].body.email

\* No two employees share an address or a link to the HCM, however creates,
\* repeated creates and updates race (employee.entity.js:19, :26, "unique").
UniqueIdentities == People!UniqueIdentities
=============================================================================
