-------------------------- MODULE IdempotencyProofs --------------------------
(***************************************************************************)
(* Theorems about idempotency: one key makes one request, a key that has   *)
(* made one never reserves days again, and whoever is told of success      *)
(* finds it done.  They hold whether or not the awaits let others run, for *)
(* every set of requests and keys, with entries that expire and restarts   *)
(* that forget them.                                                       *)
(*                                                                         *)
(* The argument has two halves.  The table only grows: a row keeps its key *)
(* and its dates, never becomes pending again, and shares its key with     *)
(* nobody, whatever stale objects are saved over it.  And an answer in the *)
(* cache is an answer to the same operation, because its header is.        *)
(*                                                                         *)
(* Two more follow.  An approved request whose sync is open is in the      *)
(* hands of an approval (InHand).  And the whole interface is well typed:  *)
(* an approval marks an object once, as it read one that was pending, and  *)
(* a pending request has never been sent to the HCM (LeaveTypes).          *)
(***************************************************************************)
EXTENDS TimeOffApiProofs

Creating == {"validate", "check_key", "check_overlap", "reserve", "insert"}
Marking == {"mark_syncing", "notify", "in_flight", "mark_synced", "mark_failed"}
Holding == {"settle", "save"} \cup Marking
Lost == {"refused", "error", "crashed"}
Places == Creating \cup {"find"} \cup Holding \cup Ended \cup {"start"}
Reviews == {"approve", "reject", "cancel"}

Columns ==
    {"employee", "account", "first", "last", "days", "key", "status", "sync", "attempts"}

IsRow(r) ==
    /\ DOMAIN r = Columns
    /\ r.status \in {"PENDING", "APPROVED", "REJECTED", "CANCELLED"}

UniqueKeys ==
    \A q, r \in Handlers :
        q # r /\ requests[q] # NoRequest /\ requests[r] # NoRequest
            /\ requests[q].key = requests[r].key
        => requests[q].key = NoKey

\* The object that a review holds is an older state of the row it saves it to.
Held(h) ==
    /\ pc[h] \in Creating \cup {"start"} => requests[h] = NoRequest
    /\ pc[h] \in Creating => task[h].kind = "create"
    /\ pc[h] \in {"find", "settled"} \cup Holding => task[h].kind \in Reviews
    /\ pc[h] \in Holding =>
            /\ IsRow(copy[h]) /\ requests[task[h].request] # NoRequest
            /\ copy[h].key = requests[task[h].request].key
            /\ copy[h].first = requests[task[h].request].first
    /\ pc[h] \in Marking => task[h].kind = "approve"

\* Whoever has its verdict returns it, and found it saved.
Decided(h) ==
    pc[h] \in AfterVerdict /\ task[h].kind \in Reviews =>
        /\ copy[h].status = Verdict(task[h].kind)
        /\ requests[task[h].request] # NoRequest
        /\ requests[task[h].request].status # "PENDING"

\* Whoever has made a request under a key, or found it, returns the only one.
Replied(h) ==
    pc[h] = "replied" /\ task[h].kind = "create" /\ task[h].body.key # NoKey =>
        \E r \in Handlers :
            /\ SameKey(task[h].body) = {r}
            /\ copy[h].first = requests[r].first

\* Whoever came late will find the request of its key.
Stopped(h) ==
    late[h] =>
        /\ pc[h] \notin {"check_overlap", "reserve", "insert"}
        /\ pc[h] \in {"validate", "check_key"} => SameKey(task[h].body) # {}

Sound(h) == Held(h) /\ Decided(h) /\ Replied(h) /\ Stopped(h)

Shape ==
    /\ DOMAIN requests = Handlers /\ DOMAIN copy = Handlers
    /\ pc \in [Handlers -> Places] /\ task \in [Handlers -> Tasks]
    /\ late \in [Handlers -> BOOLEAN]
    /\ \A r \in Handlers : requests[r] = NoRequest \/ IsRow(requests[r])

LeaveInv ==
    /\ Shape
    /\ UniqueKeys
    /\ \A h \in Handlers : Sound(h)

-----------------------------------------------------------------------------
(* The table only grows.                                                   *)

\* What a step of handler h may do to the table.
Grows(h) ==
    /\ DOMAIN requests' = Handlers
    /\ \A r \in Handlers :
        /\ requests'[r] = NoRequest \/ IsRow(requests'[r])
        /\ requests[r] = NoRequest => requests'[r] = NoRequest \/ r = h
        /\ requests[r] # NoRequest =>
            /\ requests'[r] # NoRequest
            /\ requests'[r].key = requests[r].key
            /\ requests'[r].first = requests[r].first
            /\ requests[r].status # "PENDING" => requests'[r].status # "PENDING"

\* What handlers other than h do not change.
Alone(h) ==
    /\ pc' \in [Handlers -> Places] /\ task' \in [Handlers -> Tasks]
    /\ DOMAIN copy' = Handlers /\ late' \in [Handlers -> BOOLEAN]
    /\ \A g \in Handlers :
        g # h => /\ pc'[g] = pc[g] /\ task'[g] = task[g]
                 /\ copy'[g] = copy[g] /\ late'[g] = late[g]

\* NoRequest is no row.
LEMMA NoRequestIsNone == ~IsRow(NoRequest)
BY DEF IsRow, NoRequest

\* A key's row is found again, and alone.
LEMMA KeyStays ==
    ASSUME LeaveInv, NEW h \in Handlers, Grows(h), UniqueKeys', NEW s, NEW r \in SameKey(s)
    PROVE  SameKey(s)' = {r} /\ requests'[r].first = requests[r].first
<1>1. /\ r \in Handlers /\ requests[r] # NoRequest /\ s.key # NoKey
      /\ requests[r].key = s.key
    BY DEF SameKey
<1>2. /\ requests'[r] # NoRequest /\ requests'[r].key = s.key
      /\ requests'[r].first = requests[r].first
    BY <1>1 DEF Grows
<1>3. ASSUME NEW q \in Handlers, requests'[q] # NoRequest, requests'[q].key = s.key
      PROVE  q = r
    BY <1>1, <1>2, <1>3 DEF UniqueKeys
<1> QED
    BY <1>1, <1>2, <1>3 DEF SameKey

\* A step of one handler leaves the others sound.
LEMMA OthersStaySound ==
    ASSUME LeaveInv, NEW h \in Handlers, Grows(h), UniqueKeys', Alone(h),
           NEW g \in Handlers, g # h
    PROVE  Sound(g)'
<1>1. /\ pc'[g] = pc[g] /\ task'[g] = task[g] /\ copy'[g] = copy[g] /\ late'[g] = late[g]
      /\ Sound(g)
    BY DEF Alone, LeaveInv
<1>2. pc[g] \in {"find"} \cup Holding \/ task[g].kind \in Reviews
        => task[g].request \in Handlers
    BY DEF LeaveInv, Shape, Tasks, NoTask, Reviews, Sound, Held
<1>3. Held(g)'
    BY <1>1, <1>2 DEF Sound, Held, Grows
<1>4. Decided(g)'
    BY <1>1, <1>2 DEF Sound, Decided, Grows
<1>5. Replied(g)'
    <2> SUFFICES ASSUME pc[g] = "replied", task[g].kind = "create", task[g].body.key # NoKey
                 PROVE  \E r \in Handlers : /\ SameKey(task[g].body)' = {r}
                                            /\ copy[g].first = requests'[r].first
        BY <1>1 DEF Replied
    <2>1. PICK r \in Handlers : SameKey(task[g].body) = {r} /\ copy[g].first = requests[r].first
        BY <1>1 DEF Sound, Replied
    <2>2. r \in SameKey(task[g].body)
        BY <2>1
    <2> QED
        BY <2>1, <2>2, KeyStays, <1>1
<1>6. Stopped(g)'
    <2> SUFFICES ASSUME late[g], pc[g] \in {"validate", "check_key"}
                 PROVE  SameKey(task[g].body)' # {}
        BY <1>1 DEF Stopped, Sound
    <2>1. PICK r \in SameKey(task[g].body) : TRUE
        BY <1>1 DEF Sound, Stopped
    <2> QED
        BY <2>1, KeyStays, <1>1
<1> QED
    BY <1>3, <1>4, <1>5, <1>6 DEF Sound

LEMMA StepKeeps ==
    ASSUME LeaveInv, NEW h \in Handlers, Grows(h), UniqueKeys', Alone(h), Sound(h)'
    PROVE  LeaveInv'
<1>1. Shape'
    BY DEF LeaveInv, Shape, Grows, Alone
<1>2. ASSUME NEW g \in Handlers PROVE Sound(g)'
    BY OthersStaySound
<1> QED
    BY <1>1, <1>2 DEF LeaveInv

\* The step of a handler that leaves the table as it is.
LEMMA QuietStep ==
    ASSUME LeaveInv, NEW h \in Handlers, UNCHANGED requests, Alone(h), Sound(h)'
    PROVE  LeaveInv'
<1>1. Grows(h)
    BY DEF LeaveInv, Shape, Grows
<1>2. UniqueKeys'
    BY DEF LeaveInv, UniqueKeys
<1> QED
    BY <1>1, <1>2, StepKeeps

\* Where a handler goes, it goes alone.
LEMMA GoneAlone ==
    ASSUME LeaveInv, NEW h \in Handlers, NEW p \in Places, Goto(h, p),
           UNCHANGED task, UNCHANGED late,
           \/ UNCHANGED copy
           \/ \E object : copy' = [copy EXCEPT ![h] = object]
    PROVE  Alone(h) /\ pc'[h] = p
BY DEF LeaveInv, Shape, Alone, Goto

\* Whoever is refused or fails has nothing to keep.
LEMMA LostStep ==
    ASSUME LeaveInv, NEW h \in Handlers, NEW p \in Lost, Goto(h, p),
           UNCHANGED <<requests, task, copy, late>>
    PROVE  LeaveInv'
<1>1. p \in Places
    BY DEF Lost, Places, Ended
<1>2. Alone(h) /\ pc'[h] = p
    BY <1>1, GoneAlone
<1>3. Sound(h)'
    BY <1>2
    DEF Lost, Sound, Held, Decided, Replied, Stopped, Creating, Holding, Marking, AfterVerdict
<1> QED
    BY <1>2, <1>3, QuietStep

-----------------------------------------------------------------------------
(* The steps of create.                                                    *)

LEMMA ValidateKeeps ==
    ASSUME LeaveInv, NEW h \in Handlers, Validate(h), UNCHANGED late PROVE LeaveInv'
<1>1. pc[h] = "validate" /\ UNCHANGED <<requests, task, copy, late>> /\ Sound(h)
    BY DEF Validate, At, LeaveInv
<1>2. CASE Goto(h, "refused")
    BY <1>1, <1>2, LostStep DEF Lost
<1>3. CASE Goto(h, "check_key")
    <2>1. Alone(h) /\ pc'[h] = "check_key"
        BY <1>1, <1>3, GoneAlone DEF Places, Creating
    <2>2. SameKey(task[h].body)' = SameKey(task[h].body)
        BY <1>1 DEF SameKey
    <2>3. Sound(h)'
        BY <1>1, <2>1, <2>2
        DEF Sound, Held, Decided, Replied, Stopped, Creating, Holding, Marking, AfterVerdict
    <2> QED
        BY <1>1, <2>1, <2>3, QuietStep
<1> QED
    BY <1>2, <1>3 DEF Validate

LEMMA CheckKeyKeeps ==
    ASSUME LeaveInv, NEW h \in Handlers, CheckKey(h), UNCHANGED late PROVE LeaveInv'
<1> DEFINE s == task[h].body
           r == CHOOSE r \in SameKey(s) : TRUE
<1>1. /\ pc[h] = "check_key" /\ task[h].kind = "create" /\ requests[h] = NoRequest
      /\ UNCHANGED <<requests, task, late>>
      /\ late[h] => SameKey(s) # {}
    BY DEF CheckKey, At, LeaveInv, Sound, Held, Stopped, Creating
<1>2. SameKey(s)' = SameKey(s)
    BY <1>1 DEF SameKey
<1>3. CASE SameKey(s) = {}
    <2>1. Goto(h, "check_overlap") /\ UNCHANGED copy
        BY <1>3 DEF CheckKey
    <2>2. Alone(h) /\ pc'[h] = "check_overlap"
        BY <1>1, <2>1, GoneAlone DEF Places, Creating
    <2>3. Sound(h)'
        BY <1>1, <1>3, <2>2
        DEF Sound, Held, Decided, Replied, Stopped, Creating, Holding, Marking, AfterVerdict,
            LeaveInv, Shape
    <2> QED
        BY <1>1, <2>2, <2>3, QuietStep
<1>4. CASE SameKey(s) # {}
    <2>1. Goto(h, "replied") /\ copy' = [copy EXCEPT ![h] = requests[r]]
        BY <1>4 DEF CheckKey
    <2>2. Alone(h) /\ pc'[h] = "replied"
        BY <1>1, <2>1, GoneAlone DEF Places, Ended
    <2>3. copy'[h] = requests[r] /\ r \in SameKey(s)
        BY <1>4, <2>1 DEF LeaveInv, Shape
    <2>4. r \in Handlers /\ SameKey(s) = {r}
        BY <2>3 DEF SameKey, LeaveInv, UniqueKeys
    <2> HIDE DEF r
    <2>5. Replied(h)'
        BY <1>1, <1>2, <2>3, <2>4 DEF Replied
    <2>6. Sound(h)'
        BY <1>1, <2>2, <2>5
        DEF Sound, Held, Decided, Stopped, Creating, Holding, Marking, Reviews
    <2> QED
        BY <1>1, <2>2, <2>6, QuietStep
<1> QED
    BY <1>3, <1>4

\* Between its check and its insert a create that came in time goes on.
LEMMA OnwardKeeps ==
    ASSUME LeaveInv, NEW h \in Handlers, CheckOverlap(h) \/ Reserve(h), UNCHANGED late
    PROVE  LeaveInv'
<1>1. /\ pc[h] \in {"check_overlap", "reserve"} /\ Sound(h)
      /\ UNCHANGED <<requests, task, copy, late>>
    BY DEF CheckOverlap, Reserve, At, LeaveInv
<1>2. PICK p \in {"refused", "reserve", "insert"} : Goto(h, p)
    BY DEF CheckOverlap, Reserve
<1>3. CASE p = "refused"
    BY <1>1, <1>2, <1>3, LostStep DEF Lost
<1>4. CASE p # "refused"
    <2>1. Alone(h) /\ pc'[h] = p
        BY <1>1, <1>2, <1>4, GoneAlone DEF Places, Creating
    <2>2. Sound(h)'
        BY <1>1, <1>2, <1>4, <2>1
        DEF Sound, Held, Decided, Replied, Stopped, Creating, Holding, Marking, AfterVerdict
    <2> QED
        BY <1>1, <2>1, <2>2, QuietStep
<1> QED
    BY <1>3, <1>4

\* The unique column lets a row in whose key is nobody else's.
LEMMA InsertKeeps ==
    ASSUME LeaveInv, NEW h \in Handlers, Insert(h), UNCHANGED late PROVE LeaveInv'
<1> DEFINE s == task[h].body
           row == NewRequest(s)
<1>1. /\ pc[h] = "insert" /\ task[h].kind = "create" /\ requests[h] = NoRequest
      /\ UNCHANGED <<task, late>> /\ ~late[h]
    BY DEF Insert, At, LeaveInv, Shape, Sound, Held, Stopped, Creating
<1>2. CASE SameKey(s) # {}
    <2>1. Goto(h, "error") /\ UNCHANGED <<requests, copy>>
        BY <1>2 DEF Insert
    <2> QED
        BY <1>1, <2>1, LostStep DEF Lost
<1>3. CASE SameKey(s) = {}
    <2>1. /\ Goto(h, "replied") /\ requests' = [requests EXCEPT ![h] = row]
          /\ copy' = [copy EXCEPT ![h] = row]
        BY <1>3 DEF Insert
    <2>2. IsRow(row) /\ row.key = s.key /\ row # NoRequest
        BY NoRequestIsNone DEF NewRequest, IsRow, Columns
    <2> HIDE DEF row, s
    <2>3. Alone(h) /\ pc'[h] = "replied"
        BY <1>1, <2>1, GoneAlone DEF Places, Ended
    <2>4. /\ requests'[h] = row /\ copy'[h] = row /\ DOMAIN requests' = Handlers
          /\ \A r \in Handlers : r # h => requests'[r] = requests[r]
        BY <2>1 DEF LeaveInv, Shape
    <2>5. Grows(h)
        BY <1>1, <2>2, <2>4 DEF Grows, LeaveInv, Shape
    <2>6. \A r \in Handlers : requests[r] # NoRequest /\ requests[r].key = s.key => s.key = NoKey
        BY <1>3 DEF SameKey
    <2>7. UniqueKeys'
        BY <2>2, <2>4, <2>6 DEF UniqueKeys, LeaveInv
    <2>8. s.key # NoKey => SameKey(s)' = {h}
        BY <1>1, <2>2, <2>4, <2>6 DEF SameKey, s
    <2>9. Replied(h)'
        BY <1>1, <2>4, <2>8 DEF Replied, s
    <2>10. Sound(h)'
        BY <1>1, <2>3, <2>9
        DEF Sound, Held, Decided, Stopped, Creating, Holding, Marking, Reviews
    <2> QED
        BY <2>3, <2>5, <2>7, <2>10, StepKeeps
<1> QED
    BY <1>2, <1>3

-----------------------------------------------------------------------------
(* The steps of a review.                                                  *)

\* A handler that reviews has a request to review.
LEMMA Reviewed ==
    ASSUME LeaveInv, NEW h \in Handlers, task[h].kind \in Reviews
    PROVE  task[h].request \in Handlers
BY DEF LeaveInv, Shape, Tasks, NoTask, Reviews

LEMMA FindKeeps ==
    ASSUME LeaveInv, NEW h \in Handlers, Find(h), UNCHANGED late PROVE LeaveInv'
<1> DEFINE found == requests[task[h].request]
<1>1. /\ pc[h] = "find" /\ task[h].kind \in Reviews /\ UNCHANGED <<requests, task, late>>
    BY DEF Find, At, LeaveInv, Sound, Held
<1>2. CASE Goto(h, "refused") /\ UNCHANGED copy
    BY <1>1, <1>2, LostStep DEF Lost
<1>3. CASE found # NoRequest /\ Goto(h, "settle") /\ copy' = [copy EXCEPT ![h] = found]
    <2>1. Alone(h) /\ pc'[h] = "settle"
        BY <1>1, <1>3, GoneAlone DEF Places, Holding
    <2>2. copy'[h] = found /\ IsRow(found)
        BY <1>1, <1>3, Reviewed DEF LeaveInv, Shape
    <2>3. Sound(h)'
        BY <1>1, <1>3, <2>1, <2>2
        DEF Sound, Held, Decided, Replied, Stopped, Creating, Holding, Marking, AfterVerdict
    <2> QED
        BY <1>1, <2>1, <2>3, QuietStep
<1> QED
    BY <1>2, <1>3 DEF Find

\* The steps of a review between its reads and its writes.
LEMMA WaitKeeps ==
    ASSUME LeaveInv, NEW h \in Handlers, UNCHANGED late,
           Settle(h) \/ HcmAnswers(h) \/ \E linked : NotifyIf(h, linked)
    PROVE  LeaveInv'
<1>1. /\ pc[h] \in {"settle", "notify", "in_flight"} /\ Sound(h)
      /\ UNCHANGED <<requests, task, copy, late>>
    BY DEF Settle, HcmAnswers, NotifyIf, At, LeaveInv
<1>2. \/ pc[h] = "settle" /\ Goto(h, "save")
      \/ pc[h] \in {"notify", "in_flight"}
            /\ \E p \in {"in_flight", "mark_synced", "mark_failed"} : Goto(h, p)
    BY DEF Settle, HcmAnswers, NotifyIf, At
<1>3. CASE pc[h] = "settle" /\ Goto(h, "save")
    <2>1. Alone(h) /\ pc'[h] = "save"
        BY <1>1, <1>3, GoneAlone DEF Places, Holding
    <2>2. Sound(h)'
        BY <1>1, <1>3, <2>1
        DEF Sound, Held, Decided, Replied, Stopped, Creating, Holding, Marking, AfterVerdict
    <2> QED
        BY <1>1, <2>1, <2>2, QuietStep
<1>4. CASE pc[h] \in {"notify", "in_flight"}
            /\ \E p \in {"in_flight", "mark_synced", "mark_failed"} : Goto(h, p)
    <2>1. PICK p \in {"in_flight", "mark_synced", "mark_failed"} : Goto(h, p)
        BY <1>4
    <2>2. Alone(h) /\ pc'[h] = p
        BY <1>1, <2>1, GoneAlone DEF Places, Holding, Marking
    <2>3. Sound(h)'
        BY <1>1, <1>4, <2>2
        DEF Sound, Held, Decided, Replied, Stopped, Creating, Holding, Marking, AfterVerdict
    <2> QED
        BY <1>1, <2>2, <2>3, QuietStep
<1> QED
    BY <1>2, <1>3, <1>4

\* A save writes an older state of the row over the row: its key and its dates
\* are the same, and what is saved is never pending.
LEMMA SaveKeeps ==
    ASSUME LeaveInv, NEW h \in Handlers, pc[h] \in Holding, NEW object,
           SaveCopy(h, object), IsRow(object),
           object.key = copy[h].key, object.first = copy[h].first,
           object.status = Verdict(task[h].kind), object.status # "PENDING",
           NEW p \in Marking \cup {"settled", "replied"}, Goto(h, p),
           p \in Marking => task[h].kind = "approve",
           UNCHANGED <<task, late>>
    PROVE  LeaveInv'
<1> DEFINE r == task[h].request
<1>1. Sound(h) /\ task[h].kind \in Reviews /\ r \in Handlers
    BY Reviewed DEF LeaveInv, Sound, Held
<1>2. /\ requests[r] # NoRequest
      /\ object.key = requests[r].key /\ object.first = requests[r].first
    BY <1>1 DEF Sound, Held
<1>3. Alone(h) /\ pc'[h] = p
    BY GoneAlone DEF SaveCopy, Places, Holding, Marking, Ended
<1>4. /\ requests'[r] = object /\ copy'[h] = object /\ DOMAIN requests' = Handlers
      /\ \A q \in Handlers : q # r => requests'[q] = requests[q]
    BY <1>1 DEF SaveCopy, LeaveInv, Shape
<1> HIDE DEF r
<1>5. object # NoRequest
    BY NoRequestIsNone
<1>6. Grows(h)
    BY <1>2, <1>4, <1>5 DEF Grows, LeaveInv, Shape
<1>7. UniqueKeys'
    BY <1>1, <1>2, <1>4 DEF UniqueKeys, LeaveInv
<1>8. /\ task'[h] = task[h] /\ requests'[task'[h].request] = object
      /\ late'[h] = late[h]
    BY <1>4 DEF r
<1>9. Held(h)'
    BY <1>1, <1>3, <1>4, <1>5, <1>8
    DEF Held, Creating, Holding, Marking
<1>10. Decided(h)' /\ Replied(h)' /\ Stopped(h)'
    BY <1>1, <1>3, <1>4, <1>5, <1>8
    DEF Decided, Replied, Stopped, Marking, Reviews
<1> QED
    BY <1>3, <1>6, <1>7, <1>9, <1>10, StepKeeps DEF Sound

LEMMA SaveVerdictKeeps ==
    ASSUME LeaveInv, NEW h \in Handlers, SaveVerdict(h), UNCHANGED late PROVE LeaveInv'
<1> DEFINE object == [copy[h] EXCEPT !.status = Verdict(task[h].kind)]
           p == IF task[h].kind = "approve" THEN "mark_syncing" ELSE "replied"
<1>1. /\ pc[h] = "save" /\ SaveCopy(h, object) /\ Goto(h, p) /\ UNCHANGED task
    BY DEF SaveVerdict, At
<1>2. pc[h] \in Holding /\ IsRow(copy[h]) /\ task[h].kind \in Reviews
    BY <1>1 DEF LeaveInv, Sound, Held, Holding
<1>3. Verdict(task[h].kind) \in {"APPROVED", "REJECTED", "CANCELLED"}
    BY <1>2 DEF Reviews, Verdict
<1>4. /\ IsRow(object) /\ object.status = Verdict(task[h].kind)
      /\ object.key = copy[h].key /\ object.first = copy[h].first
    BY <1>2, <1>3 DEF IsRow, Columns
<1>5. /\ p \in Marking \cup {"settled", "replied"}
      /\ p \in Marking => task[h].kind = "approve"
    BY DEF Marking
<1> HIDE DEF object, p
<1> QED
    BY <1>1, <1>2, <1>3, <1>4, <1>5, SaveKeeps

\* A mark of the sync saves what was approved as approved.
LEMMA MarkKeeps ==
    ASSUME LeaveInv, NEW h \in Handlers, UNCHANGED late,
           MarkSyncing(h) \/ MarkSynced(h) \/ MarkFailed(h)
    PROVE  LeaveInv'
<1>1. /\ pc[h] \in {"mark_syncing", "mark_synced", "mark_failed"} /\ UNCHANGED task
    BY DEF MarkSyncing, MarkSynced, MarkFailed, At
<1>2. /\ pc[h] \in Holding /\ IsRow(copy[h]) /\ task[h].kind = "approve"
      /\ copy[h].status = "APPROVED" /\ Verdict(task[h].kind) = "APPROVED"
    BY <1>1 DEF LeaveInv, Sound, Held, Decided, AfterVerdict, Holding, Marking, Reviews, Verdict
<1>3. ASSUME NEW object, SaveCopy(h, object),
             NEW p \in {"notify", "settled"}, Goto(h, p),
             \/ object = [copy[h] EXCEPT !.sync = "SYNCING", !.attempts = @ + 1]
             \/ object = [copy[h] EXCEPT !.sync = "SYNCED"]
             \/ object = [copy[h] EXCEPT !.sync = "FAILED"]
      PROVE  LeaveInv'
    <2>1. /\ IsRow(object) /\ object.status = "APPROVED"
          /\ object.key = copy[h].key /\ object.first = copy[h].first
        BY <1>2, <1>3 DEF IsRow, Columns
    <2>2. p \in Marking \cup {"settled", "replied"}
        BY DEF Marking
    <2> QED
        BY <1>1, <1>2, <1>3, <2>1, <2>2, SaveKeeps
<1>4. CASE MarkSyncing(h)
    BY <1>3, <1>4 DEF MarkSyncing
<1>5. CASE MarkSynced(h)
    BY <1>3, <1>5 DEF MarkSynced
<1>6. CASE MarkFailed(h)
    BY <1>3, <1>6 DEF MarkFailed
<1> QED
    BY <1>4, <1>5, <1>6

LEMMA LeaveStepKeeps ==
    ASSUME LeaveInv, NEW h \in Handlers, LeaveStep(h) PROVE LeaveInv'
<1>1. UNCHANGED late
    BY DEF LeaveStep, cache
<1>2. CASE LedgerFails(h)
    BY <1>1, <1>2, LostStep DEF LedgerFails, Lost
<1> QED
    BY <1>1, <1>2, ValidateKeeps, CheckKeyKeeps, OnwardKeeps, InsertKeeps, FindKeeps,
       WaitKeeps, SaveVerdictKeeps, MarkKeeps
    DEF LeaveStep, ValidateActive

LEMMA CrashKeeps == ASSUME LeaveInv, Crash, UNCHANGED late PROVE LeaveInv'
<1>1. /\ UNCHANGED <<requests, task, copy, late>>
      /\ pc' = [h \in Handlers |->
                    IF pc[h] \in Ended \cup {"start"} THEN pc[h] ELSE "crashed"]
    BY DEF Crash
<1>2. Shape' /\ UniqueKeys'
    BY <1>1 DEF LeaveInv, Shape, UniqueKeys, Places, Ended
<1>3. ASSUME NEW h \in Handlers PROVE Sound(h)'
    <2>1. SameKey(task[h].body)' = SameKey(task[h].body)
        BY <1>1 DEF SameKey
    <2>2. pc'[h] = pc[h] \/ pc'[h] = "crashed"
        BY <1>1
    <2>3. Sound(h)
        BY DEF LeaveInv
    <2> QED
        BY <1>1, <2>1, <2>2, <2>3
        DEF Sound, Held, Decided, Replied, Stopped, Creating, Holding, Marking, AfterVerdict
<1> QED
    BY <1>2, <1>3 DEF LeaveInv

LEMMA ElsewhereKeeps ==
    ASSUME LeaveInv, UNCHANGED <<leave, late>> PROVE LeaveInv'
<1>1. UNCHANGED <<requests, pc, task, copy, late>>
    BY DEF leave, vars
<1>2. Shape' /\ UniqueKeys'
    BY <1>1 DEF LeaveInv, Shape, UniqueKeys
<1>3. ASSUME NEW h \in Handlers PROVE Sound(h)'
    <2>1. SameKey(task[h].body)' = SameKey(task[h].body) /\ Sound(h)
        BY <1>1 DEF SameKey, LeaveInv
    <2> QED
        BY <1>1, <2>1 DEF Sound, Held, Decided, Replied, Stopped
<1> QED
    BY <1>2, <1>3 DEF LeaveInv

-----------------------------------------------------------------------------
(* The middleware.                                                         *)

\* A request is one thing or the other, and its header says what it asks for.
Asked(h) ==
    /\ pc[h] = "start" \/ desk[h] = "start"
    /\ header[h] # NoKey =>
        \/ /\ pc[h] # "start" /\ task[h].kind = "create"
           /\ header[h] = task[h].body.key
        \/ /\ pc[h] # "start" /\ task[h].kind \in Reviews
           /\ header[h] = <<task[h].kind, task[h].request>>
        \/ /\ desk[h] # "start" /\ errand[h].body \in CreateBodies
           /\ header[h] = <<"employee", errand[h].body>>

\* Who has been told that an employee exists finds one with the address.
Hired(h) ==
    desk[h] \in {"created", "replayed"} =>
        \E e \in Handlers : /\ employees[e] # NoEmployee
                            /\ employees[e].email = errand[h].body.email

CacheInv ==
    /\ DOMAIN header = Handlers
    /\ processedKeys \subseteq Handlers
    /\ \A g \in processedKeys : Succeeded(g)
    /\ \A h \in Handlers : Asked(h)

ApiInv ==
    /\ PeopleInv
    /\ LeaveInv
    /\ CacheInv
    /\ \A h \in Handlers : Hired(h)

\* Addresses stay where they are.
EmailsStay ==
    \A e \in People!Ids :
        employees[e] # NoEmployee =>
            employees'[e] # NoEmployee /\ employees'[e].email = employees[e].email

LEMMA HiredStays ==
    ASSUME NEW h \in Handlers, Hired(h), EmailsStay,
           desk'[h] \in {"created", "replayed"} =>
                desk[h] = desk'[h] /\ errand'[h] = errand[h]
    PROVE  Hired(h)'
<1>1. \A e \in Handlers : e \in People!Ids /\ NoEmployee' = NoEmployee
    BY DEF People!Ids, NoEmployee, People!NoEmployee
<1> QED
    BY <1>1 DEF Hired, EmailsStay

\* A step that leaves headers and questions alone, and no success undone.
LEMMA CacheStays ==
    ASSUME CacheInv, UNCHANGED <<header, task, errand>>,
           processedKeys' \subseteq Handlers,
           \A g \in processedKeys' : Succeeded(g)',
           \A h \in Handlers : /\ pc[h] = "start" <=> pc'[h] = "start"
                               /\ desk[h] = "start" <=> desk'[h] = "start"
    PROVE  CacheInv'
BY DEF CacheInv, Asked

\* What comes in with a key in its header.
LEMMA ArrivalAsked ==
    ASSUME CacheInv, NEW h \in Handlers, NEW key, Arrive(h, key),
           \A g \in Handlers : g # h => /\ pc'[g] = pc[g] /\ desk'[g] = desk[g]
                                        /\ task'[g] = task[g] /\ errand'[g] = errand[g],
           Asked(h)'
    PROVE  CacheInv'
<1>1. /\ pc[h] = "start" /\ desk[h] = "start" /\ UNCHANGED processedKeys
      /\ header' = [header EXCEPT ![h] = key]
    BY DEF Arrive
<1>2. h \notin processedKeys
    BY <1>1 DEF CacheInv, Succeeded, AfterVerdict
<1>3. \A g \in processedKeys : Succeeded(g)'
    BY <1>2 DEF CacheInv, Succeeded
<1>4. \A g \in Handlers : Asked(g)'
    BY <1>1 DEF CacheInv, Asked
<1> QED
    BY <1>1, <1>3, <1>4 DEF CacheInv

\* A cached answer to a submission is that of a submission under its key.
LEMMA SubmissionCached ==
    ASSUME LeaveInv, CacheInv, NEW s \in Submissions, NEW g \in Cached(s.key)
    PROVE  pc[g] = "replied" /\ task[g].kind = "create" /\ task[g].body.key = s.key
<1>1. g \in Handlers /\ s.key # NoKey /\ header[g] = s.key /\ Succeeded(g) /\ Asked(g)
    BY DEF Cached, CacheInv
<1>2. task[g].kind \in Reviews => task[g].request \in Handlers
    BY <1>1, Reviewed
<1>3. pc[g] # "start" /\ task[g].kind = "create" /\ task[g].body.key = s.key
    BY <1>1, <1>2, KeysAssumption DEF Asked, Reviews
<1>4. desk[g] = "start"
    BY <1>1, <1>3 DEF Asked
<1>5. pc[g] \in AfterVerdict
    BY <1>1, <1>4 DEF Succeeded
<1>6. Held(g)
    BY <1>1 DEF LeaveInv, Sound
<1> QED
    BY <1>3, <1>5, <1>6 DEF AfterVerdict, Held, Holding, Marking, Reviews

\* A cached answer to a review is that of the same review.
LEMMA ReviewCached ==
    ASSUME LeaveInv, CacheInv, NEW kind \in Reviews, NEW r \in Handlers,
           NEW g \in Cached(<<kind, r>>)
    PROVE  pc[g] \in AfterVerdict /\ task[g].kind = kind /\ task[g].request = r
<1>1. g \in Handlers /\ header[g] = <<kind, r>> /\ <<kind, r>> # NoKey
      /\ Succeeded(g) /\ Asked(g)
    BY DEF Cached, CacheInv
<1>2. task[g].kind = "create" => task[g].body \in Submissions
    BY <1>1 DEF LeaveInv, Shape, Tasks, NoTask
<1>3. header[g] # task[g].body.key \/ task[g].kind # "create"
    BY <1>1, <1>2, KeysAssumption DEF Reviews
<1>4. \A body : <<"employee", body>> # <<kind, r>>
    BY DEF Reviews
<1>5. pc[g] # "start" /\ task[g].kind \in Reviews
      /\ <<kind, r>> = <<task[g].kind, task[g].request>>
    BY <1>1, <1>3, <1>4 DEF Asked
<1>6. desk[g] = "start"
    BY <1>1, <1>5 DEF Asked
<1> QED
    BY <1>1, <1>5, <1>6 DEF Succeeded

\* A cached answer to the creation of an employee is that of the same one.
LEMMA EmployeeCached ==
    ASSUME LeaveInv, CacheInv, NEW body \in CreateBodies,
           NEW g \in Cached(<<"employee", body>>)
    PROVE  desk[g] = "created" /\ errand[g].body = body
<1>1. /\ g \in Handlers /\ header[g] = <<"employee", body>> /\ <<"employee", body>> # NoKey
      /\ Succeeded(g) /\ Asked(g)
    BY DEF Cached, CacheInv
<1>2. task[g].kind = "create" => task[g].body \in Submissions
    BY <1>1 DEF LeaveInv, Shape, Tasks, NoTask
<1>3. header[g] # task[g].body.key \/ task[g].kind # "create"
    BY <1>1, <1>2, KeysAssumption
<1>4. \A kind \in Reviews : \A r : <<"employee", body>> # <<kind, r>>
    BY DEF Reviews
<1>5. desk[g] # "start" /\ <<"employee", body>> = <<"employee", errand[g].body>>
    BY <1>1, <1>3, <1>4 DEF Asked
<1>6. pc[g] = "start"
    BY <1>1, <1>5 DEF Asked
<1> QED
    BY <1>1, <1>5, <1>6 DEF Succeeded, AfterVerdict

-----------------------------------------------------------------------------
(* What comes in.                                                          *)

\* The table does not change when a request comes in.
LEMMA NothingLost ==
    ASSUME UNCHANGED people, NEW h \in Handlers, Hired(h) PROVE Hired(h)'
BY DEF Hired, people, NoEmployee, People!NoEmployee

LEMMA PostSubmissionKeeps ==
    ASSUME ApiInv, NEW h \in Handlers, NEW s \in Submissions, PostSubmission(h, s)
    PROVE  ApiInv'
<1> DEFINE asked == [kind |-> "create", body |-> s]
<1>1. /\ pc[h] = "start" /\ desk[h] = "start" /\ Arrive(h, s.key) /\ UNCHANGED people
      /\ late' = [late EXCEPT ![h] = SameKey(s) # {}]
    BY DEF PostSubmission, Arrive
<1>2. /\ task' = [task EXCEPT ![h] = asked] /\ UNCHANGED requests
      /\ \/ /\ pc' = [pc EXCEPT ![h] = "validate"] /\ UNCHANGED copy
         \/ \E g \in Cached(s.key) : /\ pc' = [pc EXCEPT ![h] = "replied"]
                                     /\ copy' = [copy EXCEPT ![h] = copy[g]]
    BY DEF PostSubmission, Pass, Replay, ReplayLeave, Submit, Goto
<1>3. /\ asked \in Tasks /\ requests[h] = NoRequest
      /\ "validate" \in Places /\ "replied" \in Places
    BY <1>1 DEF Tasks, ApiInv, LeaveInv, Sound, Held, Places, Creating, Ended
<1>4. Alone(h) /\ task'[h] = asked /\ late'[h] = (SameKey(s) # {})
      /\ pc'[h] \in {"validate", "replied"} /\ requests'[h] = NoRequest
    BY <1>1, <1>2, <1>3 DEF Alone, ApiInv, LeaveInv, Shape
<1>5. SameKey(s)' = SameKey(s) /\ SameKey(task[h].body)' = SameKey(s)
    BY <1>2, <1>4 DEF SameKey
<1>6. Replied(h)'
    <2>1. CASE pc' = [pc EXCEPT ![h] = "validate"]
        <3>1. pc'[h] = "validate"
            BY <2>1 DEF ApiInv, LeaveInv, Shape
        <3> QED
            BY <3>1 DEF Replied
    <2>2. ASSUME NEW g \in Cached(s.key), copy' = [copy EXCEPT ![h] = copy[g]]
          PROVE  Replied(h)'
        <3>1. /\ pc[g] = "replied" /\ task[g].kind = "create" /\ task[g].body.key = s.key
              /\ g \in Handlers /\ s.key # NoKey
            BY SubmissionCached DEF ApiInv, Cached, CacheInv
        <3>2. PICK r \in Handlers : /\ SameKey(task[g].body) = {r}
                                    /\ copy[g].first = requests[r].first
            BY <3>1 DEF ApiInv, LeaveInv, Sound, Replied
        <3>3. SameKey(s) = {r}
            BY <3>1, <3>2 DEF SameKey
        <3>4. copy'[h] = copy[g]
            BY <2>2 DEF ApiInv, LeaveInv, Shape
        <3> QED
            BY <1>2, <1>5, <3>2, <3>3, <3>4 DEF Replied
    <2> QED
        BY <1>2, <2>1, <2>2
<1> HIDE DEF asked
<1>7. task'[h].kind = "create" /\ task'[h].body = s
    BY <1>4 DEF asked
<1>8. Sound(h)'
    BY <1>4, <1>5, <1>6, <1>7
    DEF Sound, Held, Decided, Stopped, Creating, Holding, Marking, Reviews
<1>9. LeaveInv'
    BY <1>2, <1>4, <1>8, QuietStep DEF ApiInv
<1>10. PeopleInv' /\ \A g \in Handlers : Hired(g)'
    BY <1>1, ElsewhereKeepsPeople, NothingLost DEF ApiInv
<1>11. Asked(h)'
    BY <1>1, <1>4, <1>7 DEF Asked, Arrive, people, ApiInv, CacheInv
<1>12. CacheInv'
    BY <1>1, <1>4, <1>11, ArrivalAsked DEF Alone, people, ApiInv
<1> QED
    BY <1>9, <1>10, <1>12 DEF ApiInv

LEMMA PostReviewKeeps ==
    ASSUME ApiInv, NEW h \in Handlers, NEW kind \in Reviews, NEW r \in Handlers,
           NEW key \in {NoKey, <<kind, r>>}, PostReview(h, kind, r, key)
    PROVE  ApiInv'
<1> DEFINE asked == [kind |-> kind, request |-> r]
<1>1. /\ pc[h] = "start" /\ desk[h] = "start" /\ Arrive(h, key)
      /\ UNCHANGED <<people, late>>
    BY DEF PostReview, Arrive
<1>2. /\ task' = [task EXCEPT ![h] = asked] /\ UNCHANGED requests
      /\ \/ /\ pc' = [pc EXCEPT ![h] = "find"] /\ UNCHANGED copy
         \/ \E g \in Cached(key) : /\ pc' = [pc EXCEPT ![h] = "replied"]
                                   /\ copy' = [copy EXCEPT ![h] = copy[g]]
    BY DEF PostReview, Pass, Replay, ReplayLeave, Review, Goto
<1>3. /\ asked \in Tasks /\ requests[h] = NoRequest
      /\ "find" \in Places /\ "replied" \in Places
    BY <1>1 DEF Tasks, Reviews, ApiInv, LeaveInv, Sound, Held, Places, Ended
<1>4. Alone(h) /\ task'[h] = asked /\ pc'[h] \in {"find", "replied"}
    BY <1>1, <1>2, <1>3 DEF Alone, ApiInv, LeaveInv, Shape
<1>5. task'[h].kind = kind /\ task'[h].request = r /\ kind # "create"
    BY <1>4 DEF Reviews
<1> HIDE DEF asked
<1>6. Decided(h)'
    <2>1. CASE pc' = [pc EXCEPT ![h] = "find"]
        <3>1. pc'[h] = "find"
            BY <2>1 DEF ApiInv, LeaveInv, Shape
        <3> QED
            BY <3>1 DEF Decided, AfterVerdict
    <2>2. ASSUME NEW g \in Cached(key), copy' = [copy EXCEPT ![h] = copy[g]]
          PROVE  Decided(h)'
        <3>1. key = <<kind, r>> /\ g \in Handlers
            BY DEF Cached, ApiInv, CacheInv
        <3>2. pc[g] \in AfterVerdict /\ task[g].kind = kind /\ task[g].request = r
            BY <3>1, ReviewCached DEF ApiInv
        <3>3. /\ copy[g].status = Verdict(kind)
              /\ requests[r] # NoRequest /\ requests[r].status # "PENDING"
            BY <3>1, <3>2 DEF ApiInv, LeaveInv, Sound, Decided
        <3>4. copy'[h] = copy[g]
            BY <2>2 DEF ApiInv, LeaveInv, Shape
        <3> QED
            BY <1>2, <1>5, <3>3, <3>4 DEF Decided
    <2> QED
        BY <1>2, <2>1, <2>2
<1>7. ~late[h] \/ pc'[h] \notin {"validate", "check_key"}
    BY <1>4
<1>8. Sound(h)'
    BY <1>1, <1>4, <1>5, <1>6
    DEF Sound, Held, Replied, Stopped, Creating, Holding, Marking
<1>9. LeaveInv'
    BY <1>2, <1>4, <1>8, QuietStep DEF ApiInv
<1>10. PeopleInv' /\ \A g \in Handlers : Hired(g)'
    BY <1>1, ElsewhereKeepsPeople, NothingLost DEF ApiInv
<1>11. Asked(h)'
    BY <1>1, <1>4, <1>5 DEF Asked, Arrive, people, ApiInv, CacheInv
<1>12. CacheInv'
    BY <1>1, <1>4, <1>11, ArrivalAsked DEF Alone, people, ApiInv
<1> QED
    BY <1>9, <1>10, <1>12 DEF ApiInv

LEMMA PostEmployeeKeepsApi ==
    ASSUME ApiInv, NEW h \in Handlers, NEW body \in CreateBodies, PostEmployee(h, body)
    PROVE  ApiInv'
<1> DEFINE key == <<"employee", body>>
           e == [kind |-> "create", body |-> body]
<1>1. /\ pc[h] = "start" /\ desk[h] = "start" /\ Arrive(h, key)
      /\ UNCHANGED <<late, leave, employees, held>>
      /\ errand' = [errand EXCEPT ![h] = e]
      /\ \/ desk' = [desk EXCEPT ![h] = "check_email"]
         \/ desk' = [desk EXCEPT ![h] = "replayed"] /\ Cached(key) # {}
    BY DEF PostEmployee, Arrive, Pass, Replay, People!Create, People!Goto
<1>2. errand \in [Handlers -> People!Errands] /\ desk \in [Handlers -> People!Desks]
    BY DEF ApiInv, PeopleInv, People!TypeOK
<1>3. /\ errand'[h].body = body /\ desk'[h] \in {"check_email", "replayed"}
      /\ \A g \in Handlers : g # h => desk'[g] = desk[g] /\ errand'[g] = errand[g]
    BY <1>1, <1>2
<1>4. UNCHANGED <<pc, task>> /\ EmailsStay
    BY <1>1 DEF leave, vars, EmailsStay
<1>5. Hired(h)'
    <2> SUFFICES ASSUME desk'[h] = "replayed"
                 PROVE  \E d \in Handlers : /\ employees[d] # NoEmployee
                                            /\ employees[d].email = body.email
        BY <1>1, <1>3 DEF Hired, NoEmployee, People!NoEmployee
    <2>1. PICK g \in Cached(key) : TRUE
        BY <1>1, <1>2
    <2>2. desk[g] = "created" /\ errand[g].body = body /\ g \in Handlers
        BY EmployeeCached DEF ApiInv, Cached, CacheInv
    <2> QED
        BY <2>2 DEF ApiInv, Hired
<1>6. \A g \in Handlers : Hired(g)'
    BY <1>3, <1>4, <1>5, HiredStays DEF ApiInv
<1>7. Asked(h)'
    BY <1>1, <1>3, <1>4 DEF Asked, Arrive, ApiInv, CacheInv
<1>8. CacheInv'
    BY <1>1, <1>3, <1>4, <1>7, ArrivalAsked DEF ApiInv
<1>9. PeopleInv' /\ LeaveInv'
    BY <1>1, PostEmployeeKeeps, ElsewhereKeeps DEF ApiInv
<1> QED
    BY <1>6, <1>8, <1>9 DEF ApiInv

LEMMA PutEmployeeKeeps ==
    ASSUME ApiInv, NEW h \in Handlers, NEW e \in People!Employed,
           NEW fields \in UpdateBodies, PutEmployee(h, e, fields)
    PROVE  ApiInv'
<1>1. /\ pc[h] = "start" /\ desk[h] = "start" /\ Arrive(h, NoKey)
      /\ UNCHANGED <<late, leave, employees, held>> /\ e \in People!Ids
      /\ errand' = [errand EXCEPT ![h] = [kind |-> "update", id |-> e, fields |-> fields]]
      /\ desk' = [desk EXCEPT ![h] = "find"]
    BY DEF PutEmployee, Arrive, People!Update, People!Goto, People!Employed
<1>2. errand \in [Handlers -> People!Errands] /\ desk \in [Handlers -> People!Desks]
    BY DEF ApiInv, PeopleInv, People!TypeOK
<1>3. /\ desk'[h] = "find" /\ header'[h] = NoKey
      /\ \A g \in Handlers : g # h => desk'[g] = desk[g] /\ errand'[g] = errand[g]
    BY <1>1, <1>2 DEF Arrive, ApiInv, CacheInv
<1>4. UNCHANGED <<pc, task>> /\ EmailsStay
    BY <1>1 DEF leave, vars, EmailsStay
<1>5. \A g \in Handlers : Hired(g)'
    BY <1>3, <1>4, HiredStays DEF ApiInv
<1>6. Asked(h)'
    BY <1>1, <1>3, <1>4 DEF Asked
<1>7. CacheInv'
    BY <1>1, <1>3, <1>4, <1>6, ArrivalAsked DEF ApiInv
<1>8. PeopleInv' /\ LeaveInv'
    BY <1>1, ReadKeeps, ElsewhereKeeps DEF ApiInv, PutEmployee
<1> QED
    BY <1>5, <1>7, <1>8 DEF ApiInv

-----------------------------------------------------------------------------
(* What goes on behind, and the answers.                                   *)

LEMMA LeaveStepKeepsApi ==
    ASSUME ApiInv, NEW h \in Handlers, LeaveStep(h) PROVE ApiInv'
<1>1. UNCHANGED <<people, cache, task>> /\ pc[h] \notin {"start", "replied", "settled"}
    BY DEF LeaveStep, ValidateActive, Validate, CheckKey, CheckOverlap, Reserve, Insert,
           Find, Settle, SaveVerdict, LedgerFails, MarkSyncing, NotifyIf, HcmAnswers,
           MarkSynced, MarkFailed, At
<1>2. PICK p \in Places \ {"start"} :
            /\ pc' = [pc EXCEPT ![h] = p]
            /\ pc[h] \in AfterVerdict => p \in AfterVerdict
    <2>1. ASSUME NEW p \in {"check_key", "refused", "check_overlap", "reserve", "insert",
                            "replied", "error", "settle", "save", "mark_syncing",
                            "notify", "in_flight", "mark_synced", "mark_failed", "settled"}
          PROVE  p \in Places \ {"start"}
        BY DEF Places, Creating, Holding, Marking, Ended
    <2>2. CASE \/ ValidateActive(h) \/ CheckKey(h) \/ CheckOverlap(h) \/ Reserve(h)
               \/ Insert(h) \/ Find(h) \/ LedgerFails(h)
        <3>1. pc[h] \notin AfterVerdict
            BY <2>2 DEF ValidateActive, Validate, CheckKey, CheckOverlap, Reserve, Insert,
                        Find, LedgerFails, At, AfterVerdict
        <3>2. \E p \in {"check_key", "refused", "check_overlap", "reserve", "insert",
                        "replied", "error", "settle"} : Goto(h, p)
            BY <2>2 DEF ValidateActive, Validate, CheckKey, CheckOverlap, Reserve, Insert,
                        Find, LedgerFails
        <3> QED
            BY <2>1, <3>1, <3>2 DEF Goto
    <2>3. CASE Settle(h)
        BY <2>1, <2>3 DEF Settle, At, Goto, AfterVerdict
    <2>4. CASE \/ SaveVerdict(h) \/ MarkSyncing(h) \/ HcmAnswers(h) \/ MarkSynced(h)
               \/ MarkFailed(h) \/ NotifyIf(h, employees[copy[h].employee].link # NoLink)
        <3>1. \E p \in {"replied", "mark_syncing", "notify", "in_flight", "mark_synced",
                        "mark_failed", "settled"} : Goto(h, p)
            BY <2>4 DEF SaveVerdict, MarkSyncing, HcmAnswers, MarkSynced, MarkFailed, NotifyIf
        <3> QED
            BY <2>1, <3>1 DEF Goto, AfterVerdict
    <2> QED
        BY <2>2, <2>3, <2>4 DEF LeaveStep
<1>3. pc \in [Handlers -> Places]
    BY DEF ApiInv, LeaveInv, Shape
<1>4. \A g \in Handlers : /\ pc[g] = "start" <=> pc'[g] = "start"
                          /\ pc[g] \in AfterVerdict => pc'[g] \in AfterVerdict
    BY <1>1, <1>2, <1>3
<1>5. CacheInv'
    <2>1. UNCHANGED <<header, processedKeys, desk, errand, task>>
        BY <1>1 DEF people, cache
    <2>2. \A g \in processedKeys' : Succeeded(g)'
        BY <1>4, <2>1 DEF ApiInv, CacheInv, Succeeded
    <2> QED
        BY <1>4, <2>1, <2>2, CacheStays DEF ApiInv, CacheInv
<1>6. PeopleInv' /\ LeaveInv' /\ \A g \in Handlers : Hired(g)'
    BY <1>1, LeaveStepKeeps, ElsewhereKeepsPeople, NothingLost DEF ApiInv
<1> QED
    BY <1>5, <1>6 DEF ApiInv

LEMMA PeopleStepKeepsApi ==
    ASSUME ApiInv, NEW h \in Handlers, PeopleStep(h) PROVE ApiInv'
<1>1. /\ UNCHANGED <<leave, cache, errand>>
      /\ desk[h] \in {"check_email", "check_link", "insert", "find", "save"}
    BY DEF PeopleStep, People!Step, People!CheckEmail, People!CheckLink, People!Insert,
           People!FindById, People!Save
<1>2. UNCHANGED <<pc, task, header, processedKeys, late>>
    BY <1>1 DEF leave, vars, cache
<1>3. /\ desk \in [Handlers -> People!Desks] /\ h \in People!Ids
      /\ errand \in [Handlers -> People!Errands]
      /\ employees \in [People!Ids -> People!Employee \cup {NoEmployee}]
    BY DEF ApiInv, PeopleInv, People!TypeOK, People!Ids, NoEmployee
<1>4. PICK place \in {"conflict", "insert", "check_link", "created", "error", "not_found",
                      "save", "updated"} : desk' = [desk EXCEPT ![h] = place]
    BY DEF PeopleStep, People!Step, People!CheckEmail, People!CheckLink, People!Insert,
           People!FindById, People!Save, People!Goto
<1>5. EmailsStay
    <2>1. CASE People!Insert(h)
        <3>1. employees[h] = NoEmployee
            BY <2>1 DEF People!Insert, ApiInv, PeopleInv, AtDesk
        <3>2. \/ UNCHANGED employees
              \/ employees' = [employees EXCEPT ![h] = People!NewEmployee(errand[h].body)]
            BY <2>1 DEF People!Insert
        <3> QED
            BY <1>3, <3>1, <3>2 DEF EmailsStay
    <2>2. CASE People!Save(h)
        <3>1. /\ held[h] \in People!Employee /\ held[h].email = employees[errand[h].id].email
              /\ errand[h].kind = "update"
            BY <2>2 DEF People!Save, ApiInv, PeopleInv, AtDesk
        <3>2. errand[h].id \in People!Ids
            BY <1>3, <3>1 DEF People!Errands, People!NoErrand
        <3>3. \/ UNCHANGED employees
              \/ employees' = [employees EXCEPT ![errand[h].id] = held[h]]
            BY <2>2 DEF People!Save
        <3> QED
            BY <1>3, <3>1, <3>2, <3>3, NoEmployeeIsNone DEF EmailsStay
    <2>3. CASE UNCHANGED employees
        BY <2>3 DEF EmailsStay
    <2> QED
        BY <2>1, <2>2, <2>3
        DEF PeopleStep, People!Step, People!CheckEmail, People!CheckLink, People!FindById
<1>6. ASSUME NEW g \in Handlers PROVE Hired(g)'
    <2>1. CASE g = h /\ place = "created"
        <3>1. People!Insert(h) /\ employees' = [employees EXCEPT ![h] = People!NewEmployee(errand[h].body)]
            BY <1>3, <1>4, <2>1
            DEF PeopleStep, People!Step, People!CheckEmail, People!CheckLink, People!Insert,
                People!FindById, People!Save, People!Goto
        <3>2. errand[h].body \in CreateBodies
            BY <1>3, <3>1
            DEF People!Insert, ApiInv, PeopleInv, AtDesk, People!Errands, People!NoErrand
        <3>3. /\ People!NewEmployee(errand[h].body) \in People!Employee
              /\ People!NewEmployee(errand[h].body).email = errand[h].body.email
            BY <3>2, PeopleAssumption
            DEF People!BodiesAssumption, People!NewEmployee, People!Employee
        <3>4. employees'[h] = People!NewEmployee(errand[h].body)
            BY <1>3, <3>1
        <3> QED
            BY <1>1, <2>1, <3>3, <3>4, NoEmployeeIsNone
            DEF Hired, NoEmployee, People!NoEmployee
    <2>2. CASE ~(g = h /\ place = "created")
        <3>1. desk'[g] \in {"created", "replayed"} => desk[g] = desk'[g]
            BY <1>3, <1>4, <2>2
        <3>2. Hired(g)
            BY DEF ApiInv
        <3> QED
            BY <1>1, <1>5, <3>1, <3>2, HiredStays
    <2> QED
        BY <2>1, <2>2
<1>7. CacheInv'
    <2>1. \A g \in processedKeys' : Succeeded(g)'
        BY <1>1, <1>2, <1>3, <1>4 DEF ApiInv, CacheInv, Succeeded
    <2>2. \A g \in Handlers : desk[g] = "start" <=> desk'[g] = "start"
        BY <1>1, <1>3, <1>4
    <2> QED
        BY <1>1, <1>2, <2>1, <2>2, CacheStays DEF ApiInv, CacheInv
<1>8. LeaveInv'
    BY <1>1, <1>2, ElsewhereKeeps DEF ApiInv
<1>9. PeopleInv'
    BY ReadKeeps, InsertKeepsPeople, SaveKeepsPeople DEF ApiInv, PeopleStep, People!Step
<1> QED
    BY <1>6, <1>7, <1>8, <1>9 DEF ApiInv

\* The middleware caches successes only, and forgets.
LEMMA CacheStepKeeps ==
    ASSUME ApiInv, (\E h \in Handlers : Answer(h)) \/ Cleanup PROVE ApiInv'
<1>1. /\ UNCHANGED <<header, late, leave, people>>
      /\ \A g \in processedKeys' : g \in processedKeys \/ (g \in Handlers /\ Succeeded(g))
    BY DEF Answer, Cleanup
<1>2. UNCHANGED <<pc, task, desk, errand>>
    BY <1>1 DEF leave, vars, people
<1>3. CacheInv'
    <2>1. \A g \in processedKeys' : g \in Handlers /\ Succeeded(g)'
        BY <1>1, <1>2 DEF ApiInv, CacheInv, Succeeded
    <2> QED
        BY <1>1, <1>2, <2>1, CacheStays DEF ApiInv
<1> QED
    BY <1>1, <1>3, ElsewhereKeeps, ElsewhereKeepsPeople, NothingLost DEF ApiInv

LEMMA RestartKeeps == ASSUME ApiInv, Restart PROVE ApiInv'
<1>1. /\ processedKeys' = {} /\ UNCHANGED <<employees, errand, held, header, late, task>>
      /\ Crash
    BY DEF Restart, Crash
<1>2. \A h \in Handlers :
        /\ pc[h] = "start" <=> pc'[h] = "start"
        /\ desk[h] = "start" <=> desk'[h] = "start"
        /\ desk'[h] \in {"created", "replayed"} => desk[h] = desk'[h]
    BY DEF Restart, Crash, Ended, People!Ended
<1>3. CacheInv'
    BY <1>1, <1>2, CacheStays DEF ApiInv
<1>4. EmailsStay
    BY <1>1 DEF EmailsStay
<1>5. \A h \in Handlers : Hired(h)'
    BY <1>1, <1>2, <1>4, HiredStays DEF ApiInv
<1> QED
    BY <1>1, <1>3, <1>5, CrashKeeps, RestartKeepsPeople DEF ApiInv

LEMMA StutterKeeps == ASSUME ApiInv, UNCHANGED apiVars PROVE ApiInv'
<1>1. UNCHANGED <<leave, people, cache>>
    BY DEF apiVars
<1>2. UNCHANGED <<pc, task, desk, errand, header, processedKeys, late>>
    BY <1>1 DEF leave, vars, people, cache
<1>3. \A g \in processedKeys' : Succeeded(g)'
    BY <1>2 DEF ApiInv, CacheInv, Succeeded
<1>4. CacheInv'
    BY <1>2, <1>3, CacheStays DEF ApiInv, CacheInv
<1> QED
    BY <1>1, <1>2, <1>4, ElsewhereKeeps, ElsewhereKeepsPeople, NothingLost DEF ApiInv

LEMMA ApiInitHolds == ASSUME ApiInit PROVE ApiInv
<1>1. /\ requests = [h \in Handlers |-> NoRequest] /\ pc = [h \in Handlers |-> "start"]
      /\ task = [h \in Handlers |-> NoTask] /\ copy = [h \in Handlers |-> NoRequest]
      /\ desk = [h \in Handlers |-> "start"] /\ header = [h \in Handlers |-> NoKey]
      /\ processedKeys = {} /\ late = [h \in Handlers |-> FALSE]
    BY DEF ApiInit, Init, People!Init
<1>2. Shape /\ UniqueKeys
    BY <1>1 DEF Shape, UniqueKeys, Places, Tasks
<1>3. \A h \in Handlers : Sound(h)
    BY <1>1
    DEF Sound, Held, Decided, Replied, Stopped, Creating, Holding, Marking, AfterVerdict
<1>4. CacheInv /\ \A h \in Handlers : Hired(h)
    BY <1>1 DEF CacheInv, Asked, Hired
<1> QED
    BY <1>2, <1>3, <1>4, PeopleInitHolds DEF ApiInv, LeaveInv

-----------------------------------------------------------------------------
(* The theorems.                                                           *)

\* The table only grows, and the cache answers like with like.
THEOREM ApiInvariant == ApiSpec => []ApiInv
<1>1. ApiInit => ApiInv
    BY ApiInitHolds
<1>2. ASSUME ApiInv, NEW h \in Handlers,
             \/ \E s \in Submissions : PostSubmission(h, s)
             \/ \E kind \in {"approve", "reject", "cancel"}, r \in Handlers :
                    \E key \in {NoKey, <<kind, r>>} : PostReview(h, kind, r, key)
             \/ \E body \in CreateBodies : PostEmployee(h, body)
             \/ \E e \in People!Employed, fields \in UpdateBodies : PutEmployee(h, e, fields)
      PROVE  ApiInv'
    BY <1>2, PostSubmissionKeeps, PostReviewKeeps, PostEmployeeKeepsApi, PutEmployeeKeeps
    DEF Reviews
<1>3. ApiInv /\ [ApiNext]_apiVars => ApiInv'
    BY <1>2, LeaveStepKeepsApi, PeopleStepKeepsApi, CacheStepKeeps, RestartKeeps, StutterKeeps
    DEF ApiNext
<1> QED
    BY <1>1, <1>3, PTL DEF ApiSpec

\* Submissions under one key make one request, and whoever is answered, by
\* the table or by the cache, is given that one.
THEOREM OneRequestPerKey == ApiSpec => []KeyMakesOneRequest
<1>1. ApiInv => KeyMakesOneRequest
    BY DEF ApiInv, LeaveInv, Sound, Replied, KeyMakesOneRequest
<1> QED
    BY <1>1, ApiInvariant, PTL

\* A submission whose key has made a request reserves no days, whatever the
\* cache still knows.
THEOREM LateReserveNothing == ApiSpec => []LateSubmissionsReserveNothing
<1>1. ApiInv => LateSubmissionsReserveNothing
    BY DEF ApiInv, LeaveInv, Sound, Stopped, LateSubmissionsReserveNothing
<1> QED
    BY <1>1, ApiInvariant, PTL

\* Nobody is told of a success that is not one.
THEOREM SuccessesWereDone == ApiSpec => []SuccessWasDone
<1>1. ASSUME ApiInv, NEW h \in Handlers, pc[h] \in AfterVerdict, task[h].kind \in Reviews
      PROVE  /\ copy[h].status = Verdict(task[h].kind)
             /\ requests[task[h].request].status \notin {"none", "PENDING"}
    <2>1. /\ copy[h].status = Verdict(task[h].kind)
          /\ requests[task[h].request] # NoRequest
          /\ requests[task[h].request].status # "PENDING"
        BY <1>1 DEF ApiInv, LeaveInv, Sound, Decided
    <2>2. IsRow(requests[task[h].request])
        BY <1>1, <2>1, Reviewed DEF ApiInv, LeaveInv, Shape
    <2> QED
        BY <2>1, <2>2 DEF IsRow
<1>2. ASSUME ApiInv, NEW h \in Handlers, desk[h] \in {"created", "replayed"}
      PROVE  \E e \in People!Employed \cap Handlers :
                employees[e].email = errand[h].body.email
    BY <1>2 DEF ApiInv, Hired, People!Employed, People!Ids, NoEmployee
<1>3. ApiInv => SuccessWasDone
    BY <1>1, <1>2 DEF SuccessWasDone, Reviews
<1> QED
    BY <1>3, ApiInvariant, PTL

-----------------------------------------------------------------------------
(* Whose hands an approved request is in.                                  *)

Unsettled(r) == r.status = "APPROVED" /\ r.sync \in {"NOT_SYNCED", "SYNCING"}

\* A handler that has approved request r and not settled its sync.
HasInHand(h, r) ==
    /\ task[h].kind = "approve" /\ task[h].request = r
    /\ pc[h] \in Marking \cup {"crashed"}

\* Stronger than what is claimed: a handler that has yet to find the request
\* may be refused, and leaves it to nobody.
InHand ==
    \A r \in Handlers :
        Unsettled(requests[r]) => \E h \in Handlers : HasInHand(h, r)

\* A step that leaves to every handler what it has in hand, or settles it.
LEMMA HandsStay ==
    ASSUME InHand, NEW r0,
           \A r \in Handlers : r # r0 => \/ requests'[r] = requests[r]
                                         \/ ~Unsettled(requests'[r]),
           r0 \in Handlers /\ Unsettled(requests'[r0]) =>
                \E h \in Handlers : HasInHand(h, r0)',
           \A h \in Handlers, r \in Handlers :
                r # r0 /\ HasInHand(h, r) => HasInHand(h, r)'
    PROVE  InHand'
BY DEF InHand

\* A step that writes no row.
LEMMA HandsKept ==
    ASSUME InHand, UNCHANGED requests,
           \A h \in Handlers : pc[h] \in Marking \cup {"crashed"} =>
                pc'[h] \in Marking \cup {"crashed"} /\ task'[h] = task[h]
    PROVE  InHand'
BY DEF InHand, HasInHand

\* A save puts a request in the hands of who saves it, settles it, or takes
\* it out of approval.
LEMMA SaveInHand ==
    ASSUME LeaveInv, InHand, NEW h \in Handlers, pc[h] \in Holding, NEW object,
           SaveCopy(h, object), NEW p \in Places, Goto(h, p), UNCHANGED task,
           Unsettled(object) => p \in Marking /\ task[h].kind = "approve"
    PROVE  InHand'
<1> PICK r0 : r0 = task[h].request OBVIOUS
<1>1. r0 \in Handlers
    BY Reviewed DEF LeaveInv, Sound, Held
<1>2. pc'[h] = p /\ \A g \in Handlers : g # h => pc'[g] = pc[g]
    BY DEF Goto, LeaveInv, Shape
<1>3. requests'[r0] = object /\ \A r \in Handlers : r # r0 => requests'[r] = requests[r]
    BY <1>1 DEF SaveCopy, LeaveInv, Shape
<1>4. Unsettled(requests'[r0]) => HasInHand(h, r0)'
    BY <1>2, <1>3 DEF HasInHand
<1>5. ASSUME NEW g \in Handlers, NEW r \in Handlers, r # r0, HasInHand(g, r)
      PROVE  HasInHand(g, r)'
    BY <1>2, <1>5 DEF HasInHand
<1> QED
    BY <1>3, <1>4, <1>5, HandsStay

LEMMA MarkInHand ==
    ASSUME LeaveInv, InHand, NEW h \in Handlers,
           MarkSyncing(h) \/ MarkSynced(h) \/ MarkFailed(h)
    PROVE  InHand'
<1>1. /\ pc[h] \in {"mark_syncing", "mark_synced", "mark_failed"} /\ UNCHANGED task
    BY DEF MarkSyncing, MarkSynced, MarkFailed, At
<1>2. pc[h] \in Holding /\ IsRow(copy[h]) /\ task[h].kind = "approve"
    BY <1>1 DEF LeaveInv, Sound, Held, Holding, Marking
<1>3. "notify" \in Places \cap Marking /\ "settled" \in Places
    BY DEF Places, Holding, Marking, Ended
<1>4. CASE MarkSyncing(h)
    BY <1>1, <1>2, <1>3, <1>4, SaveInHand DEF MarkSyncing
<1>5. CASE MarkSynced(h)
    <2>1. [copy[h] EXCEPT !.sync = "SYNCED"].sync = "SYNCED"
        BY <1>2 DEF IsRow, Columns
    <2> QED
        BY <1>1, <1>2, <1>3, <1>5, <2>1, SaveInHand DEF MarkSynced, Unsettled
<1>6. CASE MarkFailed(h)
    <2>1. [copy[h] EXCEPT !.sync = "FAILED"].sync = "FAILED"
        BY <1>2 DEF IsRow, Columns
    <2> QED
        BY <1>1, <1>2, <1>3, <1>6, <2>1, SaveInHand DEF MarkFailed, Unsettled
<1> QED
    BY <1>4, <1>5, <1>6

LEMMA VerdictInHand ==
    ASSUME LeaveInv, InHand, NEW h \in Handlers, SaveVerdict(h) PROVE InHand'
<1> DEFINE object == [copy[h] EXCEPT !.status = Verdict(task[h].kind)]
           p == IF task[h].kind = "approve" THEN "mark_syncing" ELSE "replied"
<1>1. pc[h] = "save" /\ SaveCopy(h, object) /\ Goto(h, p) /\ UNCHANGED task
    BY DEF SaveVerdict, At
<1>2. pc[h] \in Holding /\ IsRow(copy[h]) /\ task[h].kind \in Reviews
    BY <1>1 DEF LeaveInv, Sound, Held, Holding
<1>3. Verdict(task[h].kind) = "APPROVED" => task[h].kind = "approve"
    BY <1>2 DEF Reviews, Verdict
<1>4. object.status = Verdict(task[h].kind)
    BY <1>2 DEF IsRow, Columns
<1>5. p \in Places /\ (task[h].kind = "approve" => p \in Marking)
    BY DEF Places, Holding, Marking, Ended
<1> HIDE DEF object, p
<1> QED
    BY <1>1, <1>2, <1>3, <1>4, <1>5, SaveInHand DEF Unsettled

\* The other steps of a handler: only one that has nothing in hand ends.
LEMMA WayInHand ==
    ASSUME LeaveInv, InHand, NEW h \in Handlers, LeaveStep(h),
           ~(MarkSyncing(h) \/ MarkSynced(h) \/ MarkFailed(h)), ~SaveVerdict(h), ~Insert(h)
    PROVE  InHand'
<1>1. UNCHANGED <<requests, task>>
    BY DEF LeaveStep, ValidateActive, Validate, CheckKey, CheckOverlap, Reserve, Find, Settle,
           LedgerFails, NotifyIf, HcmAnswers
<1>2. PICK p : Goto(h, p)
    BY DEF LeaveStep, ValidateActive, Validate, CheckKey, CheckOverlap, Reserve, Find, Settle,
           LedgerFails, NotifyIf, HcmAnswers
<1>3. pc[h] \in Marking \cup {"crashed"} => p \in Marking
    <2>1. CASE \/ ValidateActive(h) \/ CheckKey(h) \/ CheckOverlap(h) \/ Reserve(h)
               \/ Find(h) \/ Settle(h) \/ LedgerFails(h)
        BY <2>1 DEF ValidateActive, Validate, CheckKey, CheckOverlap, Reserve, Find, Settle,
                    LedgerFails, At, Marking
    <2>2. CASE HcmAnswers(h) \/ NotifyIf(h, employees[copy[h].employee].link # NoLink)
        <3>1. pc'[h] \in Marking
            BY <2>2 DEF HcmAnswers, NotifyIf, Goto, LeaveInv, Shape, Marking
        <3>2. pc'[h] = p
            BY <1>2 DEF Goto, LeaveInv, Shape
        <3> QED
            BY <3>1, <3>2
    <2> QED
        BY <2>1, <2>2 DEF LeaveStep
<1>4. pc'[h] = p /\ \A g \in Handlers : g # h => pc'[g] = pc[g]
    BY <1>2 DEF Goto, LeaveInv, Shape
<1> QED
    BY <1>1, <1>3, <1>4, HandsKept

\* A new row is not approved.
LEMMA InsertInHand ==
    ASSUME LeaveInv, InHand, NEW h \in Handlers, Insert(h) PROVE InHand'
<1>1. /\ pc[h] = "insert" /\ UNCHANGED task
      /\ \E p \in {"replied", "error"} : Goto(h, p)
      /\ requests' = requests \/ requests' = [requests EXCEPT ![h] = NewRequest(task[h].body)]
    BY DEF Insert, At
<1>2. \A g \in Handlers : g # h => pc'[g] = pc[g]
    BY <1>1 DEF Goto
<1>3. ~Unsettled(NewRequest(task[h].body))
    BY DEF Unsettled, NewRequest
<1>4. \A r \in Handlers : requests'[r] = requests[r] \/ ~Unsettled(requests'[r])
    BY <1>1, <1>3 DEF LeaveInv, Shape
<1>5. ASSUME NEW g \in Handlers, NEW r \in Handlers, HasInHand(g, r) PROVE HasInHand(g, r)'
    <2>1. g # h
        BY <1>1, <1>5 DEF HasInHand, Marking
    <2> QED
        BY <1>1, <1>2, <1>5, <2>1 DEF HasInHand
<1> QED
    BY <1>4, <1>5 DEF InHand

\* A request that comes in has nothing in hand yet.
LEMMA ArrivalInHand ==
    ASSUME LeaveInv, InHand, NEW h \in Handlers, pc[h] = "start", UNCHANGED requests,
           \A g \in Handlers : g # h => pc'[g] = pc[g] /\ task'[g] = task[g]
    PROVE  InHand'
BY HandsKept DEF Marking

LEMMA NextInHand == ASSUME ApiInv, InHand, [ApiNext]_apiVars PROVE InHand'
<1>1. LeaveInv /\ pc \in [Handlers -> Places] /\ task \in [Handlers -> Tasks]
    BY DEF ApiInv, LeaveInv, Shape
<1>2. ASSUME NEW h \in Handlers, NEW s \in Submissions, PostSubmission(h, s) PROVE InHand'
    <2>1. pc[h] = "start" /\ UNCHANGED requests
        BY <1>2 DEF PostSubmission, Arrive, Submit, ReplayLeave
    <2>2. \A g \in Handlers : g # h => pc'[g] = pc[g] /\ task'[g] = task[g]
        BY <1>1, <1>2 DEF PostSubmission, Submit, ReplayLeave, Goto
    <2> QED
        BY <1>1, <2>1, <2>2, ArrivalInHand
<1>3. ASSUME NEW h \in Handlers, NEW kind \in Reviews, NEW r \in Handlers,
             NEW key \in {NoKey, <<kind, r>>}, PostReview(h, kind, r, key)
      PROVE  InHand'
    <2>1. pc[h] = "start" /\ UNCHANGED requests
        BY <1>3 DEF PostReview, Arrive, Review, ReplayLeave
    <2>2. \A g \in Handlers : g # h => pc'[g] = pc[g] /\ task'[g] = task[g]
        BY <1>1, <1>3 DEF PostReview, Review, ReplayLeave, Goto
    <2> QED
        BY <1>1, <2>1, <2>2, ArrivalInHand
<1>4. ASSUME NEW h \in Handlers, LeaveStep(h) PROVE InHand'
    BY <1>1, <1>4, MarkInHand, VerdictInHand, InsertInHand, WayInHand
<1>5. CASE Restart
    <2>1. /\ UNCHANGED <<requests, task>>
          /\ \A h \in Handlers : pc[h] \in Marking \cup {"crashed"} => pc'[h] = "crashed"
        BY <1>5 DEF Restart, Crash, Marking, Ended
    <2> QED
        BY <2>1, HandsKept
<1>6. CASE UNCHANGED leave
    BY <1>6, HandsKept DEF leave, vars
<1> QED
    BY <1>2, <1>3, <1>4, <1>5, <1>6
    DEF ApiNext, PostEmployee, PutEmployee, PeopleStep, Answer, Cleanup, apiVars, Reviews

\* An approved request whose sync has not settled is with a handler that has
\* it still to settle, or that a restart stopped, however reviews race and
\* whatever stale objects they save.
THEOREM NobodyElseStrands == ApiSpec => []StrandedOnlyByRestart
<1>1. ApiInit => InHand
    BY DEF ApiInit, Init, InHand, Unsettled, NoRequest
<1>2. InHand => StrandedOnlyByRestart
    <2>1. (Marking \cup {"crashed"}) \cap (Ended \ {"crashed"}) = {}
        BY DEF Marking, Ended
    <2> QED
        BY <2>1 DEF InHand, Unsettled, HasInHand, StrandedOnlyByRestart
<1>3. ApiInv /\ InHand /\ [ApiNext]_apiVars => InHand'
    BY NextInHand
<1> QED
    BY <1>1, <1>2, <1>3, ApiInvariant, PTL DEF ApiSpec

-----------------------------------------------------------------------------
(* The types of what stands behind the interface.                          *)

Rows == [Handlers -> Requests \cup {NoRequest}]

\* The days a create is to reserve have been counted, and an approval that
\* has not begun its sync holds an object whose sync has not been tried.
Weighed(h) ==
    /\ pc[h] \in Creating \ {"validate"} => DaysOf(task[h].body) \in 1..MaxDays
    /\ pc[h] \in {"settle", "save", "mark_syncing"} /\ task[h].kind = "approve" =>
            copy[h].attempts = 0

\* Nobody has tried to sync a pending request.
Untried == \A r \in Handlers : requests[r].status = "PENDING" => requests[r].attempts = 0

LeaveTypes ==
    /\ account \in [Accounts -> Account]
    /\ requests \in Rows
    /\ copy \in Rows
    /\ running \in Handlers => pc[running] \notin Idle
    /\ crashes \in 0..MaxCrashes
    /\ Untried
    /\ \A h \in Handlers : Weighed(h)

\* The ledger's operations on days keep an account an account.
LEMMA ChargeTypes ==
    ASSUME account \in [Accounts -> Account], NEW a \in Accounts, NEW days \in Nat,
           NEW kind \in {"reserve", "confirm", "release", "restore"}, Charge(a, kind, days)
    PROVE  account' \in [Accounts -> Account]
<1> DEFINE o == [kind |-> kind, days |-> days]
<1>1. o.kind = kind /\ o.days = days
    OBVIOUS
<1>2. account[a] \in Account /\ \A x \in Int : AtLeastZero(x) \in Nat
    BY DEF AtLeastZero
<1>3. /\ account[a].total \in Nat /\ account[a].used \in Nat /\ account[a].pending \in Nat
    BY <1>2 DEF Account
<1>4. /\ AtLeastZero(account[a].pending - days) \in Nat
      /\ AtLeastZero(account[a].used - days) \in Nat
      /\ account[a].pending + days \in Nat /\ account[a].used + days \in Nat
    BY <1>2, <1>3
<1> HIDE DEF o
<1>5. Updated(account[a], o) \in Account
    <2>1. CASE kind = "reserve"
        BY <1>1, <1>2, <1>4, <2>1 DEF Updated, Account
    <2>2. CASE kind = "confirm"
        BY <1>1, <1>2, <1>4, <2>2 DEF Updated, Account
    <2>3. CASE kind = "release"
        BY <1>1, <1>2, <1>4, <2>3 DEF Updated, Account
    <2>4. CASE kind = "restore"
        BY <1>1, <1>2, <1>4, <2>4 DEF Updated, Account
    <2> QED
        BY <2>1, <2>2, <2>3, <2>4
<1>6. account' = [account EXCEPT ![a] = Updated(account[a], o)]
    BY DEF Charge, o
<1> QED
    BY <1>5, <1>6

\* A row saved with another status or another state of its sync.
LEMMA SavedStatus ==
    ASSUME NEW r \in Requests, NEW status \in {"PENDING", "APPROVED", "REJECTED", "CANCELLED"},
           NEW object, object = [r EXCEPT !.status = status]
    PROVE  object \in Requests /\ object.status = status /\ object.attempts = r.attempts
BY DEF Requests

LEMMA SavedSync ==
    ASSUME NEW r \in Requests, NEW sync \in {"NOT_SYNCED", "SYNCING", "SYNCED", "FAILED"},
           NEW object, object = [r EXCEPT !.sync = sync]
    PROVE  object \in Requests /\ object.status = r.status
BY DEF Requests

LEMMA SavedAttempt ==
    ASSUME NEW r \in Requests, NEW sync \in {"NOT_SYNCED", "SYNCING", "SYNCED", "FAILED"},
           NEW attempts \in 0..1,
           NEW object, object = [r EXCEPT !.sync = sync, !.attempts = attempts]
    PROVE  object \in Requests /\ object.status = r.status
BY DEF Requests

\* The object a review holds is a row.
LEMMA HeldIsRow ==
    ASSUME LeaveInv, LeaveTypes, NEW h \in Handlers, pc[h] \in Holding
    PROVE  /\ copy[h] \in Requests /\ task[h].kind \in Reviews
           /\ task[h].request \in Handlers
BY NoRequestIsNone, Reviewed DEF LeaveInv, Sound, Held, LeaveTypes, Rows

\* A step of a handler with its turn.
LEMMA TurnTypes ==
    ASSUME LeaveInv, LeaveTypes, NEW h \in Handlers, NEW p \in Places, Goto(h, p),
           \A g \in Handlers : g # h => task'[g] = task[g] /\ copy'[g] = copy[g],
           account' \in [Accounts -> Account], requests' \in Rows, copy' \in Rows,
           crashes' = crashes, Untried', Weighed(h)'
    PROVE  LeaveTypes'
<1>1. pc'[h] = p /\ \A g \in Handlers : g # h => pc'[g] = pc[g]
    BY DEF Goto, LeaveInv, Shape
<1>2. ASSUME NEW g \in Handlers PROVE Weighed(g)'
    <2>1. CASE g # h
        BY <1>1, <2>1 DEF LeaveTypes, Weighed
    <2> QED
        BY <2>1
<1>3. running' \in Handlers => pc'[running'] \notin Idle
    BY <1>1, NobodyAssumption DEF Goto
<1> QED
    BY <1>2, <1>3 DEF LeaveTypes

LEMMA CreateTypes ==
    ASSUME LeaveInv, LeaveTypes, NEW h \in Handlers,
           ValidateActive(h) \/ CheckKey(h) \/ CheckOverlap(h) \/ Reserve(h) \/ Insert(h)
    PROVE  LeaveTypes'
<1>1. /\ pc[h] \in Creating /\ UNCHANGED <<task, crashes>>
      /\ account \in [Accounts -> Account] /\ requests \in Rows /\ copy \in Rows
      /\ Untried /\ Weighed(h)
    BY DEF ValidateActive, Validate, CheckKey, CheckOverlap, Reserve, Insert, At, Creating,
           LeaveTypes
<1>2. task[h].kind = "create" /\ task[h] \in Tasks
    BY <1>1 DEF LeaveInv, Shape, Sound, Held
<1>3. /\ task[h].body \in Submissions
      /\ pc[h] # "validate" => DaysOf(task[h].body) \in 1..MaxDays
    BY <1>1, <1>2 DEF Tasks, NoTask, Weighed
<1>4. ASSUME NEW p \in Places, Goto(h, p)
      PROVE  /\ pc'[h] = p
             /\ \A g \in Handlers : g # h => task'[g] = task[g]
    BY <1>1, <1>4 DEF Goto, LeaveInv, Shape
<1>5. ASSUME NEW p \in Places \ Holding, Goto(h, p),
             p \in Creating => DaysOf(task[h].body) \in 1..MaxDays
      PROVE  Weighed(h)'
    BY <1>1, <1>4, <1>5 DEF Weighed, DaysOf, Holding, Marking
<1>6. /\ {"check_key", "check_overlap", "reserve", "insert", "replied", "refused", "error"}
            \subseteq Places \ Holding
      /\ {"replied", "refused", "error"} \cap Creating = {}
    BY DEF Places, Holding, Marking, Creating, Ended
<1>7. CASE ValidateActive(h)
    <2>1. UNCHANGED <<account, requests, copy>>
        BY <1>7 DEF ValidateActive, Validate
    <2>2. CASE Goto(h, "refused")
        BY <1>1, <1>4, <1>5, <1>6, <2>1, <2>2, TurnTypes DEF Untried
    <2>3. CASE ValidDateRange(task[h].body.first, task[h].body.last) /\ Goto(h, "check_key")
        <3>1. DaysOf(task[h].body) \in 1..MaxDays
            BY <2>3 DEF ValidDateRange, DaysOf
        <3> QED
            BY <1>1, <1>4, <1>5, <1>6, <2>1, <2>3, <3>1, TurnTypes DEF Untried
    <2> QED
        BY <1>7, <2>2, <2>3 DEF ValidateActive, Validate
<1>8. CASE CheckKey(h)
    <2>1. /\ UNCHANGED <<account, requests>> /\ pc[h] = "check_key"
          /\ \E p \in {"check_overlap", "replied"} : Goto(h, p)
          /\ \/ UNCHANGED copy
             \/ \E r \in Handlers : copy' = [copy EXCEPT ![h] = requests[r]]
        <3>1. CASE SameKey(task[h].body) = {}
            BY <1>8, <3>1 DEF CheckKey, At
        <3>2. CASE SameKey(task[h].body) # {}
            <4>1. (CHOOSE r \in SameKey(task[h].body) : TRUE) \in Handlers
                BY <3>2 DEF SameKey
            <4> QED
                BY <1>8, <3>2, <4>1 DEF CheckKey, At
        <3> QED
            BY <3>1, <3>2
    <2>2. copy' \in Rows /\ \A g \in Handlers : g # h => copy'[g] = copy[g]
        BY <1>1, <2>1 DEF Rows
    <2> QED
        BY <1>1, <1>3, <1>4, <1>5, <1>6, <2>1, <2>2, TurnTypes DEF Untried
<1>9. CASE CheckOverlap(h)
    <2>1. /\ UNCHANGED <<account, requests, copy>> /\ pc[h] = "check_overlap"
          /\ \E p \in {"reserve", "refused"} : Goto(h, p)
        BY <1>9 DEF CheckOverlap, At
    <2> QED
        BY <1>1, <1>3, <1>4, <1>5, <1>6, <2>1, TurnTypes DEF Untried
<1>10. CASE Reserve(h)
    <2>1. /\ UNCHANGED <<requests, copy>> /\ pc[h] = "reserve"
          /\ \E p \in {"insert", "refused"} : Goto(h, p)
          /\ account' = account
                \/ Charge(task[h].body.account, "reserve", DaysOf(task[h].body))
        BY <1>10 DEF Reserve, At
    <2>2. account' \in [Accounts -> Account]
        <3>1. DaysOf(task[h].body) \in Nat /\ task[h].body.account \in Accounts
            BY <1>3, <2>1, MaxDaysAssumption, SubmissionsAssumption
        <3> QED
            BY <1>1, <2>1, <3>1, ChargeTypes
    <2> QED
        BY <1>1, <1>3, <1>4, <1>5, <1>6, <2>1, <2>2, TurnTypes DEF Untried
<1>11. CASE Insert(h)
    <2> DEFINE row == NewRequest(task[h].body)
    <2>1. /\ UNCHANGED account /\ pc[h] = "insert"
          /\ \E p \in {"replied", "error"} : Goto(h, p)
          /\ \/ UNCHANGED <<requests, copy>>
             \/ /\ requests' = [requests EXCEPT ![h] = row]
                /\ copy' = [copy EXCEPT ![h] = row]
        BY <1>11 DEF Insert, At
    <2>2. row \in Requests /\ row.attempts = 0
        BY <1>3, <2>1, SubmissionsAssumption DEF NewRequest, Requests
    <2> HIDE DEF row
    <2>3. /\ requests' \in Rows /\ copy' \in Rows /\ Untried'
          /\ \A g \in Handlers : g # h => copy'[g] = copy[g]
        BY <1>1, <2>1, <2>2 DEF Rows, Untried
    <2> QED
        BY <1>1, <1>3, <1>4, <1>5, <1>6, <2>1, <2>3, TurnTypes
<1> QED
    BY <1>7, <1>8, <1>9, <1>10, <1>11

\* A review takes what it finds, settles it, and saves it.
LEMMA ReviewTypes ==
    ASSUME LeaveInv, LeaveTypes, NEW h \in Handlers,
           \/ Find(h) \/ Settle(h) \/ LedgerFails(h) \/ HcmAnswers(h)
           \/ \E linked : NotifyIf(h, linked)
    PROVE  LeaveTypes'
<1>1. /\ UNCHANGED <<task, crashes, requests>>
      /\ account \in [Accounts -> Account] /\ requests \in Rows /\ copy \in Rows
      /\ Untried /\ Weighed(h)
    BY DEF Find, Settle, LedgerFails, HcmAnswers, NotifyIf, LeaveTypes
<1>2. Untried' /\ requests' \in Rows /\ \A g \in Handlers : g # h => task'[g] = task[g]
    BY <1>1 DEF Untried
<1>3. ASSUME NEW p \in Places, Goto(h, p) PROVE pc'[h] = p
    BY <1>3 DEF Goto, LeaveInv, Shape
<1>4. {"settle", "save", "refused", "error", "in_flight", "mark_synced", "mark_failed"}
            \subseteq Places \ Creating
    BY DEF Places, Holding, Marking, Creating, Ended
<1>5. CASE Find(h)
    <2> DEFINE found == requests[task[h].request]
    <2>1. pc[h] = "find" /\ UNCHANGED account /\ task[h].kind \in Reviews
        BY <1>5 DEF Find, At, LeaveInv, Sound, Held
    <2>2. CASE Goto(h, "refused") /\ UNCHANGED copy
        <3>1. Weighed(h)'
            BY <1>3, <1>4, <2>2 DEF Weighed, Creating
        <3> QED
            BY <1>1, <1>2, <1>4, <2>1, <2>2, <3>1, TurnTypes
    <2>3. CASE /\ found # NoRequest /\ MayReview(task[h].kind, found.status)
               /\ Goto(h, "settle") /\ copy' = [copy EXCEPT ![h] = found]
        <3>1. task[h].request \in Handlers
            BY <2>1, Reviewed
        <3>2. task[h].kind = "approve" => found.status = "PENDING"
            BY <2>3 DEF MayReview
        <3>3. task[h].kind = "approve" => found.attempts = 0
            BY <1>1, <3>1, <3>2 DEF Untried
        <3>4. /\ copy' \in Rows /\ copy'[h] = found
              /\ \A g \in Handlers : g # h => copy'[g] = copy[g]
            BY <1>1, <2>3, <3>1 DEF Rows
        <3> HIDE DEF found
        <3>5. Weighed(h)'
            BY <1>1, <1>3, <1>4, <2>3, <3>3, <3>4 DEF Weighed, Creating
        <3> QED
            BY <1>1, <1>2, <1>4, <2>1, <2>3, <3>4, <3>5, TurnTypes
    <2> QED
        BY <1>5, <2>2, <2>3 DEF Find
<1>6. CASE Settle(h)
    <2>1. /\ pc[h] = "settle" /\ UNCHANGED copy /\ Goto(h, "save")
          /\ Charge(copy[h].account, Settlement(task[h].kind, copy[h].status), copy[h].days)
        BY <1>6 DEF Settle, At
    <2>2. copy[h] \in Requests /\ task[h].kind \in Reviews
        BY <2>1, HeldIsRow DEF Holding
    <2>3. copy[h].account \in Accounts /\ copy[h].days \in Nat
        BY <2>2, MaxDaysAssumption DEF Requests
    <2>4. Settlement(task[h].kind, copy[h].status) \in {"reserve", "confirm", "release", "restore"}
        BY <2>2 DEF Settlement, Reviews
    <2>5. account' \in [Accounts -> Account]
        BY <1>1, <2>1, <2>3, <2>4, ChargeTypes
    <2>6. Weighed(h)'
        BY <1>1, <1>3, <1>4, <2>1 DEF Weighed, Creating
    <2> QED
        BY <1>1, <1>2, <1>4, <2>1, <2>5, <2>6, TurnTypes
<1>7. CASE LedgerFails(h)
    <2>1. Goto(h, "error") /\ UNCHANGED <<account, copy>>
        BY <1>7 DEF LedgerFails
    <2>2. Weighed(h)'
        BY <1>3, <1>4, <2>1 DEF Weighed, Creating
    <2> QED
        BY <1>1, <1>2, <1>4, <2>1, <2>2, TurnTypes
<1>8. CASE HcmAnswers(h) \/ \E linked : NotifyIf(h, linked)
    <2>1. PICK p \in {"in_flight", "mark_synced", "mark_failed"} : Goto(h, p)
        BY <1>8 DEF HcmAnswers, NotifyIf
    <2>2. UNCHANGED <<account, copy>>
        BY <1>8 DEF HcmAnswers, NotifyIf
    <2>3. Weighed(h)'
        BY <1>3, <1>4, <2>1 DEF Weighed, Creating
    <2> QED
        BY <1>1, <1>2, <1>4, <2>1, <2>2, <2>3, TurnTypes
<1> QED
    BY <1>5, <1>6, <1>7, <1>8

\* A save: what is written is a row that is not pending.
LEMMA SaveTypes ==
    ASSUME LeaveInv, LeaveTypes, NEW h \in Handlers, pc[h] \in Holding,
           NEW object \in Requests, object.status # "PENDING", SaveCopy(h, object),
           NEW p \in Places \ Creating, Goto(h, p), UNCHANGED <<account, task, crashes>>,
           p \notin {"settle", "save"}, p = "mark_syncing" => object.attempts = 0
    PROVE  LeaveTypes'
<1> PICK r : r = task[h].request OBVIOUS
<1>1. r \in Handlers /\ requests \in Rows /\ copy \in Rows /\ Untried
    BY HeldIsRow DEF LeaveTypes
<1>2. /\ requests' \in Rows /\ copy' \in Rows /\ copy'[h] = object
      /\ \A g \in Handlers : g # h => copy'[g] = copy[g] /\ task'[g] = task[g]
    BY <1>1 DEF SaveCopy, Rows
<1>3. Untried'
    BY <1>1 DEF SaveCopy, Rows, Untried
<1>4. pc'[h] = p
    BY DEF Goto, LeaveInv, Shape
<1>5. Weighed(h)'
    BY <1>2, <1>4 DEF Weighed
<1> QED
    BY <1>2, <1>3, <1>5, TurnTypes DEF LeaveTypes

LEMMA VerdictTypes ==
    ASSUME LeaveInv, LeaveTypes, NEW h \in Handlers, SaveVerdict(h) PROVE LeaveTypes'
<1> DEFINE verdict == Verdict(task[h].kind)
           object == [copy[h] EXCEPT !.status = verdict]
           p == IF task[h].kind = "approve" THEN "mark_syncing" ELSE "replied"
<1>1. /\ pc[h] = "save" /\ SaveCopy(h, object) /\ Goto(h, p)
      /\ UNCHANGED <<account, task, crashes>>
    BY DEF SaveVerdict, At
<1>2. pc[h] \in Holding /\ copy[h] \in Requests /\ task[h].kind \in Reviews
    BY <1>1, HeldIsRow DEF Holding
<1>3. verdict \in {"APPROVED", "REJECTED", "CANCELLED"}
    BY <1>2 DEF Reviews, Verdict
<1> HIDE DEF verdict, object
<1>4. object = [copy[h] EXCEPT !.status = verdict]
    BY DEF object
<1>5. /\ object \in Requests /\ object.status = verdict
      /\ object.attempts = copy[h].attempts
    BY <1>2, <1>3, <1>4, SavedStatus
<1>6. p = "mark_syncing" => object.attempts = 0
    BY <1>1, <1>5 DEF LeaveTypes, Weighed
<1>7. p \in Places \ Creating /\ p \notin {"settle", "save"}
    BY DEF Places, Holding, Marking, Creating, Ended
<1>8. SaveCopy(h, object)
    BY <1>1 DEF object
<1> HIDE DEF p
<1> QED
    BY <1>1, <1>2, <1>3, <1>5, <1>6, <1>7, <1>8, SaveTypes

LEMMA MarkTypes ==
    ASSUME LeaveInv, LeaveTypes, NEW h \in Handlers,
           MarkSyncing(h) \/ MarkSynced(h) \/ MarkFailed(h)
    PROVE  LeaveTypes'
<1>1. /\ pc[h] \in {"mark_syncing", "mark_synced", "mark_failed"}
      /\ UNCHANGED <<account, task, crashes>>
    BY DEF MarkSyncing, MarkSynced, MarkFailed, At
<1>2. pc[h] \in Holding /\ pc[h] \in AfterVerdict
    BY <1>1 DEF Holding, Marking, AfterVerdict
<1>3. copy[h] \in Requests /\ task[h].kind \in Reviews
    BY <1>2, HeldIsRow
<1>4. copy[h].status = "APPROVED" /\ task[h].kind = "approve"
    BY <1>1, <1>2, <1>3 DEF LeaveInv, Sound, Held, Decided, Marking, Verdict
<1>5. {"notify", "settled"} \subseteq Places \ Creating
    BY DEF Places, Holding, Marking, Creating, Ended
<1>6. CASE MarkSyncing(h)
    <2> DEFINE object == [copy[h] EXCEPT !.sync = "SYNCING", !.attempts = copy[h].attempts + 1]
    <2>1. copy[h].attempts = 0
        BY <1>4, <1>6 DEF MarkSyncing, At, LeaveTypes, Weighed
    <2>2. SaveCopy(h, object) /\ Goto(h, "notify")
        BY <1>6 DEF MarkSyncing
    <2>3. object = [copy[h] EXCEPT !.sync = "SYNCING", !.attempts = 1]
        BY <2>1
    <2> HIDE DEF object
    <2>4. PICK sync \in {"NOT_SYNCED", "SYNCING", "SYNCED", "FAILED"} : sync = "SYNCING"
        OBVIOUS
    <2>5. PICK attempts \in 0..1 : attempts = 1
        OBVIOUS
    <2>6. object = [copy[h] EXCEPT !.sync = sync, !.attempts = attempts]
        BY <2>3, <2>4, <2>5
    <2>7. object \in Requests /\ object.status = "APPROVED"
        BY <1>3, <1>4, <2>6, SavedAttempt
    <2> QED
        BY <1>1, <1>2, <1>5, <2>2, <2>7, SaveTypes
<1>7. ASSUME NEW sync \in {"SYNCED", "FAILED"}, Goto(h, "settled"),
             NEW object, object = [copy[h] EXCEPT !.sync = sync], SaveCopy(h, object)
      PROVE  LeaveTypes'
    <2>1. object \in Requests /\ object.status = "APPROVED"
        BY <1>3, <1>4, <1>7, SavedSync
    <2> QED
        BY <1>1, <1>2, <1>5, <1>7, <2>1, SaveTypes
<1> QED
    BY <1>6, <1>7 DEF MarkSynced, MarkFailed

\* A request comes in, and takes a turn or is answered from the cache.
LEMMA ArrivalTypes ==
    ASSUME LeaveInv, LeaveTypes, NEW h \in Handlers,
           \/ \E s \in Submissions : Submit(h, s)
           \/ \E kind \in Reviews, r \in Handlers : Review(h, kind, r)
           \/ \E asked \in Tasks, g \in Handlers : pc[h] = "start" /\ ReplayLeave(h, asked, g)
    PROVE  LeaveTypes'
<1>1. /\ requests \in Rows /\ copy \in Rows /\ Untried /\ account \in [Accounts -> Account]
      /\ UNCHANGED <<account, requests, crashes>> /\ pc[h] = "start"
    BY DEF LeaveTypes, Submit, Review, ReplayLeave, At
<1>2. Untried'
    BY <1>1 DEF Untried
<1>3. {"validate", "find", "replied"} \subseteq Places
    BY DEF Places, Creating, Ended
<1>4. \A g \in Handlers : g # h => task'[g] = task[g]
    BY DEF Submit, Review, ReplayLeave, LeaveInv, Shape
<1>5. CASE UNCHANGED copy /\ \E p \in {"validate", "find"} : Goto(h, p)
    <2>1. Weighed(h)'
        BY <1>5 DEF Goto, LeaveInv, Shape, Weighed, Creating
    <2> QED
        BY <1>1, <1>2, <1>3, <1>4, <1>5, <2>1, TurnTypes
<1>6. CASE \E asked \in Tasks, g \in Handlers : ReplayLeave(h, asked, g)
    <2>1. PICK g \in Handlers :
            /\ copy' = [copy EXCEPT ![h] = copy[g]]
            /\ pc' = [pc EXCEPT ![h] = "replied"]
            /\ running' = running
        BY <1>6 DEF ReplayLeave
    <2>2. copy' \in Rows /\ \A f \in Handlers : f # h => copy'[f] = copy[f]
        BY <1>1, <2>1 DEF Rows
    <2>3. /\ pc'[h] = "replied" /\ \A f \in Handlers : f # h => pc'[f] = pc[f]
        BY <2>1 DEF LeaveInv, Shape
    <2>4. running' \in Handlers => pc'[running'] \notin Idle
        BY <1>1, <2>1, <2>3 DEF LeaveTypes, Idle
    <2>5. ASSUME NEW f \in Handlers PROVE Weighed(f)'
        <3>1. CASE f = h
            BY <2>3, <3>1 DEF Weighed, Creating
        <3>2. CASE f # h
            BY <1>4, <2>2, <2>3, <3>2 DEF LeaveTypes, Weighed
        <3> QED
            BY <3>1, <3>2
    <2> QED
        BY <1>1, <1>2, <2>2, <2>4, <2>5 DEF LeaveTypes
<1> QED
    BY <1>5, <1>6 DEF Submit, Review

LEMMA CrashTypes == ASSUME LeaveInv, LeaveTypes, Crash PROVE LeaveTypes'
<1>1. /\ crashes < MaxCrashes /\ crashes' = crashes + 1 /\ running' = Nobody
      /\ UNCHANGED <<account, requests, task, copy>>
      /\ pc' = [h \in Handlers |-> IF pc[h] \in Ended \cup {"start"} THEN pc[h] ELSE "crashed"]
    BY DEF Crash
<1>2. crashes' \in 0..MaxCrashes
    BY <1>1, MaxCrashesAssumption DEF LeaveTypes
<1>3. ASSUME NEW h \in Handlers PROVE Weighed(h)'
    <2>1. pc'[h] \in Ended \cup {"start"}
        BY <1>1 DEF Ended
    <2> QED
        BY <2>1 DEF Weighed, Creating, Ended
<1> QED
    BY <1>1, <1>2, <1>3, NobodyAssumption DEF LeaveTypes, Untried

LEMMA TypesNext == ASSUME ApiInv, LeaveTypes, [ApiNext]_apiVars PROVE LeaveTypes'
<1>1. LeaveInv
    BY DEF ApiInv
<1>2. ASSUME NEW h \in Handlers, NEW s \in Submissions, PostSubmission(h, s)
      PROVE  LeaveTypes'
    <2>1. [kind |-> "create", body |-> s] \in Tasks /\ pc[h] = "start"
        BY <1>2 DEF Tasks, PostSubmission, Arrive
    <2> QED
        BY <1>1, <1>2, <2>1, ArrivalTypes DEF PostSubmission
<1>3. ASSUME NEW h \in Handlers, NEW kind \in Reviews, NEW r \in Handlers,
             NEW key \in {NoKey, <<kind, r>>}, PostReview(h, kind, r, key)
      PROVE  LeaveTypes'
    <2>1. [kind |-> kind, request |-> r] \in Tasks /\ pc[h] = "start"
        BY <1>3 DEF Tasks, Reviews, PostReview, Arrive
    <2> QED
        BY <1>1, <1>3, <2>1, ArrivalTypes DEF PostReview
<1>4. ASSUME NEW h \in Handlers, LeaveStep(h) PROVE LeaveTypes'
    BY <1>1, <1>4, CreateTypes, ReviewTypes, VerdictTypes, MarkTypes DEF LeaveStep
<1>5. CASE Restart
    BY <1>1, <1>5, CrashTypes DEF Restart
<1>6. CASE UNCHANGED leave
    BY <1>6 DEF leave, vars, LeaveTypes, Untried, Weighed
<1> QED
    BY <1>2, <1>3, <1>4, <1>5, <1>6
    DEF ApiNext, PostEmployee, PutEmployee, PeopleStep, Answer, Cleanup, apiVars, Reviews

-----------------------------------------------------------------------------
(* One answer for a key.                                                   *)

Started(h) == pc[h] # "start" \/ desk[h] # "start"

CacheTypes ==
    /\ waiting \subseteq Handlers
    /\ \A h \in waiting : Started(h)
    /\ processedKeys \cap waiting = {}
    /\ \A h \in processedKeys : header[h] # NoKey
    /\ \A g, h \in processedKeys : header[g] = header[h] => g = h

\* Who has come in stays so.
LEMMA StartedStays ==
    ASSUME ApiInv, [ApiNext]_apiVars, NEW h \in Handlers, Started(h) PROVE Started(h)'
<1>1. /\ pc \in [Handlers -> Places] /\ desk \in [Handlers -> People!Desks]
    BY DEF ApiInv, LeaveInv, Shape, PeopleInv, People!TypeOK
<1>2. ASSUME NEW g \in Handlers, NEW s \in Submissions, PostSubmission(g, s)
      PROVE  Started(h)'
    <2>1. /\ pc[g] = "start" /\ UNCHANGED desk
          /\ \E p \in {"validate", "replied"} : pc' = [pc EXCEPT ![g] = p]
        BY <1>2 DEF PostSubmission, Arrive, Submit, ReplayLeave, Goto, people
    <2> QED
        BY <1>1, <2>1 DEF Started
<1>3. ASSUME NEW g \in Handlers, NEW kind \in Reviews, NEW r \in Handlers,
             NEW key \in {NoKey, <<kind, r>>}, PostReview(g, kind, r, key)
      PROVE  Started(h)'
    <2>1. /\ pc[g] = "start" /\ UNCHANGED desk
          /\ \E p \in {"find", "replied"} : pc' = [pc EXCEPT ![g] = p]
        BY <1>3 DEF PostReview, Arrive, Review, ReplayLeave, Goto, people
    <2> QED
        BY <1>1, <2>1 DEF Started
<1>4. ASSUME NEW g \in Handlers, NEW body \in CreateBodies, PostEmployee(g, body)
      PROVE  Started(h)'
    <2>1. /\ UNCHANGED pc
          /\ \E place \in {"check_email", "replayed"} : desk' = [desk EXCEPT ![g] = place]
        BY <1>4 DEF PostEmployee, People!Create, People!Goto, leave, vars
    <2> QED
        BY <1>1, <2>1 DEF Started
<1>5. ASSUME NEW g \in Handlers, NEW e, NEW fields, PutEmployee(g, e, fields)
      PROVE  Started(h)'
    <2>1. UNCHANGED pc /\ desk' = [desk EXCEPT ![g] = "find"]
        BY <1>5 DEF PutEmployee, People!Update, People!Goto, leave, vars
    <2> QED
        BY <1>1, <2>1 DEF Started
<1>6. ASSUME NEW g \in Handlers, LeaveStep(g) PROVE Started(h)'
    <2>1. PICK p \in {"check_key", "refused", "check_overlap", "reserve", "insert",
                      "replied", "error", "settle", "save", "mark_syncing", "notify",
                      "in_flight", "mark_synced", "mark_failed", "settled"} : Goto(g, p)
        BY <1>6 DEF LeaveStep, ValidateActive, Validate, CheckKey, CheckOverlap, Reserve,
                    Insert, Find, Settle, SaveVerdict, LedgerFails, MarkSyncing, NotifyIf,
                    HcmAnswers, MarkSynced, MarkFailed
    <2>2. UNCHANGED desk
        BY <1>6 DEF LeaveStep, people
    <2> QED
        BY <1>1, <2>1, <2>2 DEF Goto, Started
<1>7. ASSUME NEW g \in Handlers, PeopleStep(g) PROVE Started(h)'
    <2>1. PICK place \in {"conflict", "insert", "check_link", "created", "error", "not_found",
                          "save", "updated"} : desk' = [desk EXCEPT ![g] = place]
        BY <1>7 DEF PeopleStep, People!Step, People!CheckEmail, People!CheckLink,
                    People!Insert, People!FindById, People!Save, People!Goto
    <2>2. UNCHANGED pc
        BY <1>7 DEF PeopleStep, leave, vars
    <2> QED
        BY <1>1, <2>1, <2>2 DEF Started
<1>8. CASE Restart
    BY <1>8 DEF Restart, Crash, Started, Ended, People!Ended
<1>9. CASE UNCHANGED <<leave, people>>
    BY <1>9 DEF leave, vars, people, Started
<1> QED
    BY <1>2, <1>3, <1>4, <1>5, <1>6, <1>7, <1>8, <1>9
    DEF ApiNext, Answer, Cleanup, apiVars, Reviews

\* A request that comes in is in nobody's way: it has no answer yet.
LEMMA ArriveCache ==
    ASSUME ApiInv, CacheTypes, NEW h \in Handlers, NEW key, Arrive(h, key),
           waiting' = waiting \/ waiting' = waiting \cup {h}, Started(h)',
           \A g \in Handlers : Started(g) => Started(g)'
    PROVE  CacheTypes'
<1>1. /\ pc[h] = "start" /\ desk[h] = "start" /\ header' = [header EXCEPT ![h] = key]
      /\ processedKeys' = processedKeys
    BY DEF Arrive
<1>2. h \notin processedKeys /\ processedKeys \subseteq Handlers /\ DOMAIN header = Handlers
    BY <1>1 DEF ApiInv, CacheInv, Succeeded, AfterVerdict
<1>3. \A g \in processedKeys : header'[g] = header[g]
    BY <1>1, <1>2
<1>4. \A g \in waiting' : Started(g)' /\ g \in Handlers
    BY DEF CacheTypes
<1> QED
    BY <1>1, <1>2, <1>3, <1>4 DEF CacheTypes

LEMMA CacheNext == ASSUME ApiInv, CacheTypes, [ApiNext]_apiVars PROVE CacheTypes'
<1>1. \A h \in Handlers : Started(h) => Started(h)'
    BY StartedStays
<1>2. pc \in [Handlers -> Places] /\ desk \in [Handlers -> People!Desks]
    BY DEF ApiInv, LeaveInv, Shape, PeopleInv, People!TypeOK
<1>3. ASSUME NEW h \in Handlers, NEW s \in Submissions, PostSubmission(h, s)
      PROVE  CacheTypes'
    <2>1. Arrive(h, s.key) /\ (waiting' = waiting \/ waiting' = waiting \cup {h})
        BY <1>3 DEF PostSubmission, Pass, Replay
    <2>2. pc'[h] # "start"
        BY <1>2, <1>3 DEF PostSubmission, Submit, ReplayLeave, Goto
    <2> QED
        BY <1>1, <2>1, <2>2, ArriveCache DEF Started
<1>4. ASSUME NEW h \in Handlers, NEW kind \in Reviews, NEW r \in Handlers,
             NEW key \in {NoKey, <<kind, r>>}, PostReview(h, kind, r, key)
      PROVE  CacheTypes'
    <2>1. Arrive(h, key) /\ (waiting' = waiting \/ waiting' = waiting \cup {h})
        BY <1>4 DEF PostReview, Pass, Replay
    <2>2. pc'[h] # "start"
        BY <1>2, <1>4 DEF PostReview, Review, ReplayLeave, Goto
    <2> QED
        BY <1>1, <2>1, <2>2, ArriveCache DEF Started
<1>5. ASSUME NEW h \in Handlers, NEW body \in CreateBodies, PostEmployee(h, body)
      PROVE  CacheTypes'
    <2>1. /\ Arrive(h, <<"employee", body>>)
          /\ waiting' = waiting \/ waiting' = waiting \cup {h}
        BY <1>5 DEF PostEmployee, Pass, Replay
    <2>2. desk'[h] # "start"
        BY <1>2, <1>5 DEF PostEmployee, People!Create, People!Goto
    <2> QED
        BY <1>1, <2>1, <2>2, ArriveCache DEF Started
<1>6. ASSUME NEW h \in Handlers, NEW e, NEW fields, PutEmployee(h, e, fields)
      PROVE  CacheTypes'
    <2>1. Arrive(h, NoKey) /\ waiting' = waiting \cup {h}
        BY <1>6 DEF PutEmployee
    <2>2. desk'[h] # "start"
        BY <1>2, <1>6 DEF PutEmployee, People!Update, People!Goto
    <2> QED
        BY <1>1, <2>1, <2>2, ArriveCache DEF Started
<1>7. ASSUME NEW h \in Handlers, Answer(h) PROVE CacheTypes'
    <2>1. /\ h \in waiting /\ waiting' = waiting \ {h} /\ UNCHANGED header
          /\ \/ processedKeys' = processedKeys
             \/ /\ header[h] # NoKey
                /\ processedKeys' = (processedKeys \ Cached(header[h])) \cup {h}
        BY <1>7 DEF Answer
    <2>2. \A g \in processedKeys \ Cached(header[h]) : header[h] # NoKey => header[g] # header[h]
        BY DEF Cached
    <2> QED
        BY <1>1, <2>1, <2>2 DEF CacheTypes
<1>8. CASE Cleanup
    <2>1. processedKeys' \subseteq processedKeys /\ UNCHANGED <<header, waiting>>
        BY <1>8 DEF Cleanup
    <2> QED
        BY <1>1, <2>1 DEF CacheTypes
<1>9. CASE Restart
    BY <1>9 DEF Restart, CacheTypes
<1>10. CASE UNCHANGED cache
    BY <1>1, <1>10 DEF cache, CacheTypes
<1> QED
    BY <1>3, <1>4, <1>5, <1>6, <1>7, <1>8, <1>9, <1>10
    DEF ApiNext, LeaveStep, PeopleStep, apiVars, Reviews

\* Everything behind the interface has its type, and the cache holds one
\* answer for a key, none of them of a request still to be answered.
THEOREM ApiTypeCorrect == ApiSpec => []ApiTypeOK
<1>1. ASSUME ApiInit PROVE LeaveTypes /\ CacheTypes
    <2>1. /\ account = [a \in Accounts |-> [total |-> Allotments[a], used |-> 0, pending |-> 0]]
          /\ requests = [h \in Handlers |-> NoRequest] /\ pc = [h \in Handlers |-> "start"]
          /\ copy = [h \in Handlers |-> NoRequest] /\ running = Nobody /\ crashes = 0
          /\ waiting = {} /\ processedKeys = {}
        BY <1>1 DEF ApiInit, Init
    <2>2. account \in [Accounts -> Account] /\ crashes \in 0..MaxCrashes
        BY <2>1, AllotmentsAssumption, MaxCrashesAssumption DEF Account
    <2>3. requests \in Rows /\ copy \in Rows /\ Untried
        BY <2>1 DEF Rows, Untried, NoRequest
    <2> QED
        BY <2>1, <2>2, <2>3, NobodyAssumption DEF LeaveTypes, Weighed, Creating, CacheTypes
<1>2. ApiInv /\ LeaveTypes /\ CacheTypes /\ [ApiNext]_apiVars => LeaveTypes' /\ CacheTypes'
    BY TypesNext, CacheNext
<1>3. ApiInv /\ LeaveTypes /\ CacheTypes => ApiTypeOK
    BY DEF ApiInv, LeaveInv, Shape, PeopleInv, CacheInv, LeaveTypes, CacheTypes, Rows,
           ApiTypeOK, TypeOK
<1> QED
    BY <1>1, <1>2, <1>3, ApiInvariant, PTL DEF ApiSpec
=============================================================================
