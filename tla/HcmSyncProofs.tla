---------------------------- MODULE HcmSyncProofs ----------------------------
(***************************************************************************)
(* Theorems about HcmSyncService, for every set of runs, of employees and  *)
(* of balances, and whatever happens at the HCM.                           *)
(*                                                                         *)
(* Everything rests on two facts.  Whoever stands past its answer has the  *)
(* event loop, so nobody relocates an employee or settles a balance under  *)
(* a run that writes.  And the books a run has read are no older than the  *)
(* run: what it stored is what the HCM said after it began.                *)
(***************************************************************************)
EXTENDS HcmSyncService, FiniteSetTheorems, TLAPS

\* The employees a run may hold.
Targets == [employee : Employees, id : HcmIds, location : Locations]

Reads == {"look_up", "fetch", "write", "next"}

\* What a run has before it has an answer, and the age of the answer.
Clean(r) ==
    /\ pc[r] \in Waiting \cup {"look_up"} => written[r] = {} /\ outcome[r] = Uncounted
    /\ pc[r] \in {"start", "look_up"} => snapshot[r] = NoAnswer
    /\ pc[r] \in {"write", "next"} => snapshot[r] # NoAnswer
    /\ began[r] <= hcm
    /\ snapshot[r] # NoAnswer =>
        /\ began[r] <= snapshot[r].books /\ snapshot[r].books <= hcm
        /\ \A b \in snapshot[r].sent : b.owner \in snapshot[r].listed

\* Whom a run is about.
About(r) ==
    /\ pc[r] \in Reads => task[r] \in Tasks
    /\ pc[r] = "look_up" => task[r].kind = "single"
    /\ pc[r] = "write" => target[r] \in Targets
    /\ pc[r] \in {"fetch", "next"} /\ task[r].kind = "single" => target[r] \in Targets
    /\ pc[r] \in Reads /\ task[r].kind = "single" /\ snapshot[r] # NoAnswer =>
        snapshot[r].listed = {target[r].id}

\* Balance b of employee t has the figures that the run has read.
Stored(r, t, b) ==
    figures[Row(t.employee, b, t.location)] = <<b, snapshot[r].books>>

\* A single sync writes the balances of the one it looked up.
SingleWrites(r) ==
    task[r].kind = "single" /\ pc[r] \in {"write", "next"} =>
        /\ written[r] \subseteq Sent(r, target[r].id)
        /\ \A b \in written[r] : Stored(r, target[r], b)
        /\ pc[r] = "next" => Sent(r, target[r].id) \subseteq written[r]
        /\ \A i \in HcmIds : outcome[r][i] \in {"none", "updated"}

\* Of whom HCM employee i is, the run has found this out.
Tallied(r, i) ==
    /\ outcome[r][i] # "none" => i \in snapshot[r].listed
    /\ outcome[r][i] = "none" =>
        \/ Sent(r, i) \cap written[r] = {}
        \/ pc[r] = "write" /\ i = target[r].id
    /\ outcome[r][i] = "skipped" =>
        /\ Sent(r, i) \cap written[r] = {}
        /\ \E e \in Employees : employees[e].link = i /\ Skips(r, e)
    /\ outcome[r][i] = "failed" =>
        \/ \A e \in Employees : employees[e].link # i
        \/ /\ Sent(r, i) \ written[r] # {}
           /\ \E e \in Employees : employees[e].link = i /\ ~ Skips(r, e)
    /\ outcome[r][i] = "updated" =>
        /\ Sent(r, i) \subseteq written[r]
        /\ \E e \in Employees :
            /\ employees[e].link = i /\ ~ Skips(r, e)
            /\ \A b \in Sent(r, i) : Stored(r, Found(e), b)

\* A batch goes from one employee to the next.
BatchWrites(r) ==
    task[r].kind = "batch" /\ pc[r] \in {"write", "next"} =>
        /\ \A i \in HcmIds : Tallied(r, i)
        /\ pc[r] = "write" =>
            /\ target[r] = Found(target[r].employee)
            /\ ~ Skips(r, target[r].employee)
            /\ target[r].id \in snapshot[r].listed
            /\ outcome[r][target[r].id] = "none"
            /\ \A b \in Sent(r, target[r].id) \cap written[r] : Stored(r, target[r], b)

Sound(r) ==
    /\ pc[r] \notin Waiting => running = r
    /\ Clean(r)
    /\ About(r)
    /\ SingleWrites(r)
    /\ BatchWrites(r)

SyncInv == TypeOK /\ \A r \in Runs : Sound(r)

-----------------------------------------------------------------------------
(* Who may step, and what that leaves alone.                               *)

Places == Waiting \cup {"look_up", "next", "write"}
Figures == [Rows -> {Local} \cup (HcmBalances \X (0..MaxChanges))]
Logs ==
    [Runs ->
        [status : {"none", "IN_PROGRESS", "SUCCESS", "PARTIAL_SUCCESS", "FAILED"},
         balances : 0..Cardinality(HcmBalances)]]

LEMMA PlacesAre ==
    /\ Waiting = {"start", "fetch", "ended", "crashed"}
    /\ Places = {"start", "fetch", "ended", "crashed", "look_up", "next", "write"}
    /\ Reads \cap Waiting = {"fetch"}
BY DEF Waiting, Places, Reads

\* While a run has the event loop, the others wait.
LEMMA OthersWait ==
    ASSUME SyncInv, NEW r \in Runs, running \in {Nobody, r}, NEW s \in Runs, s # r
    PROVE  pc[s] \in Waiting
BY NoNamesAssumption DEF SyncInv, Sound

\* What run s has to itself.
Same(s) ==
    /\ pc'[s] = pc[s] /\ task'[s] = task[s] /\ target'[s] = target[s]
    /\ snapshot'[s] = snapshot[s] /\ outcome'[s] = outcome[s]
    /\ written'[s] = written[s] /\ began'[s] = began[s]

\* Whoever waits has nothing that the tables could contradict.
LEMMA WaitingStays ==
    ASSUME SyncInv, NEW s \in Runs, pc[s] \in Waiting, Same(s), TypeOK', hcm <= hcm'
    PROVE  Sound(s)'
<1>1. pc'[s] \in Waiting /\ pc'[s] \notin {"look_up", "write", "next"}
    BY PlacesAre DEF Same
<1>2. /\ hcm \in Int /\ hcm' \in Int /\ began[s] \in Int /\ snapshot[s] \in {NoAnswer} \cup Answers
      /\ Clean(s) /\ About(s)
    BY DEF SyncInv, TypeOK, Sound
<1>3. Clean(s)'
    BY <1>1, <1>2 DEF Same, Clean, Answers
<1>4. About(s)'
    BY <1>1, <1>2 DEF Same, About
<1>5. SingleWrites(s)' /\ BatchWrites(s)'
    BY <1>1 DEF SingleWrites, BatchWrites
<1> QED
    BY <1>1, <1>3, <1>4, <1>5 DEF Sound

\* The step of a run that has the event loop.
LEMMA RunKeeps ==
    ASSUME SyncInv, NEW r \in Runs, running \in {Nobody, r}, TypeOK', Sound(r)',
           hcm' = hcm, \A s \in Runs \ {r} : Same(s)
    PROVE  SyncInv'
<1>1. hcm <= hcm'
    BY DEF SyncInv, TypeOK
<1>2. \A s \in Runs : Sound(s)'
    BY <1>1, OthersWait, WaitingStays
<1> QED
    BY <1>2 DEF SyncInv

\* What Goto does to the types.
LEMMA Gone ==
    ASSUME SyncInv, NEW r \in Runs, NEW p \in Places, Goto(r, p)
    PROVE  /\ pc' \in [Runs -> Places] /\ pc'[r] = p
           /\ \A s \in Runs \ {r} : pc'[s] = pc[s]
           /\ running' \in Runs => pc'[running'] \notin Waiting
           /\ p \notin Waiting => running' = r
BY NoNamesAssumption DEF SyncInv, TypeOK, Goto, Places

\* The end of a call.
LEMMA ReturnKeeps ==
    ASSUME SyncInv, NEW r \in Runs, running \in {Nobody, r}, Return(r), UNCHANGED books,
           \/ UNCHANGED log
           \/ \E status \in {"SUCCESS", "PARTIAL_SUCCESS", "FAILED"},
                 balances \in 0..Cardinality(HcmBalances) :
                log' = [log EXCEPT ![r] = [status |-> status, balances |-> balances]]
    PROVE  SyncInv'
<1>1. /\ Goto(r, "ended") /\ "ended" \in Places
      /\ task' = [task EXCEPT ![r] = NoTask]
      /\ target' = [target EXCEPT ![r] = NoTarget]
      /\ snapshot' = [snapshot EXCEPT ![r] = NoAnswer]
      /\ outcome' = [outcome EXCEPT ![r] = Uncounted]
      /\ written' = [written EXCEPT ![r] = {}]
      /\ began' = [began EXCEPT ![r] = 0]
    BY PlacesAre DEF Return
<1>2. TypeOK'
    <2>1. Uncounted \in [HcmIds -> {"none", "updated", "skipped", "failed"}] /\ 0 \in 0..MaxChanges
        BY MaxChangesAssumption DEF Uncounted
    <2>2. log' \in Logs
        <3>1. log \in Logs
            BY DEF SyncInv, TypeOK, Logs
        <3>2. CASE \E status \in {"SUCCESS", "PARTIAL_SUCCESS", "FAILED"},
                      balances \in 0..Cardinality(HcmBalances) :
                log' = [log EXCEPT ![r] = [status |-> status, balances |-> balances]]
            BY <3>1, <3>2 DEF Logs
        <3> QED
            BY <3>1, <3>2
    <2>3. /\ hcm' \in 0..MaxChanges
          /\ employees' \in [Employees -> [link : HcmIds \cup {NoLink}, location : Locations]]
          /\ \A d, e \in Employees :
                d # e /\ employees'[d].link = employees'[e].link => employees'[e].link = NoLink
          /\ figures' \in Figures
        BY DEF SyncInv, TypeOK, books, Figures
    <2>4. /\ task' \in [Runs -> Tasks \cup {NoTask}]
          /\ snapshot' \in [Runs -> {NoAnswer} \cup Answers]
          /\ target' \in [Runs -> {NoTarget} \cup
                [employee : Employees, id : HcmIds, location : Locations]]
        BY <1>1 DEF SyncInv, TypeOK
    <2>5. /\ outcome' \in [Runs -> [HcmIds -> {"none", "updated", "skipped", "failed"}]]
          /\ written' \in [Runs -> SUBSET HcmBalances]
          /\ began' \in [Runs -> 0..MaxChanges]
        BY <1>1, <2>1 DEF SyncInv, TypeOK
    <2> QED
        BY <1>1, <2>2, <2>3, <2>4, <2>5, Gone DEF TypeOK, Places, Figures, Logs
<1>3. /\ pc'[r] = "ended" /\ task'[r] = NoTask /\ target'[r] = NoTarget
      /\ snapshot'[r] = NoAnswer /\ outcome'[r] = Uncounted /\ written'[r] = {}
      /\ began'[r] = 0 /\ hcm' = hcm /\ hcm \in 0..MaxChanges
    BY <1>1, Gone DEF SyncInv, TypeOK, books
<1>4. \A s \in Runs \ {r} : Same(s)
    BY <1>1, Gone DEF SyncInv, TypeOK, Same
<1>5. Sound(r)'
    BY <1>3, PlacesAre, MaxChangesAssumption DEF Sound, Clean, About, SingleWrites, BatchWrites, Reads
<1> QED
    BY <1>2, <1>3, <1>4, <1>5, RunKeeps

\* What run r holds has its types.
Typed(r) ==
    /\ task'[r] \in Tasks \cup {NoTask} /\ target'[r] \in {NoTarget} \cup Targets
    /\ snapshot'[r] \in {NoAnswer} \cup Answers /\ began'[r] \in 0..MaxChanges
    /\ outcome'[r] \in [HcmIds -> {"none", "updated", "skipped", "failed"}]
    /\ written'[r] \in SUBSET HcmBalances

\* A step gives a function another value at r at most.
ChangesAt(f, g, r) == \E v : g = [f EXCEPT ![r] = v]

\* A step of run r changes what is its own.
LEMMA MovedTypes ==
    ASSUME SyncInv, NEW r \in Runs, NEW p \in Places, Goto(r, p),
           UNCHANGED <<hcm, employees>>,
           figures' \in Figures,
           log' \in Logs,
           task' = task \/ ChangesAt(task, task', r),
           target' = target \/ ChangesAt(target, target', r),
           snapshot' = snapshot \/ ChangesAt(snapshot, snapshot', r),
           outcome' = outcome \/ ChangesAt(outcome, outcome', r),
           written' = written \/ ChangesAt(written, written', r),
           began' = began \/ ChangesAt(began, began', r),
           Typed(r)
    PROVE  /\ TypeOK'
           /\ \A s \in Runs \ {r} : Same(s)
<1>1. /\ hcm' \in 0..MaxChanges
      /\ employees' \in [Employees -> [link : HcmIds \cup {NoLink}, location : Locations]]
      /\ \A d, e \in Employees :
            d # e /\ employees'[d].link = employees'[e].link => employees'[e].link = NoLink
    BY DEF SyncInv, TypeOK
<1>2. /\ task' \in [Runs -> Tasks \cup {NoTask}]
      /\ \A s \in Runs \ {r} : task'[s] = task[s]
    BY DEF SyncInv, TypeOK, ChangesAt, Typed
<1>3. /\ target' \in [Runs -> {NoTarget} \cup
            [employee : Employees, id : HcmIds, location : Locations]]
      /\ \A s \in Runs \ {r} : target'[s] = target[s]
    BY DEF SyncInv, TypeOK, ChangesAt, Typed, Targets
<1>4. /\ snapshot' \in [Runs -> {NoAnswer} \cup Answers]
      /\ \A s \in Runs \ {r} : snapshot'[s] = snapshot[s]
    BY DEF SyncInv, TypeOK, ChangesAt, Typed
<1>5. /\ outcome' \in [Runs -> [HcmIds -> {"none", "updated", "skipped", "failed"}]]
      /\ \A s \in Runs \ {r} : outcome'[s] = outcome[s]
    BY DEF SyncInv, TypeOK, ChangesAt, Typed
<1>6. /\ written' \in [Runs -> SUBSET HcmBalances]
      /\ \A s \in Runs \ {r} : written'[s] = written[s]
    BY DEF SyncInv, TypeOK, ChangesAt, Typed
<1>7. /\ began' \in [Runs -> 0..MaxChanges]
      /\ \A s \in Runs \ {r} : began'[s] = began[s]
    BY DEF SyncInv, TypeOK, ChangesAt, Typed
<1>8. TypeOK'
    BY <1>1, <1>2, <1>3, <1>4, <1>5, <1>6, <1>7, Gone DEF TypeOK, Places, Figures, Logs
<1>9. \A s \in Runs \ {r} : Same(s)
    BY <1>2, <1>3, <1>4, <1>5, <1>6, <1>7, Gone DEF Same
<1> QED
    BY <1>8, <1>9

-----------------------------------------------------------------------------
(* The rows that balances are written to.                                  *)

LEMMA RowIn ==
    ASSUME NEW e \in Employees, NEW b \in HcmBalances, NEW location \in Locations
    PROVE  Row(e, b, location) \in Rows
BY HcmBalancesAssumption DEF Row, Rows, LocationOf

\* Balances of one employee of the HCM have rows of their own.
LEMMA RowsApart ==
    ASSUME NEW e \in Employees, NEW b \in HcmBalances, NEW c \in HcmBalances, b # c,
           b.owner = c.owner, NEW location \in Locations
    PROVE  Row(e, b, location) # Row(e, c, location)
BY HcmBalancesAssumption DEF Row, LocationOf

\* So do the balances of different employees.
LEMMA EmployeesApart ==
    ASSUME NEW d \in Employees, NEW e \in Employees, d # e,
           NEW b, NEW c, NEW k \in Locations, NEW l \in Locations
    PROVE  Row(d, b, k) # Row(e, c, l)
BY DEF Row

LEMMA TaskKinds ==
    ASSUME NEW t \in Tasks
    PROVE  /\ t.kind \in {"single", "batch"}
           /\ t.kind = "single" => t.employee \in Employees
           /\ t # NoTask
BY DEF Tasks, NoTask

\* An employee found with a link of the HCM.
LEMMA FoundIsTarget ==
    ASSUME SyncInv, NEW e \in Employees, employees[e].link # NoLink
    PROVE  Found(e) \in Targets
BY DEF SyncInv, TypeOK, Found, Targets

-----------------------------------------------------------------------------
(* The steps of a run.                                                     *)

LEMMA BeginKeeps ==
    ASSUME SyncInv, NEW r \in Runs, NEW t \in Tasks, Begin(r, t) PROVE SyncInv'
<1> DEFINE p == IF t.kind = "single" THEN "look_up" ELSE "fetch"
<1>1. /\ running \in {Nobody, r} /\ pc[r] = "start" /\ Goto(r, p) /\ p \in Places
      /\ task' = [task EXCEPT ![r] = t] /\ began' = [began EXCEPT ![r] = hcm]
      /\ log' = [log EXCEPT ![r].status = "IN_PROGRESS"]
      /\ UNCHANGED <<books, target, snapshot, outcome, written>>
    BY PlacesAre DEF Begin, At
<1> HIDE DEF p
<1>2. /\ task'[r] = t /\ target'[r] = target[r] /\ snapshot'[r] = snapshot[r]
      /\ outcome'[r] = outcome[r] /\ written'[r] = written[r] /\ began'[r] = hcm
      /\ hcm \in 0..MaxChanges
    BY <1>1 DEF SyncInv, TypeOK
<1>3. /\ figures' \in Figures
      /\ log' \in Logs
    <2>1. figures' = figures
        BY <1>1 DEF books
    <2>2. log \in Logs
        BY DEF SyncInv, TypeOK, Logs
    <2> QED
        BY <1>1, <2>1, <2>2 DEF SyncInv, TypeOK, Figures, Logs
<1>4. UNCHANGED <<hcm, employees, snapshot>> /\ Typed(r)
    BY <1>1, <1>2 DEF SyncInv, TypeOK, Typed, Targets, books
<1>5. /\ TypeOK' /\ \A s \in Runs \ {r} : Same(s)
      /\ pc'[r] = p
      /\ p \notin Waiting => running' = r
    BY <1>1, <1>3, <1>4, MovedTypes, Gone DEF ChangesAt
<1>6. Clean(r) /\ p \in {"look_up", "fetch"}
    BY DEF SyncInv, Sound, p
<1>7. pc[r] = "start" /\ snapshot[r] = NoAnswer /\ written[r] = {} /\ outcome[r] = Uncounted
    BY <1>1, <1>6, PlacesAre DEF Clean
<1>8. Clean(r)'
    BY <1>2, <1>4, <1>5, <1>6, <1>7, PlacesAre DEF Clean
<1>9. p = "look_up" <=> t.kind = "single"
    BY DEF p
<1>10. About(r)'
    BY <1>2, <1>5, <1>6, <1>7, <1>9 DEF About
<1>11. SingleWrites(r)' /\ BatchWrites(r)'
    BY <1>5, <1>6 DEF SingleWrites, BatchWrites, Sent
<1>12. Sound(r)'
    BY <1>5, <1>8, <1>10, <1>11 DEF Sound
<1> QED
    BY <1>1, <1>4, <1>5, <1>12, RunKeeps

\* A call that ends with an entry in its log.
LEMMA CloseKeeps ==
    ASSUME SyncInv, NEW r \in Runs, running \in {Nobody, r}, UNCHANGED books,
           NEW status \in {"SUCCESS", "PARTIAL_SUCCESS", "FAILED"},
           NEW balances \in 0..Cardinality(HcmBalances), CloseLog(r, status, balances)
    PROVE  SyncInv'
<1>1. /\ log' = [log EXCEPT ![r] = [status |-> status, balances |-> balances]]
      /\ Return(r)
    BY DEF CloseLog
<1> QED
    BY <1>1, ReturnKeeps

LEMMA NoneIsACount == 0 \in 0..Cardinality(HcmBalances)
BY HcmBalancesAssumption, FS_CardinalityType

\* A step that leaves the tables and the log alone.
LEMMA QuietTypes ==
    ASSUME SyncInv, NEW r \in Runs, NEW p \in Places, Goto(r, p),
           UNCHANGED <<books, log>>,
           task' = task \/ ChangesAt(task, task', r),
           target' = target \/ ChangesAt(target, target', r),
           snapshot' = snapshot \/ ChangesAt(snapshot, snapshot', r),
           outcome' = outcome \/ ChangesAt(outcome, outcome', r),
           written' = written \/ ChangesAt(written, written', r),
           began' = began \/ ChangesAt(began, began', r),
           Typed(r)
    PROVE  /\ TypeOK'
           /\ \A s \in Runs \ {r} : Same(s)
           /\ pc'[r] = p
           /\ p \notin Waiting => running' = r
<1>1. figures' \in Figures /\ log' \in Logs /\ UNCHANGED <<hcm, employees>>
    BY DEF SyncInv, TypeOK, books, Figures, Logs
<1> QED
    BY <1>1, MovedTypes, Gone

LEMMA LookUpKeeps == ASSUME SyncInv, NEW r \in Runs, LookUp(r) PROVE SyncInv'
<1> DEFINE e == task[r].employee
<1>1. /\ running \in {Nobody, r} /\ pc[r] = "look_up" /\ UNCHANGED books
      /\ Clean(r) /\ About(r)
    BY DEF LookUp, At, SyncInv, Sound
<1>2. task[r] \in Tasks /\ task[r].kind = "single" /\ e \in Employees
    BY <1>1, TaskKinds DEF About, Reads
<1>3. CASE employees[e].link = NoLink
    BY <1>1, <1>3, CloseKeeps, NoneIsACount DEF LookUp
<1>4. CASE employees[e].link # NoLink
    <2>1. /\ Goto(r, "fetch") /\ target' = [target EXCEPT ![r] = Found(e)]
          /\ UNCHANGED <<log, task, snapshot, outcome, written, began>>
        BY <1>4 DEF LookUp
    <2>2. Found(e) \in Targets
        BY <1>2, <1>4, FoundIsTarget
    <2> HIDE DEF e
    <2>3. /\ task'[r] = task[r] /\ target'[r] = Found(e) /\ snapshot'[r] = snapshot[r]
          /\ outcome'[r] = outcome[r] /\ written'[r] = written[r] /\ began'[r] = began[r]
        BY <2>1 DEF SyncInv, TypeOK
    <2>4. Typed(r)
        BY <2>2, <2>3 DEF SyncInv, TypeOK, Typed, Targets
    <2>5. TypeOK' /\ (\A s \in Runs \ {r} : Same(s)) /\ pc'[r] = "fetch"
        BY <1>1, <2>1, <2>4, QuietTypes, PlacesAre DEF ChangesAt
    <2>6. hcm' = hcm
        BY <1>1 DEF books
    <2>7. Clean(r)' /\ About(r)'
        BY <1>1, <1>2, <2>2, <2>3, <2>5, <2>6, PlacesAre DEF Clean, About
    <2>8. Sound(r)'
        BY <2>5, <2>7, PlacesAre DEF Sound, SingleWrites, BatchWrites, Sent
    <2> QED
        BY <1>1, <2>5, <2>6, <2>8, RunKeeps
<1> QED
    BY <1>3, <1>4

LEMMA FetchFailsKeeps == ASSUME SyncInv, NEW r \in Runs, FetchFails(r) PROVE SyncInv'
BY CloseKeeps, NoneIsACount DEF FetchFails, At

\* The answer: nothing is written yet, nobody counted.
LEMMA AnswerKeeps == ASSUME SyncInv, NEW r \in Runs, HcmAnswers(r) PROVE SyncInv'
<1> DEFINE p == IF task[r].kind = "single" THEN "write" ELSE "next"
<1>1. /\ running \in {Nobody, r} /\ pc[r] = "fetch" /\ snapshot[r] # NoAnswer /\ Goto(r, p)
      /\ UNCHANGED <<books, log, task, target, snapshot, outcome, written, began>>
      /\ Clean(r) /\ About(r)
    BY DEF HcmAnswers, At, SyncInv, Sound, held
<1>2. /\ p \in {"write", "next"} /\ p \in Places
      /\ p = "write" <=> task[r].kind = "single"
    BY PlacesAre
<1> HIDE DEF p
<1>3. Typed(r)
    BY <1>1 DEF SyncInv, TypeOK, Typed, Targets
<1>4. /\ TypeOK' /\ \A s \in Runs \ {r} : Same(s)
      /\ pc'[r] = p /\ running' = r
    BY <1>1, <1>2, <1>3, QuietTypes, PlacesAre
<1>5. written[r] = {} /\ outcome[r] = Uncounted /\ task[r] \in Tasks
    BY <1>1, PlacesAre DEF Clean, About, Reads
<1>6. hcm' = hcm
    BY <1>1 DEF books
<1>7. Clean(r)' /\ About(r)'
    BY <1>1, <1>2, <1>4, <1>5, <1>6, PlacesAre DEF Clean, About
<1>8. \A i \in HcmIds : outcome'[r][i] = "none" /\ Sent(r, i) \cap written'[r] = {}
    BY <1>1, <1>5 DEF Uncounted
<1>9. SingleWrites(r)'
    BY <1>1, <1>2, <1>4, <1>5, <1>8 DEF SingleWrites, Sent
<1>10. BatchWrites(r)'
    BY <1>1, <1>2, <1>4, <1>8, TaskKinds, <1>5 DEF BatchWrites, Tallied, Sent
<1> QED
    BY <1>1, <1>4, <1>6, <1>7, <1>9, <1>10, RunKeeps DEF Sound

\* A run that is past its answer has the event loop, its answer, and whom it
\* is about.
LEMMA Working ==
    ASSUME SyncInv, NEW r \in Runs, pc[r] \in {"write", "next"}
    PROVE  /\ running = r /\ snapshot[r] # NoAnswer /\ task[r] \in Tasks
           /\ Clean(r) /\ About(r) /\ SingleWrites(r) /\ BatchWrites(r)
           /\ pc[r] = "write" \/ task[r].kind = "single" => target[r] \in Targets
BY PlacesAre DEF SyncInv, Sound, Clean, About, Reads

\* The next employee of a batch: nothing of it has been written.
LEMMA FindEmployeeKeeps ==
    ASSUME SyncInv, NEW r \in Runs, NEW i \in HcmIds, FindEmployee(r, i) PROVE SyncInv'
<1>1. /\ running \in {Nobody, r} /\ pc[r] = "next" /\ i \in Remaining(r)
      /\ UNCHANGED <<books, log, task, snapshot, began, written>>
    BY DEF FindEmployee, At
<1>2. /\ task[r].kind = "batch" /\ outcome[r][i] = "none" /\ task[r] \in Tasks
      /\ i \in snapshot[r].listed
      /\ Clean(r) /\ snapshot[r] # NoAnswer /\ \A j \in HcmIds : Tallied(r, j)
    BY <1>1, Working, TaskKinds DEF Remaining, BatchWrites, Sent
<1>3. Sent(r, i) \cap written[r] = {}
    BY <1>1, <1>2 DEF Tallied, Sent
<1>4. hcm' = hcm /\ employees' = employees /\ figures' = figures
    BY <1>1 DEF books
<1>5. /\ task'[r] = task[r] /\ snapshot'[r] = snapshot[r] /\ written'[r] = written[r]
      /\ began'[r] = began[r]
    BY <1>1
<1>6. ASSUME NEW as \in {"failed", "skipped"}, Counted(r, i, as), Goto(r, "next"),
             UNCHANGED target,
             as = "failed" => \A e \in Employees : employees[e].link # i,
             as = "skipped" => \E e \in Employees : employees[e].link = i /\ Skips(r, e)
      PROVE  SyncInv'
    <2>1. /\ outcome' = [outcome EXCEPT ![r] = [outcome[r] EXCEPT ![i] = as]]
          /\ outcome[r] \in [HcmIds -> {"none", "updated", "skipped", "failed"}]
          /\ outcome \in [Runs -> [HcmIds -> {"none", "updated", "skipped", "failed"}]]
        BY <1>6 DEF Counted, SyncInv, TypeOK
    <2>2. /\ outcome'[r] = [outcome[r] EXCEPT ![i] = as]
          /\ outcome'[r] \in [HcmIds -> {"none", "updated", "skipped", "failed"}]
        BY <2>1
    <2>3. Typed(r)
        BY <1>5, <1>6, <2>2 DEF SyncInv, TypeOK, Typed, Targets
    <2>4. /\ TypeOK' /\ \A s \in Runs \ {r} : Same(s)
          /\ pc'[r] = "next" /\ running' = r
        BY <1>1, <1>6, <2>1, <2>3, QuietTypes, PlacesAre DEF ChangesAt
    <2>5. /\ outcome'[r][i] = as
          /\ \A j \in HcmIds \ {i} : outcome'[r][j] = outcome[r][j]
        BY <2>1, <2>2
    <2>6. Clean(r)' /\ About(r)' /\ SingleWrites(r)'
        BY <1>2, <1>4, <1>5, <2>4, PlacesAre DEF Clean, About, SingleWrites, Sent
    <2>7. ASSUME NEW j \in HcmIds PROVE Tallied(r, j)'
        <3>1. CASE j = i
            BY <1>1, <1>2, <1>3, <1>4, <1>5, <1>6, <2>5, <3>1 DEF Tallied, Skips, Sent
        <3>2. CASE j # i
            <4>1. Tallied(r, j) /\ outcome'[r][j] = outcome[r][j]
                BY <1>2, <2>5, <3>2
            <4> QED
                BY <1>1, <1>4, <1>5, <2>4, <4>1 DEF Tallied, Skips, Stored, Found, Sent
        <3> QED
            BY <3>1, <3>2
    <2>8. BatchWrites(r)'
        BY <2>4, <2>7 DEF BatchWrites, Sent
    <2> QED
        BY <1>1, <1>4, <2>4, <2>6, <2>8, RunKeeps DEF Sound
<1>7. ASSUME NEW e \in Employees, employees[e].link = i, ~ Skips(r, e), Goto(r, "write"),
             target' = [target EXCEPT ![r] = Found(e)], UNCHANGED outcome
      PROVE  SyncInv'
    <2>1. Found(e) \in Targets /\ Found(e).employee = e /\ Found(e).id = i
        BY <1>7, FoundIsTarget, NoNamesAssumption DEF Found
    <2>2. target'[r] = Found(e) /\ outcome'[r] = outcome[r]
        BY <1>7 DEF SyncInv, TypeOK
    <2>3. Typed(r)
        BY <1>5, <2>1, <2>2 DEF SyncInv, TypeOK, Typed, Targets
    <2>4. /\ TypeOK' /\ \A s \in Runs \ {r} : Same(s)
          /\ pc'[r] = "write" /\ running' = r
        BY <1>1, <1>7, <2>3, QuietTypes, PlacesAre DEF ChangesAt
    <2>5. Clean(r)' /\ About(r)' /\ SingleWrites(r)'
        BY <1>2, <1>4, <1>5, <2>1, <2>2, <2>4, PlacesAre DEF Clean, About, SingleWrites, Sent
    <2>6. ASSUME NEW j \in HcmIds PROVE Tallied(r, j)'
        <3>1. Tallied(r, j)
            BY <1>2
        <3> QED
            BY <1>1, <1>4, <1>5, <2>2, <2>4, <3>1 DEF Tallied, Skips, Stored, Found, Sent
    <2>7. (target[r] = Found(target[r].employee))'
        BY <1>4, <2>1, <2>2 DEF Found
    <2>8. BatchWrites(r)'
        <3>1. ~ Skips(r, e)' /\ i \in snapshot'[r].listed /\ Sent(r, i)' \cap written'[r] = {}
            BY <1>2, <1>3, <1>4, <1>5, <1>7 DEF Skips, Sent
        <3>2. target'[r].employee = e /\ target'[r].id = i /\ outcome'[r][i] = "none"
            BY <1>2, <2>1, <2>2
        <3> QED
            BY <2>6, <2>7, <3>1, <3>2 DEF BatchWrites, Sent
    <2> QED
        BY <1>1, <1>4, <2>4, <2>5, <2>8, RunKeeps DEF Sound
<1> QED
    BY <1>6, <1>7 DEF FindEmployee

\* A balance stored: the rows of what was stored before are others.
LEMMA WriteBalanceKeeps == ASSUME SyncInv, NEW r \in Runs, WriteBalance(r) PROVE SyncInv'
<1>1. /\ running \in {Nobody, r} /\ pc[r] = "write" /\ Goto(r, "write")
      /\ UNCHANGED <<hcm, employees, log, task, target, snapshot, outcome, began>>
    BY DEF WriteBalance, At
<1> PICK t : t = target[r] OBVIOUS
<1> PICK b \in Unwritten(r) :
        /\ figures' = [figures EXCEPT ![Row(t.employee, b, t.location)] = <<b, snapshot[r].books>>]
        /\ written' = [written EXCEPT ![r] = @ \cup {b}]
    BY DEF WriteBalance
<1>2. /\ t \in Targets /\ snapshot[r] # NoAnswer /\ task[r] \in Tasks
      /\ Clean(r) /\ About(r) /\ SingleWrites(r) /\ BatchWrites(r)
    BY <1>1, Working
<1>3. b \in HcmBalances /\ b.owner = t.id /\ b \notin written[r] /\ b \in Sent(r, t.id)
    BY DEF Unwritten, Sent, BalancesOf
<1>4. t.employee \in Employees /\ t.id \in HcmIds /\ t.location \in Locations
    BY <1>2 DEF Targets
<1>5. snapshot[r].books \in 0..MaxChanges
    BY <1>2 DEF SyncInv, TypeOK, Answers
<1> PICK k \in Rows : k = Row(t.employee, b, t.location)
    BY <1>3, <1>4, RowIn
<1>6. /\ figures' \in Figures /\ figures'[k] = <<b, snapshot[r].books>>
      /\ \A j \in Rows : j # k => figures'[j] = figures[j]
    BY <1>3, <1>5 DEF SyncInv, TypeOK, Figures
<1>7. written'[r] = written[r] \cup {b}
    BY DEF SyncInv, TypeOK
<1>8. /\ Typed(r)
      /\ task'[r] = task[r] /\ target'[r] = t /\ snapshot'[r] = snapshot[r]
      /\ outcome'[r] = outcome[r] /\ began'[r] = began[r]
    BY <1>1, <1>3, <1>7 DEF SyncInv, TypeOK, Typed, Targets
<1>9. /\ TypeOK' /\ \A s \in Runs \ {r} : Same(s)
      /\ pc'[r] = "write" /\ running' = r
    <2>1. log' \in Logs
        BY <1>1 DEF SyncInv, TypeOK, Logs
    <2>2. ChangesAt(written, written', r)
        BY DEF ChangesAt
    <2> QED
        BY <1>1, <1>6, <1>8, <2>1, <2>2, MovedTypes, Gone, PlacesAre
\* What the run had stored for the same employee stays, and b joins it.
<1>10. ASSUME NEW c \in Sent(r, t.id) \cap written'[r],
              \A d \in Sent(r, t.id) \cap written[r] : Stored(r, t, d)
       PROVE  figures'[Row(t.employee, c, t.location)] = <<c, snapshot[r].books>>
    <2>1. CASE c = b
        BY <1>6, <2>1
    <2>2. CASE c # b
        <3>1. c \in Sent(r, t.id) \cap written[r] /\ c \in HcmBalances /\ c.owner = b.owner
            BY <1>3, <1>7, <2>2 DEF Sent, BalancesOf
        <3>2. Row(t.employee, c, t.location) \in Rows /\ Row(t.employee, c, t.location) # k
            BY <1>3, <1>4, <2>2, <3>1, RowIn, RowsApart
        <3> QED
            BY <1>6, <1>10, <3>1, <3>2 DEF Stored, Sent
    <2> QED
        BY <2>1, <2>2
<1>11. Clean(r)' /\ About(r)'
    BY <1>1, <1>2, <1>8, <1>9, PlacesAre DEF Clean, About
<1>12. SingleWrites(r)'
    <2> SUFFICES ASSUME task[r].kind = "single"
                 PROVE  /\ written'[r] \subseteq Sent(r, t.id)
                        /\ \A c \in written'[r] :
                            figures'[Row(t.employee, c, t.location)] = <<c, snapshot[r].books>>
                        /\ \A i \in HcmIds : outcome[r][i] \in {"none", "updated"}
        BY <1>1, <1>8, <1>9 DEF SingleWrites, Stored, Sent
    <2>1. /\ written[r] \subseteq Sent(r, t.id) /\ \A c \in written[r] : Stored(r, t, c)
          /\ \A i \in HcmIds : outcome[r][i] \in {"none", "updated"}
        BY <1>1, <1>2 DEF SingleWrites, Sent
    <2>2. written'[r] \subseteq Sent(r, t.id)
        BY <1>3, <1>7, <2>1
    <2> QED
        BY <1>10, <2>1, <2>2
<1>13. BatchWrites(r)'
    <2> SUFFICES ASSUME task[r].kind = "batch" PROVE BatchWrites(r)'
        BY <1>8 DEF BatchWrites, Sent
    <2>1. /\ \A i \in HcmIds : Tallied(r, i)
          /\ t = Found(t.employee) /\ outcome[r][t.id] = "none"
          /\ ~ Skips(r, t.employee) /\ t.id \in snapshot[r].listed
          /\ \A c \in Sent(r, t.id) \cap written[r] : Stored(r, t, c)
        BY <1>1, <1>2 DEF BatchWrites
    <2>2. ASSUME NEW i \in HcmIds PROVE Tallied(r, i)'
        <3>1. CASE i = t.id
            BY <1>8, <1>9, <2>1, <3>1 DEF Tallied
        <3>2. CASE i # t.id
            <4>1. Tallied(r, i) /\ Sent(r, i) \cap written'[r] = Sent(r, i) \cap written[r]
                BY <1>3, <1>7, <2>1, <3>2 DEF Sent, BalancesOf
            <4>2. ASSUME NEW e \in Employees, employees[e].link = i,
                         \A c \in Sent(r, i) : Stored(r, Found(e), c)
                  PROVE  \A c \in Sent(r, i) :
                            figures'[Row(e, c, employees[e].location)] = <<c, snapshot[r].books>>
                <5>1. e # t.employee
                    BY <2>1, <3>2, <4>2 DEF Found
                <5>2. employees[e].location \in Locations
                    BY DEF SyncInv, TypeOK
                <5>3. ASSUME NEW c \in Sent(r, i)
                      PROVE  /\ Row(e, c, employees[e].location) \in Rows
                             /\ Row(e, c, employees[e].location) # k
                    BY <1>4, <5>1, <5>2, RowIn, EmployeesApart DEF Sent, BalancesOf
                <5> QED
                    BY <1>6, <4>2, <5>3 DEF Stored, Found
            <4>3. Sent(r, i) \ written'[r] = Sent(r, i) \ written[r]
                BY <4>1
            <4>4. outcome[r][i] = "updated" =>
                    \E e \in Employees :
                        /\ employees[e].link = i /\ ~ Skips(r, e)
                        /\ \A c \in Sent(r, i) :
                            figures'[Row(e, c, employees[e].location)] = <<c, snapshot[r].books>>
                BY <4>1, <4>2 DEF Tallied
            <4> QED
                <5>1. /\ Sent(r, i)' = Sent(r, i) /\ outcome'[r] = outcome[r]
                      /\ snapshot'[r] = snapshot[r] /\ employees' = employees
                      /\ \A e \in Employees : Skips(r, e)' <=> Skips(r, e)
                    BY <1>1, <1>8 DEF Sent, Skips
                <5>2. outcome'[r][i] = "updated" =>
                        \E e \in Employees :
                            /\ employees'[e].link = i /\ ~ Skips(r, e)'
                            /\ \A c \in Sent(r, i)' : Stored(r, Found(e), c)'
                    BY <4>4, <5>1 DEF Stored, Found
                <5> QED
                    BY <3>2, <4>1, <4>3, <5>1, <5>2 DEF Tallied
        <3> QED
            BY <3>1, <3>2
    <2>3. (target[r] = Found(target[r].employee))'
        BY <1>1, <1>8, <2>1 DEF Found
    <2>4. outcome'[r][t.id] = "none"
        BY <1>8, <2>1
    <2>5. \A c \in Sent(r, t.id) \cap written'[r] :
            figures'[Row(t.employee, c, t.location)] = <<c, snapshot[r].books>>
        BY <1>10, <2>1
    <2>6. Sent(r, t.id)' = Sent(r, t.id) /\ ~ Skips(r, t.employee)' /\ t.id \in snapshot'[r].listed
        BY <1>1, <1>8, <2>1 DEF Sent, Skips
    <2> QED
        BY <1>8, <2>2, <2>3, <2>4, <2>5, <2>6 DEF BatchWrites, Stored
<1> QED
    BY <1>1, <1>9, <1>11, <1>12, <1>13, RunKeeps DEF Sound

\* The employee at hand is counted, as what the writes say of it.
LEMMA CountedKeeps ==
    ASSUME SyncInv, NEW r \in Runs, running \in {Nobody, r}, pc[r] = "write",
           NEW as \in {"updated", "failed"}, Counted(r, target[r].id, as), Goto(r, "next"),
           UNCHANGED <<books, log, task, target, snapshot, written, began>>,
           as = "updated" => Unwritten(r) = {},
           as = "failed" => Unwritten(r) # {} /\ task[r].kind = "batch"
    PROVE  SyncInv'
<1> PICK t : t = target[r] OBVIOUS
<1>1. /\ t \in Targets /\ snapshot[r] # NoAnswer /\ task[r] \in Tasks
      /\ Clean(r) /\ About(r) /\ SingleWrites(r) /\ BatchWrites(r)
    BY Working
<1>2. t.employee \in Employees /\ t.id \in HcmIds
    BY <1>1 DEF Targets
<1>3. /\ outcome' = [outcome EXCEPT ![r] = [outcome[r] EXCEPT ![t.id] = as]]
      /\ outcome[r] \in [HcmIds -> {"none", "updated", "skipped", "failed"}]
      /\ outcome \in [Runs -> [HcmIds -> {"none", "updated", "skipped", "failed"}]]
    BY DEF Counted, SyncInv, TypeOK
<1>4. /\ outcome'[r] = [outcome[r] EXCEPT ![t.id] = as]
      /\ outcome'[r] \in [HcmIds -> {"none", "updated", "skipped", "failed"}]
    BY <1>3
<1>5. /\ outcome'[r][t.id] = as
      /\ \A j \in HcmIds \ {t.id} : outcome'[r][j] = outcome[r][j]
    BY <1>2, <1>3, <1>4
<1>6. Typed(r)
    BY <1>4 DEF SyncInv, TypeOK, Typed, Targets
<1>7. /\ TypeOK' /\ \A s \in Runs \ {r} : Same(s)
      /\ pc'[r] = "next" /\ running' = r
    BY <1>3, <1>6, QuietTypes, PlacesAre DEF ChangesAt
<1>8. hcm' = hcm /\ employees' = employees /\ figures' = figures
    BY DEF books
<1>9. as = "updated" => Sent(r, t.id) \subseteq written[r]
    BY DEF Unwritten
<1>13. /\ \A i \in HcmIds : Sent(r, i)' = Sent(r, i)
       /\ \A e \in Employees : Skips(r, e)' <=> Skips(r, e)
    BY <1>8 DEF Sent, Skips
<1>10. Clean(r)' /\ About(r)'
    BY <1>1, <1>7, <1>8, PlacesAre DEF Clean, About, Reads
<1>11. SingleWrites(r)'
    <2> SUFFICES ASSUME task[r].kind = "single" PROVE SingleWrites(r)'
        BY DEF SingleWrites
    <2>1. /\ written[r] \subseteq Sent(r, t.id) /\ \A b \in written[r] : Stored(r, t, b)
          /\ \A i \in HcmIds : outcome[r][i] \in {"none", "updated"}
        BY <1>1 DEF SingleWrites
    <2>2. as = "updated"
        OBVIOUS
    <2>3. \A i \in HcmIds : outcome'[r][i] \in {"none", "updated"}
        BY <1>5, <2>1, <2>2
    <2> QED
        BY <1>2, <1>8, <1>9, <1>13, <2>1, <2>2, <2>3 DEF SingleWrites, Stored
<1>12. BatchWrites(r)'
    <2> SUFFICES ASSUME task[r].kind = "batch" PROVE BatchWrites(r)'
        BY DEF BatchWrites
    <2>1. /\ \A i \in HcmIds : Tallied(r, i)
          /\ t = Found(t.employee) /\ ~ Skips(r, t.employee)
          /\ t.id \in snapshot[r].listed
          /\ \A b \in Sent(r, t.id) \cap written[r] : Stored(r, t, b)
        BY <1>1 DEF BatchWrites
    <2>2. ASSUME NEW i \in HcmIds PROVE Tallied(r, i)'
        <3>1. CASE i = t.id /\ as = "failed"
            <4>1. employees'[t.employee].link = i /\ ~ Skips(r, t.employee)'
                BY <1>2, <1>8, <1>13, <2>1, <3>1 DEF Found
            <4>2. Sent(r, i)' \ written'[r] # {} /\ i \in snapshot'[r].listed
                BY <1>13, <2>1, <3>1 DEF Unwritten
            <4> QED
                BY <1>2, <1>5, <3>1, <4>1, <4>2 DEF Tallied
        <3>2. CASE i = t.id /\ as = "updated"
            <4>1. employees[t.employee].link = i
                BY <2>1, <3>2 DEF Found
            <4>2. \A b \in Sent(r, i) : Stored(r, Found(t.employee), b)
                BY <1>9, <2>1, <3>2
            <4>3. /\ i \in snapshot'[r].listed /\ Sent(r, i)' \subseteq written'[r]
                  /\ employees'[t.employee].link = i /\ ~ Skips(r, t.employee)'
                BY <1>2, <1>8, <1>9, <1>13, <2>1, <3>2, <4>1
            <4>4. \A b \in Sent(r, i)' : Stored(r, Found(t.employee), b)'
                BY <1>8, <1>13, <4>2 DEF Stored, Found
            <4> QED
                BY <1>2, <1>5, <3>2, <4>3, <4>4 DEF Tallied
        <3>3. CASE i # t.id
            <4>1. Tallied(r, i) /\ outcome'[r][i] = outcome[r][i]
                BY <1>5, <2>1, <3>3
            <4> QED
                BY <1>7, <1>8, <1>13, <3>3, <4>1 DEF Tallied, Stored, Found
        <3> QED
            BY <3>1, <3>2, <3>3
    <2> QED
        BY <1>7, <2>2 DEF BatchWrites
<1> QED
    BY <1>7, <1>8, <1>10, <1>11, <1>12, RunKeeps DEF Sound

LEMMA EmployeeDoneKeeps == ASSUME SyncInv, NEW r \in Runs, EmployeeDone(r) PROVE SyncInv'
BY CountedKeeps DEF EmployeeDone, At

LEMMA WriteFailsKeeps == ASSUME SyncInv, NEW r \in Runs, WriteFails(r) PROVE SyncInv'
<1>1. running \in {Nobody, r} /\ pc[r] = "write" /\ Unwritten(r) # {} /\ UNCHANGED books
    BY DEF WriteFails, At
<1>2. CASE task[r].kind = "single"
    BY <1>1, <1>2, CloseKeeps, NoneIsACount DEF WriteFails
<1>3. CASE task[r].kind # "single"
    <2>1. task[r].kind = "batch"
        BY <1>1, <1>3, Working, TaskKinds
    <2>2. /\ Counted(r, target[r].id, "failed") /\ Goto(r, "next")
          /\ UNCHANGED <<log, task, target, snapshot, written, began>>
        BY <1>3 DEF WriteFails
    <2> QED
        BY <1>1, <2>1, <2>2, CountedKeeps
<1> QED
    BY <1>2, <1>3

\* A run writes no more balances than there are.
LEMMA WrittenCount ==
    ASSUME SyncInv, NEW r \in Runs
    PROVE  /\ IsFiniteSet(written[r])
           /\ Cardinality(written[r]) \in 0..Cardinality(HcmBalances)
<1>1. written[r] \subseteq HcmBalances
    BY DEF SyncInv, TypeOK
<1>2. /\ IsFiniteSet(written[r]) /\ Cardinality(written[r]) <= Cardinality(HcmBalances)
    BY <1>1, HcmBalancesAssumption, FS_Subset
<1> QED
    BY <1>2, HcmBalancesAssumption, FS_CardinalityType

LEMMA CompleteKeeps == ASSUME SyncInv, NEW r \in Runs, Complete(r) PROVE SyncInv'
<1>1. Verdict(r) \in {"SUCCESS", "PARTIAL_SUCCESS", "FAILED"}
    BY DEF Verdict
<1>2. /\ running \in {Nobody, r} /\ UNCHANGED books
      /\ CloseLog(r, Verdict(r), Cardinality(written[r]))
    BY DEF Complete, At
<1> QED
    BY <1>1, <1>2, WrittenCount, CloseKeeps

-----------------------------------------------------------------------------
(* The steps of everybody else.                                            *)

\* A batch at its writes goes by the tables and by what it has itself.
LEMMA BatchStays ==
    ASSUME NEW s \in Runs, BatchWrites(s), UNCHANGED <<employees, figures, pc>>,
           task'[s] = task[s], target'[s] = target[s], outcome'[s] = outcome[s],
           written'[s] = written[s],
           pc[s] \in {"write", "next"} => snapshot'[s] = snapshot[s]
    PROVE  BatchWrites(s)'
<1> SUFFICES ASSUME task[s].kind = "batch", pc[s] \in {"write", "next"}
             PROVE  BatchWrites(s)'
    BY DEF BatchWrites
<1>1. /\ snapshot'[s] = snapshot[s]
      /\ \A i : Sent(s, i)' = Sent(s, i)
      /\ \A e : Skips(s, e)' <=> Skips(s, e)
    BY DEF Sent, Skips
<1>2. \A t, b : Stored(s, t, b)' <=> Stored(s, t, b)
    BY <1>1 DEF Stored
<1>3. \A e : Found(e)' = Found(e)
    BY DEF Found
<1>4. ASSUME NEW i \in HcmIds PROVE Tallied(s, i)'
    <2>1. Tallied(s, i)
        BY DEF BatchWrites
    <2> QED
        BY <1>1, <1>2, <1>3, <2>1 DEF Tallied
<1> QED
    BY <1>1, <1>2, <1>3, <1>4 DEF BatchWrites

\* An answer from the books of some moment has its type; a single sync's lists
\* the one it asked for.
LEMMA AnswerIs ==
    ASSUME NEW r \in Runs, NEW body \in Bodies, NEW n \in 0..MaxChanges,
           task[r].kind = "single" => target[r].id \in HcmIds
    PROVE  /\ Answer(r, body, n) \in Answers
           /\ Answer(r, body, n).books = n
           /\ \A b \in Answer(r, body, n).sent : b.owner \in Answer(r, body, n).listed
           /\ task[r].kind = "single" => Answer(r, body, n).listed = {target[r].id}
BY BodiesAssumption DEF Answer, Answers, BalancesOf

\* The HCM reads the books as they are.
LEMMA HcmReadsKeeps == ASSUME SyncInv, NEW r \in Runs, HcmReads(r) PROVE SyncInv'
<1> PICK body \in Bodies : snapshot' = [snapshot EXCEPT ![r] = Answer(r, body, hcm)]
    BY DEF HcmReads
<1>1. /\ pc[r] = "fetch"
      /\ UNCHANGED <<books, log, pc, task, target, outcome, began, written, running>>
    BY DEF HcmReads
<1>2. UNCHANGED <<hcm, employees, figures>> /\ hcm \in 0..MaxChanges
    BY <1>1 DEF books, SyncInv, TypeOK
<1>3. /\ Answer(r, body, hcm) \in Answers
      /\ Answer(r, body, hcm).books = hcm
      /\ \A b \in Answer(r, body, hcm).sent : b.owner \in Answer(r, body, hcm).listed
      /\ task[r].kind = "single" => Answer(r, body, hcm).listed = {target[r].id}
    BY <1>1, <1>2, AnswerIs DEF SyncInv, Sound, About, Targets
<1>4. /\ snapshot' \in [Runs -> {NoAnswer} \cup Answers]
      /\ snapshot'[r] = Answer(r, body, hcm)
      /\ \A s \in Runs : s # r => snapshot'[s] = snapshot[s]
    BY <1>3 DEF SyncInv, TypeOK
<1>5. TypeOK'
    BY <1>1, <1>2, <1>4 DEF SyncInv, TypeOK
<1>6. ASSUME NEW s \in Runs PROVE Sound(s)'
    <2>1. Sound(s)
        BY DEF SyncInv
    <2>2. CASE s = r
        <3>1. Clean(r)'
            BY <1>1, <1>2, <1>3, <1>4, <2>1, <2>2, PlacesAre DEF Sound, Clean, SyncInv, TypeOK
        <3>2. About(r)'
            BY <1>1, <1>3, <1>4, <2>1, <2>2 DEF Sound, About
        <3> QED
            BY <1>1, <2>1, <2>2, <3>1, <3>2 DEF Sound, SingleWrites, BatchWrites
    <2>3. CASE s # r
        <3>1. snapshot'[s] = snapshot[s]
            BY <1>4, <2>3
        <3>2. Clean(s)' /\ About(s)'
            BY <1>1, <1>2, <2>1, <3>1 DEF Sound, Clean, About
        <3>3. SingleWrites(s)'
            BY <1>1, <1>2, <2>1, <3>1 DEF Sound, SingleWrites, Stored, Sent
        <3>4. BatchWrites(s)'
            BY <1>1, <1>2, <2>1, <3>1, BatchStays DEF Sound
        <3> QED
            BY <1>1, <2>1, <3>2, <3>3, <3>4 DEF Sound
    <2> QED
        BY <2>2, <2>3
<1> QED
    BY <1>5, <1>6 DEF SyncInv

\* A later change of the books makes no answer newer than they are.
LEMMA HcmChangesKeeps == ASSUME SyncInv, HcmChanges PROVE SyncInv'
<1>1. /\ hcm < MaxChanges /\ hcm' = hcm + 1 /\ hcm \in 0..MaxChanges
      /\ UNCHANGED <<employees, figures, log, pc, task, target, snapshot, outcome, written,
                     began, running>>
    BY DEF HcmChanges, held, SyncInv, TypeOK
<1>2. hcm' \in 0..MaxChanges
    BY <1>1, MaxChangesAssumption
<1>3. TypeOK'
    BY <1>1, <1>2 DEF SyncInv, TypeOK
<1>4. ASSUME NEW s \in Runs PROVE Sound(s)'
    <2>1. Sound(s) /\ began[s] \in Int /\ snapshot[s] \in {NoAnswer} \cup Answers
        BY DEF SyncInv, TypeOK
    <2>2. Clean(s)'
        BY <1>1, <2>1 DEF Sound, Clean, Answers
    <2>3. About(s)' /\ SingleWrites(s)'
        BY <1>1, <2>1 DEF Sound, About, SingleWrites, Stored, Sent
    <2>4. BatchWrites(s)'
        BY <1>1, <2>1, BatchStays DEF Sound
    <2> QED
        BY <1>1, <2>1, <2>2, <2>3, <2>4 DEF Sound
<1> QED
    BY <1>3, <1>4 DEF SyncInv

\* While nobody has the event loop, everybody waits: what changes then is no
\* row or employee that a run goes by.
LEMMA BetweenTurns ==
    ASSUME SyncInv, running = Nobody, TypeOK',
           UNCHANGED <<hcm, pc, task, target, snapshot, outcome, written, began>>
    PROVE  SyncInv'
<1>1. hcm <= hcm'
    BY DEF SyncInv, TypeOK
<1>2. ASSUME NEW s \in Runs PROVE Sound(s)'
    <2>1. pc[s] \in Waiting
        BY NoNamesAssumption DEF SyncInv, Sound
    <2> QED
        BY <1>1, <2>1, WaitingStays DEF Same
<1> QED
    BY <1>2 DEF SyncInv

LEMMA UpdateEmployeeKeeps ==
    ASSUME SyncInv, NEW u \in Updates, UpdateEmployee(u) PROVE SyncInv'
<1>1. /\ running = Nobody
      /\ u.link = NoLink \/ \A d \in Employees \ {u.employee} : employees[d].link # u.link
      /\ employees' = [employees EXCEPT ![u.employee] = [link |-> u.link, location |-> u.location]]
      /\ UNCHANGED <<hcm, figures, log, pc, task, target, snapshot, outcome, written,
                     began, running>>
    BY DEF UpdateEmployee, held
<1>2. u.employee \in Employees /\ u.link \in HcmIds \cup {NoLink} /\ u.location \in Locations
    BY EmployeesAssumption
<1>3. /\ employees' \in [Employees -> [link : HcmIds \cup {NoLink}, location : Locations]]
      /\ employees'[u.employee].link = u.link
      /\ \A e \in Employees : e # u.employee => employees'[e] = employees[e]
    BY <1>1, <1>2 DEF SyncInv, TypeOK
<1>4. ASSUME NEW d \in Employees, NEW e \in Employees, d # e,
             employees'[d].link = employees'[e].link
      PROVE  employees'[e].link = NoLink
    BY <1>1, <1>3, <1>4 DEF SyncInv, TypeOK
<1>5. TypeOK'
    BY <1>1, <1>3, <1>4 DEF SyncInv, TypeOK
<1> QED
    BY <1>1, <1>5, BetweenTurns

LEMMA SettleLocallyKeeps ==
    ASSUME SyncInv, NEW k \in Rows, SettleLocally(k) PROVE SyncInv'
<1>1. /\ running = Nobody /\ figures' = [figures EXCEPT ![k] = Local]
      /\ UNCHANGED <<hcm, employees, log, pc, task, target, snapshot, outcome, written,
                     began, running>>
    BY DEF SettleLocally, held
<1>2. figures' \in Figures
    BY <1>1 DEF SyncInv, TypeOK, Figures
<1>3. TypeOK'
    BY <1>1, <1>2 DEF SyncInv, TypeOK, Figures
<1> QED
    BY <1>1, <1>3, BetweenTurns

\* Nothing of a run survives a restart but its log entry.
LEMMA CrashKeeps == ASSUME SyncInv, Crash PROVE SyncInv'
<1>1. /\ pc' = [r \in Runs |-> IF pc[r] \in Resting THEN pc[r] ELSE "crashed"]
      /\ running' = Nobody
      /\ task' = [r \in Runs |-> NoTask]
      /\ target' = [r \in Runs |-> NoTarget]
      /\ snapshot' = [r \in Runs |-> NoAnswer]
      /\ outcome' = [r \in Runs |-> Uncounted]
      /\ written' = [r \in Runs |-> {}]
      /\ began' = [r \in Runs |-> 0]
      /\ UNCHANGED <<hcm, employees, figures, log>>
    BY DEF Crash, books
<1>2. /\ Uncounted \in [HcmIds -> {"none", "updated", "skipped", "failed"}]
      /\ 0 \in 0..MaxChanges /\ Resting \cup {"crashed"} \subseteq Waiting
    BY MaxChangesAssumption DEF Uncounted, Resting, Waiting
<1>3. pc' \in [Runs -> Places] /\ \A r \in Runs : pc'[r] \in {"start", "ended", "crashed"}
    BY <1>1, PlacesAre DEF Resting
<1>4. /\ task' \in [Runs -> Tasks \cup {NoTask}]
      /\ target' \in [Runs -> {NoTarget} \cup
            [employee : Employees, id : HcmIds, location : Locations]]
      /\ snapshot' \in [Runs -> {NoAnswer} \cup Answers]
      /\ outcome' \in [Runs -> [HcmIds -> {"none", "updated", "skipped", "failed"}]]
      /\ written' \in [Runs -> SUBSET HcmBalances]
      /\ began' \in [Runs -> 0..MaxChanges]
    BY <1>1, <1>2
<1>5. TypeOK'
    BY <1>1, <1>3, <1>4, NoNamesAssumption DEF SyncInv, TypeOK, Places
<1>6. ASSUME NEW s \in Runs PROVE Sound(s)'
    <2>1. /\ pc'[s] \in {"start", "ended", "crashed"} /\ written'[s] = {}
          /\ outcome'[s] = Uncounted /\ snapshot'[s] = NoAnswer /\ began'[s] = 0
          /\ hcm' = hcm /\ hcm \in 0..MaxChanges
        BY <1>1, <1>3 DEF SyncInv, TypeOK
    <2> QED
        BY <2>1, PlacesAre, MaxChangesAssumption
        DEF Sound, Clean, About, SingleWrites, BatchWrites, Reads, Sent
<1> QED
    BY <1>5, <1>6 DEF SyncInv

LEMMA InitHolds == ASSUME Init PROVE SyncInv
<1>1. /\ hcm \in 0..MaxChanges /\ 0 \in 0..MaxChanges
      /\ Uncounted \in [HcmIds -> {"none", "updated", "skipped", "failed"}]
      /\ NoLog \in [status : {"none", "IN_PROGRESS", "SUCCESS", "PARTIAL_SUCCESS", "FAILED"},
                    balances : 0..Cardinality(HcmBalances)]
    BY MaxChangesAssumption, NoneIsACount DEF Init, Uncounted, NoLog
<1>2. /\ employees \in [Employees -> [link : HcmIds \cup {NoLink}, location : Locations]]
      /\ \A d, e \in Employees :
            d # e /\ employees[d].link = employees[e].link => employees[e].link = NoLink
    BY EmployeesAssumption DEF Init
<1>3. figures \in Figures /\ log \in Logs /\ pc \in [Runs -> Places]
    BY <1>1, PlacesAre DEF Init, Figures, Logs
<1>4. TypeOK
    BY <1>1, <1>2, <1>3, NoNamesAssumption DEF Init, TypeOK, Figures, Logs, Places
<1>5. ASSUME NEW s \in Runs PROVE Sound(s)
    BY PlacesAre, MaxChangesAssumption
    DEF Init, Sound, Clean, About, SingleWrites, BatchWrites, Reads, Sent
<1> QED
    BY <1>4, <1>5 DEF SyncInv

LEMMA NextKeeps == ASSUME SyncInv, [Next]_vars PROVE SyncInv'
<1>1. ASSUME NEW r \in Runs, Step(r) PROVE SyncInv'
    BY <1>1, LookUpKeeps, FetchFailsKeeps, AnswerKeeps, FindEmployeeKeeps, WriteBalanceKeeps,
       EmployeeDoneKeeps, WriteFailsKeeps, CompleteKeeps DEF Step
<1>2. CASE Others
    BY <1>2, HcmReadsKeeps, HcmChangesKeeps, UpdateEmployeeKeeps, SettleLocallyKeeps, CrashKeeps
    DEF Others
<1>3. CASE UNCHANGED vars
    <2>1. TypeOK'
        BY <1>3 DEF vars, books, held, SyncInv, TypeOK
    <2>2. ASSUME NEW s \in Runs PROVE Sound(s)'
        <3>1. /\ Sound(s)
              /\ UNCHANGED <<hcm, employees, figures, pc, task, target, snapshot, outcome,
                             written, began, running>>
            BY <1>3 DEF vars, books, held, SyncInv
        <3>2. Clean(s)' /\ About(s)' /\ SingleWrites(s)'
            BY <3>1 DEF Sound, Clean, About, SingleWrites, Stored, Sent
        <3> QED
            BY <3>1, <3>2, BatchStays DEF Sound
    <2> QED
        BY <2>1, <2>2 DEF SyncInv
<1> QED
    BY <1>1, <1>2, <1>3, BeginKeeps DEF Next

-----------------------------------------------------------------------------
(* The theorems.                                                           *)

\* What runs hold and have stored goes together, at every moment.
THEOREM SyncInvariant == Spec => []SyncInv
<1> QED
    BY InitHolds, NextKeeps, PTL DEF Spec

\* The variables have their types, and no two employees share a link.
THEOREM TypesHold == Spec => []TypeOK
<1>1. SyncInv => TypeOK
    BY DEF SyncInv
<1> QED
    BY <1>1, SyncInvariant, PTL

\* The step that closes a log entry is the last step of a run.
LEMMA Closing ==
    ASSUME SyncInv, [Next]_vars, NEW r \in Runs, log'[r] # log[r],
           log'[r].status # "IN_PROGRESS"
    PROVE  \/ /\ LookUp(r) \/ FetchFails(r) \/ (WriteFails(r) /\ task[r].kind = "single")
              /\ CloseLog(r, "FAILED", 0)
           \/ Complete(r)
<1>1. log' # log
    OBVIOUS
<1>2. PICK s \in Runs : Step(s) \/ \E t \in Tasks : Begin(s, t)
    BY <1>1 DEF Next, Others, HcmReads, HcmChanges, UpdateEmployee, SettleLocally, Crash, vars
<1>3. s = r
    <2> SUFFICES ASSUME s # r PROVE FALSE
        OBVIOUS
    <2>1. log'[r] = log[r]
        BY <1>2
        DEF Step, Begin, LookUp, FetchFails, HcmAnswers, FindEmployee, WriteBalance,
            EmployeeDone, WriteFails, Complete, CloseLog, SyncInv, TypeOK
    <2> QED
        BY <2>1
<1>4. ASSUME NEW t \in Tasks PROVE ~Begin(r, t)
    <2>1. Begin(r, t) => log'[r].status = "IN_PROGRESS"
        <3>1. log \in Logs
            BY DEF SyncInv, TypeOK, Logs
        <3> QED
            BY <3>1 DEF Begin, Logs
    <2> QED
        BY <2>1
<1> QED
    BY <1>1, <1>2, <1>3, <1>4
    DEF Step, LookUp, FetchFails, HcmAnswers, FindEmployee, WriteBalance, EmployeeDone,
        WriteFails, Complete

\* What a log entry says at its end, part by part.
Told(r) ==
    /\ log'[r].status = "FAILED" => UpToDate(r) = {}
    /\ log'[r].status = "PARTIAL_SUCCESS" => UpToDate(r) # {} /\ LeftOpen(r) # {}
    /\ log'[r].status = "SUCCESS" => LeftOpen(r) = {}
    /\ log'[r].status # "FAILED" \/ task[r].kind = "batch"
        => log'[r].balances = Cardinality(written[r])

\* The entry of a run that breaks off.
LEMMA FailedTold ==
    ASSUME SyncInv, NEW r \in Runs, CloseLog(r, "FAILED", 0),
           LookUp(r) \/ FetchFails(r) \/ (WriteFails(r) /\ task[r].kind = "single")
    PROVE  Told(r)
<1>1. log'[r] = [status |-> "FAILED", balances |-> 0]
    BY DEF CloseLog, SyncInv, TypeOK
<1>2. CASE LookUp(r) \/ FetchFails(r)
    <2>1. pc[r] \in {"look_up", "fetch"} /\ written[r] = {}
        BY <1>2, PlacesAre DEF LookUp, FetchFails, At, SyncInv, Sound, Clean
    <2>2. Cardinality(written[r]) = 0
        BY <2>1, FS_EmptySet
    <2>3. UpToDate(r) = {}
        BY <2>1 DEF UpToDate, Listed
    <2> QED
        BY <1>1, <2>2, <2>3 DEF Told
<1>3. CASE WriteFails(r) /\ task[r].kind = "single"
    <2>1. ~ (Sent(r, target[r].id) \subseteq written[r])
        BY <1>3 DEF WriteFails, Unwritten
    <2>2. UpToDate(r) = {}
        BY <1>3, <2>1 DEF UpToDate, Meant
    <2> QED
        BY <1>1, <1>3, <2>2 DEF Told
<1> QED
    BY <1>2, <1>3

\* At the end of a batch, who was updated is up to date, and who failed is open.
LEMMA BatchTally ==
    ASSUME SyncInv, NEW r \in Runs, pc[r] = "next", Remaining(r) = {},
           task[r].kind = "batch", NEW i \in HcmIds
    PROVE  /\ i \in UpToDate(r) <=> outcome[r][i] = "updated"
           /\ i \in LeftOpen(r) <=> outcome[r][i] = "failed"
<1>1. /\ Tallied(r, i)
      /\ outcome[r] \in [HcmIds -> {"none", "updated", "skipped", "failed"}]
    BY Working DEF BatchWrites, SyncInv, TypeOK
<1>2. Listed(r) = snapshot[r].listed
    BY DEF Listed
<1>3. i \in snapshot[r].listed <=> outcome[r][i] # "none"
    BY <1>1 DEF Remaining, Tallied
<1>4. \A d, e \in Linked(i) : d = e
    <2>1. \A d, e \in Employees :
            employees[d].link = i /\ employees[e].link = i => d = e
        <3>1. \A d, e \in Employees :
                d # e /\ employees[d].link = employees[e].link => employees[e].link = NoLink
            BY DEF SyncInv, TypeOK
        <3> QED
            BY <3>1, NoNamesAssumption
    <2> QED
        BY <2>1 DEF Linked
<1>5. Linked(i) = {} => ~ Meant(r, i)
    BY DEF Meant
<1>6. CASE outcome[r][i] = "none"
    BY <1>2, <1>3, <1>6 DEF UpToDate, LeftOpen
<1>7. CASE outcome[r][i] = "skipped"
    <2>1. PICK e \in Linked(i) : Skips(r, e)
        BY <1>1, <1>7 DEF Tallied, Linked
    <2>2. ~ Meant(r, i)
        BY <1>4, <2>1 DEF Meant
    <2> QED
        BY <1>7, <2>1, <2>2 DEF UpToDate, LeftOpen
<1>8. CASE outcome[r][i] = "failed"
    <2>1. \/ Linked(i) = {}
          \/ ~ (Sent(r, i) \subseteq written[r]) /\ Meant(r, i)
        BY <1>1, <1>8 DEF Tallied, Linked, Meant
    <2> QED
        BY <1>2, <1>3, <1>5, <1>8, <2>1 DEF UpToDate, LeftOpen
<1>9. CASE outcome[r][i] = "updated"
    <2>1. Sent(r, i) \subseteq written[r] /\ Meant(r, i) /\ Linked(i) # {}
        BY <1>1, <1>9 DEF Tallied, Linked, Meant
    <2> QED
        BY <1>2, <1>3, <1>9, <2>1 DEF UpToDate, LeftOpen
<1> QED
    BY <1>1, <1>6, <1>7, <1>8, <1>9

\* The entry of a run that comes to its end.
LEMMA CompleteTold ==
    ASSUME SyncInv, NEW r \in Runs, Complete(r)
    PROVE  Told(r)
<1>1. log'[r] = [status |-> Verdict(r), balances |-> Cardinality(written[r])]
    BY DEF Complete, CloseLog, SyncInv, TypeOK
<1>2. pc[r] = "next" /\ Remaining(r) = {}
    BY DEF Complete, At
<1>3. /\ task[r] \in Tasks /\ SingleWrites(r) /\ BatchWrites(r)
      /\ snapshot[r] \in Answers
    BY <1>2, Working DEF SyncInv, TypeOK
<1>4. CASE task[r].kind = "single"
    <2>1. /\ Sent(r, target[r].id) \subseteq written[r]
          /\ \A i \in HcmIds : outcome[r][i] \in {"none", "updated"}
        BY <1>2, <1>3, <1>4 DEF SingleWrites
    <2>2. Verdict(r) = "SUCCESS"
        BY <2>1 DEF Verdict, Has
    <2>3. LeftOpen(r) = {}
        BY <1>4, <2>1 DEF LeftOpen, Meant
    <2> QED
        BY <1>1, <2>2, <2>3 DEF Told
<1>5. CASE task[r].kind = "batch"
    <2>1. UpToDate(r) \subseteq HcmIds /\ LeftOpen(r) \subseteq HcmIds
        BY <1>3 DEF UpToDate, LeftOpen, Listed, Answers
    <2>2. /\ Has(r, "updated") <=> UpToDate(r) # {}
          /\ Has(r, "failed") <=> LeftOpen(r) # {}
        BY <1>2, <1>5, <2>1, BatchTally DEF Has
    <2> QED
        BY <1>1, <2>2 DEF Told, Verdict
<1> QED
    BY <1>3, <1>4, <1>5, TaskKinds

\* The log entry of a run tells what became of the HCM's answer, whatever the
\* answer leaves out.
THEOREM LogTellsTruth == Spec => HonestLog
<1>1. ASSUME SyncInv, [Next]_vars, NEW r \in Runs, log'[r] # log[r],
             log'[r].status # "IN_PROGRESS"
      PROVE  Told(r)
    BY <1>1, Closing, FailedTold, CompleteTold
<1>2. SyncInv /\ [Next]_vars =>
        [\A r \in Runs : log'[r] # log[r] /\ log'[r].status # "IN_PROGRESS" => Told(r)]_vars
    BY <1>1
<1> QED
    BY <1>2, SyncInvariant, PTL DEF Spec, HonestLog, Told

\* The run that ends well has stored its answer for everybody in its scope.
LEMMA ScopeStored ==
    ASSUME SyncInv, NEW r \in Runs, Complete(r), Verdict(r) = "SUCCESS",
           NEW t \in Scope(r), NEW b \in Sent(r, t.id)
    PROVE  Stored(r, t, b)
<1>1. pc[r] = "next" /\ Remaining(r) = {}
    BY DEF Complete, At
<1>2. /\ task[r] \in Tasks /\ SingleWrites(r) /\ BatchWrites(r)
      /\ outcome[r] \in [HcmIds -> {"none", "updated", "skipped", "failed"}]
    BY <1>1, Working DEF SyncInv, TypeOK
<1>3. CASE task[r].kind = "single"
    BY <1>1, <1>2, <1>3 DEF Scope, SingleWrites
<1>4. CASE task[r].kind = "batch"
    <2>1. PICK e \in Employees :
            /\ t = Found(e) /\ employees[e].link # NoLink
            /\ task[r].location \in {NoLocation, employees[e].location}
        BY <1>4 DEF Scope
    <2> PICK i \in HcmIds : i = employees[e].link
        BY <2>1 DEF SyncInv, TypeOK
    <2>6. b \in snapshot[r].sent /\ b.owner = i
        BY <2>1 DEF Sent, BalancesOf, Found
    <2>7. i \in snapshot[r].listed
        BY <1>1, <2>6, Working DEF Clean
    <2>2. /\ Tallied(r, i) /\ outcome[r][i] \in {"updated", "skipped", "failed"}
          /\ outcome[r][i] # "failed"
        BY <1>1, <1>2, <1>4, <2>7 DEF Remaining, BatchWrites, Verdict, Has
    <2>3. \A d \in Employees : employees[d].link = i => d = e
        BY <2>1 DEF SyncInv, TypeOK
    <2>4. ~Skips(r, e)
        BY <2>1 DEF Skips
    <2>5. outcome[r][i] = "updated"
        BY <2>2, <2>3, <2>4 DEF Tallied
    <2> QED
        BY <2>1, <2>2, <2>3, <2>5 DEF Tallied, Found
<1> QED
    BY <1>2, <1>3, <1>4, TaskKinds

\* A sync that reports success has made up for everything the tables missed, as
\* far as its answer went: what the HCM sent of its scope is stored, with figures
\* that the HCM had since the sync began.
THEOREM SuccessMeansReconciled == Spec => SuccessReconciles
<1> DEFINE Reconciled(r) ==
        \A t \in Scope(r) : \A b \in Sent(r, t.id) :
            \E n \in began[r]..hcm : figures[Row(t.employee, b, t.location)] = <<b, n>>
<1>1. ASSUME SyncInv, [Next]_vars, NEW r \in Runs, log[r].status = "IN_PROGRESS",
             log'[r].status = "SUCCESS"
      PROVE  Reconciled(r)
    <2>1. log'[r] # log[r] /\ log'[r].status # "IN_PROGRESS"
        BY <1>1
    <2>2. ~CloseLog(r, "FAILED", 0)
        BY <1>1 DEF CloseLog, SyncInv, TypeOK
    <2>3. Complete(r)
        BY <1>1, <2>1, <2>2, Closing
    <2>4. Verdict(r) = "SUCCESS"
        BY <1>1, <2>3 DEF Complete, CloseLog, SyncInv, TypeOK
    <2>5. /\ snapshot[r].books \in 0..MaxChanges /\ began[r] \in 0..MaxChanges /\ hcm \in 0..MaxChanges
          /\ began[r] <= snapshot[r].books /\ snapshot[r].books <= hcm
        BY <1>1, <2>3, Working DEF Complete, At, Clean, SyncInv, TypeOK, Answers
    <2>6. snapshot[r].books \in began[r]..hcm
        BY <2>5
    <2> QED
        BY <1>1, <2>3, <2>4, <2>6, ScopeStored DEF Stored
<1>2. SyncInv /\ [Next]_vars =>
        [\A r \in Runs : log[r].status = "IN_PROGRESS" /\ log'[r].status = "SUCCESS"
            => Reconciled(r)]_vars
    BY <1>1
<1> QED
    BY <1>2, SyncInvariant, PTL DEF Spec, SuccessReconciles

\* Two syncs that do not overlap never undo each other: only a run that began
\* before the newer figures came to be can put older ones in their place.
THEOREM NoUndoWithoutOverlap == Spec => OlderOnlyWhenOverlapping
<1>1. ASSUME SyncInv, [Next]_vars, NEW k \in Rows, figures[k] # Local, figures'[k] # Local,
             figures[k][1] = figures'[k][1], figures'[k][2] < figures[k][2]
      PROVE  began[running] < figures[k][2]
    <2>1. figures \in Figures
        BY <1>1 DEF SyncInv, TypeOK, Figures
    <2>2. figures[k][2] \in Int
        BY <1>1, <2>1 DEF Figures
    <2>3. figures'[k] # figures[k]
        BY <1>1, <2>2
    <2>4. PICK r \in Runs : WriteBalance(r)
        <3>1. ~(\E j \in Rows : SettleLocally(j))
            BY <1>1, <2>1, <2>3 DEF SettleLocally, Figures
        <3> QED
            BY <1>1, <2>3, <3>1
            DEF Next, Step, Others, Begin, LookUp, FetchFails, HcmAnswers, FindEmployee,
                EmployeeDone, WriteFails, Complete, HcmReads, HcmChanges, UpdateEmployee,
                Crash, books, vars
    <2>5. PICK b \in HcmBalances :
            figures' = [figures EXCEPT
                ![Row(target[r].employee, b, target[r].location)] = <<b, snapshot[r].books>>]
        BY <2>4 DEF WriteBalance, Unwritten, Sent, BalancesOf
    <2>6. figures'[k] = <<b, snapshot[r].books>>
        BY <2>1, <2>3, <2>5 DEF Figures
    <2>7. /\ running = r /\ began[r] <= snapshot[r].books
          /\ began[r] \in Int /\ snapshot[r].books \in Int
        BY <1>1, <2>4, Working DEF WriteBalance, At, Clean, SyncInv, TypeOK, Answers
    <2> QED
        BY <1>1, <2>2, <2>6, <2>7
<1>2. SyncInv /\ [Next]_vars =>
        [\A k \in Rows :
            /\ figures[k] # Local /\ figures'[k] # Local
            /\ figures[k][1] = figures'[k][1]
            /\ figures'[k][2] < figures[k][2]
            => began[running] < figures[k][2]]_vars
    BY <1>1
<1> QED
    BY <1>2, SyncInvariant, PTL DEF Spec, OlderOnlyWhenOverlapping
=============================================================================
