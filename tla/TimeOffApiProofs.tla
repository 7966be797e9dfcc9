-------------------------- MODULE TimeOffApiProofs --------------------------
(***************************************************************************)
(* Theorems about the service behind its middleware, with every await a    *)
(* point of interleaving or not, for every set of requests, keys, bodies   *)
(* and employees, with entries that expire and restarts.                   *)
(***************************************************************************)
EXTENDS TimeOffApi, TLAPS

-----------------------------------------------------------------------------
(* Employees.  The unique columns protect what an insert or an update       *)
(* writes; an address is never updated, so an update writes back the one   *)
(* it has read.                                                            *)

NoEmployee == People!NoEmployee

\* Handler h has made no employee yet, and what it is about to save has the
\* address of the row it replaces.
AtDesk(h) ==
    /\ desk[h] \in {"start", "check_email", "check_link", "insert"}
            => employees[h] = NoEmployee
    /\ desk[h] \in {"check_email", "check_link", "insert"} => errand[h].kind = "create"
    /\ desk[h] \in {"find", "save"} => errand[h].kind = "update"
    /\ desk[h] = "save" =>
            /\ held[h] \in People!Employee
            /\ employees[errand[h].id] # NoEmployee
            /\ held[h].email = employees[errand[h].id].email

PeopleInv ==
    /\ People!TypeOK
    /\ \A h \in Handlers : AtDesk(h)
    /\ UniqueIdentities

\* The placeholder is no row.
LEMMA NoEmployeeIsNone == NoEmployee \notin People!Employee
<1> SUFFICES ASSUME NoEmployee \in People!Employee PROVE FALSE
    OBVIOUS
<1>1. "email" \in DOMAIN NoEmployee
    BY DEF People!Employee
<1> QED
    BY <1>1 DEF NoEmployee, People!NoEmployee

\* An update makes an employee of an employee, with the same address.
LEMMA AssignedIsEmployee ==
    ASSUME NEW row \in People!Employee, NEW fields \in UpdateBodies
    PROVE  /\ People!Assigned(row, fields) \in People!Employee
           /\ People!Assigned(row, fields).email = row.email
<1>1. DOMAIN row = {"email", "link", "location", "active"}
    BY DEF People!Employee
<1>2. CASE fields \in [{"link"} -> HcmIds \cup {NoLink}]
    BY <1>1, <1>2 DEF People!Assigned, People!Employee
<1>3. CASE fields \in [{"location"} -> Locations]
    BY <1>1, <1>3 DEF People!Assigned, People!Employee
<1>4. CASE fields \in [{"active"} -> BOOLEAN]
    BY <1>1, <1>4 DEF People!Assigned, People!Employee
<1> QED
    BY <1>2, <1>3, <1>4, PeopleAssumption DEF People!BodiesAssumption

LEMMA PeopleInitHolds == ASSUME ApiInit PROVE PeopleInv
<1>1. People!Init /\ People!SeedsAssumption
    BY PeopleAssumption DEF ApiInit
<1>2. \A e \in Staff : employees[e] = FirstStaff[e] /\ FirstStaff[e] \in People!Employee
    BY <1>1 DEF People!Init, People!SeedsAssumption, People!Ids
<1>3. \A h \in Handlers : employees[h] = NoEmployee
    BY <1>1 DEF People!Init, People!SeedsAssumption, People!Ids, NoEmployee
<1>4. People!TypeOK
    BY <1>1, <1>2, <1>3
    DEF People!Init, People!TypeOK, People!Errands, People!Desks, People!Ids, NoEmployee
<1>5. \A h \in Handlers : AtDesk(h)
    BY <1>1, <1>3 DEF People!Init, AtDesk
<1>6. People!Employed \subseteq Staff
    BY <1>3 DEF People!Employed, People!Ids, NoEmployee
<1>7. UniqueIdentities
    BY <1>1, <1>2, <1>6
    DEF UniqueIdentities, People!UniqueIdentities, People!SeedsAssumption
<1> QED
    BY <1>4, <1>5, <1>7 DEF PeopleInv

\* A step of one handler that leaves the rows alone.
LEMMA DeskStep ==
    ASSUME PeopleInv, NEW h \in Handlers, NEW place \in People!Desks,
           People!Goto(h, place), UNCHANGED employees,
           NEW e \in People!Errands, errand' = [errand EXCEPT ![h] = e],
           NEW o \in People!Employee \cup {NoEmployee}, held' = [held EXCEPT ![h] = o],
           AtDesk(h)'
    PROVE  PeopleInv'
<1>1. People!TypeOK'
    BY DEF PeopleInv, People!TypeOK, People!Goto, NoEmployee
<1>2. ASSUME NEW g \in Handlers PROVE AtDesk(g)'
    <2>1. CASE g # h
        <3>1. desk'[g] = desk[g] /\ errand'[g] = errand[g] /\ held'[g] = held[g]
            BY <2>1 DEF PeopleInv, People!TypeOK, People!Goto
        <3> QED
            BY <3>1 DEF PeopleInv, AtDesk
    <2> QED
        BY <2>1
<1>3. UniqueIdentities'
    BY DEF PeopleInv, UniqueIdentities, People!UniqueIdentities, People!Employed
<1> QED
    BY <1>1, <1>2, <1>3 DEF PeopleInv

\* The steps that write no row: a request comes in, or reads.
LEMMA ReadKeeps ==
    ASSUME PeopleInv, NEW h \in Handlers,
           \/ \E body \in CreateBodies : People!Create(h, body)
           \/ \E e \in People!Ids, fields \in UpdateBodies : People!Update(h, e, fields)
           \/ People!CheckEmail(h) \/ People!CheckLink(h) \/ People!FindById(h)
    PROVE  PeopleInv'
<1>1. /\ errand[h] \in People!Errands /\ errand \in [Handlers -> People!Errands]
      /\ held[h] \in People!Employee \cup {NoEmployee}
      /\ held \in [Handlers -> People!Employee \cup {NoEmployee}]
      /\ desk \in [Handlers -> People!Desks]
    BY DEF PeopleInv, People!TypeOK, NoEmployee
<1>2. errand = [errand EXCEPT ![h] = errand[h]] /\ held = [held EXCEPT ![h] = held[h]]
    BY <1>1
<1>3. ASSUME NEW body \in CreateBodies, People!Create(h, body) PROVE PeopleInv'
    <2> DEFINE e == [kind |-> "create", body |-> body]
    <2>1. e \in People!Errands /\ "check_email" \in People!Desks
        BY DEF People!Errands, People!Desks
    <2>2. /\ desk[h] = "start" /\ desk'[h] = "check_email"
          /\ errand'[h].kind = "create" /\ employees'[h] = employees[h]
        BY <1>1, <1>3 DEF People!Create, People!Goto
    <2>3. AtDesk(h)'
        BY <2>2 DEF PeopleInv, AtDesk
    <2> QED
        BY <1>1, <1>2, <1>3, <2>1, <2>3, DeskStep DEF People!Create
<1>4. ASSUME NEW i \in People!Ids, NEW fields \in UpdateBodies, People!Update(h, i, fields)
      PROVE  PeopleInv'
    <2> DEFINE e == [kind |-> "update", id |-> i, fields |-> fields]
    <2>1. e \in People!Errands /\ "find" \in People!Desks
        BY DEF People!Errands, People!Desks
    <2>2. desk'[h] = "find" /\ errand'[h].kind = "update"
        BY <1>1, <1>4 DEF People!Update, People!Goto
    <2>3. AtDesk(h)'
        BY <2>2 DEF AtDesk
    <2> QED
        BY <1>1, <1>2, <1>4, <2>1, <2>3, DeskStep DEF People!Update
<1>5. CASE People!CheckEmail(h) \/ People!CheckLink(h)
    <2>1. PICK place \in {"conflict", "insert", "check_link"} : People!Goto(h, place)
        BY <1>5 DEF People!CheckEmail, People!CheckLink
    <2>2. place \in People!Desks
        BY DEF People!Desks, People!Ended
    <2>3. UNCHANGED <<employees, errand, held>> /\ desk[h] \in {"check_email", "check_link"}
        BY <1>5 DEF People!CheckEmail, People!CheckLink
    <2>4. desk'[h] = place
        BY <1>1, <2>1 DEF People!Goto
    <2>5. AtDesk(h)'
        BY <2>3, <2>4 DEF PeopleInv, AtDesk
    <2> QED
        BY <1>1, <1>2, <2>1, <2>2, <2>3, <2>5, DeskStep
<1>6. CASE People!FindById(h)
    <2> DEFINE row == employees[errand[h].id]
    <2>1. desk[h] = "find" /\ errand[h].kind = "update" /\ UNCHANGED <<employees, errand>>
        BY <1>6 DEF People!FindById, PeopleInv, AtDesk
    <2>2. errand[h].id \in People!Ids /\ errand[h].fields \in UpdateBodies
        BY <1>1, <2>1 DEF People!Errands, People!NoErrand
    <2>3. CASE row = NoEmployee
        <3>1. People!Goto(h, "not_found") /\ UNCHANGED held
            BY <1>6, <2>3 DEF People!FindById, NoEmployee
        <3>2. desk'[h] = "not_found" /\ "not_found" \in People!Desks
            BY <1>1, <3>1 DEF People!Goto, People!Desks, People!Ended
        <3>3. AtDesk(h)'
            BY <3>2 DEF AtDesk
        <3> QED
            BY <1>1, <1>2, <2>1, <3>1, <3>2, <3>3, DeskStep
    <2>4. CASE row # NoEmployee
        <3> DEFINE o == People!Assigned(row, errand[h].fields)
        <3>1. People!Goto(h, "save") /\ held' = [held EXCEPT ![h] = o]
            BY <1>6, <2>4 DEF People!FindById, NoEmployee
        <3>2. row \in People!Employee
            BY <2>2, <2>4 DEF PeopleInv, People!TypeOK, NoEmployee
        <3>3. o \in People!Employee /\ o.email = row.email
            BY <2>2, <3>2, AssignedIsEmployee
        <3>4. desk'[h] = "save" /\ "save" \in People!Desks /\ held'[h] = o
            BY <1>1, <3>1 DEF People!Goto, People!Desks
        <3> HIDE DEF o
        <3>5. AtDesk(h)'
            BY <2>1, <2>4, <3>3, <3>4 DEF AtDesk
        <3> QED
            BY <1>1, <1>2, <2>1, <3>1, <3>3, <3>4, <3>5, DeskStep
    <2> QED
        BY <2>3, <2>4
<1> QED
    BY <1>3, <1>4, <1>5, <1>6

\* The unique columns let an employee in whose address is nobody else's.
LEMMA InsertKeepsPeople ==
    ASSUME PeopleInv, NEW h \in Handlers, People!Insert(h) PROVE PeopleInv'
<1> DEFINE body == errand[h].body
           row == People!NewEmployee(body)
<1>1. /\ desk[h] = "insert" /\ errand[h].kind = "create" /\ employees[h] = NoEmployee
      /\ UNCHANGED <<errand, held>>
    BY DEF People!Insert, PeopleInv, AtDesk
<1>2. /\ errand[h] \in People!Errands /\ errand \in [Handlers -> People!Errands]
      /\ held[h] \in People!Employee \cup {NoEmployee}
      /\ held \in [Handlers -> People!Employee \cup {NoEmployee}]
      /\ desk \in [Handlers -> People!Desks]
      /\ employees \in [People!Ids -> People!Employee \cup {NoEmployee}]
      /\ h \in People!Ids
    BY DEF PeopleInv, People!TypeOK, People!Ids, NoEmployee
<1>3. CASE People!Goto(h, "error") /\ UNCHANGED employees
    <2>1. desk'[h] = "error" /\ "error" \in People!Desks
        BY <1>2, <1>3 DEF People!Goto, People!Desks, People!Ended
    <2>2. AtDesk(h)'
        BY <2>1 DEF AtDesk
    <2>3. errand' = [errand EXCEPT ![h] = errand[h]] /\ held' = [held EXCEPT ![h] = held[h]]
        BY <1>1, <1>2
    <2> QED
        BY <1>2, <1>3, <2>1, <2>2, <2>3, DeskStep
<1>4. CASE /\ ~People!EmailTaken(body.email, h) /\ ~People!LinkTaken(body.link, h)
           /\ People!Goto(h, "created") /\ employees' = [employees EXCEPT ![h] = row]
    <2>1. body \in CreateBodies
        BY <1>1, <1>2 DEF People!Errands, People!NoErrand
    <2>2. /\ row \in People!Employee /\ row.email = body.email /\ row.link = body.link
        BY <2>1, PeopleAssumption
        DEF People!BodiesAssumption, People!NewEmployee, People!Employee
    <2> HIDE DEF row, body
    <2>3. /\ employees'[h] = row
          /\ \A e \in People!Ids : e # h => employees'[e] = employees[e]
          /\ employees' \in [People!Ids -> People!Employee \cup {NoEmployee}]
        BY <1>2, <1>4, <2>2
    <2>4. desk' = [desk EXCEPT ![h] = "created"] /\ "created" \in People!Desks
        BY <1>4 DEF People!Goto, People!Desks, People!Ended
    <2>5. People!TypeOK'
        BY <1>1, <1>2, <2>3, <2>4 DEF People!TypeOK, NoEmployee
    <2>6. ASSUME NEW g \in Handlers PROVE AtDesk(g)'
        <3>1. CASE g = h
            BY <1>2, <2>4, <3>1 DEF AtDesk
        <3>2. CASE g # h
            <4>1. desk'[g] = desk[g] /\ employees'[g] = employees[g]
                BY <1>2, <2>3, <2>4, <3>2 DEF People!Ids
            <4>2. AtDesk(g) /\ errand'[g] = errand[g] /\ held'[g] = held[g]
                BY <1>1 DEF PeopleInv
            <4>3. desk[g] = "save" => errand[g].id \in People!Ids
                BY <1>2, <4>2 DEF AtDesk, People!Errands, People!NoErrand
            <4>4. desk[g] = "save" => errand[g].id # h
                BY <1>1, <4>2 DEF AtDesk
            <4> QED
                BY <2>3, <4>1, <4>2, <4>3, <4>4 DEF AtDesk
        <3> QED
            BY <3>1, <3>2
    <2>7. ASSUME NEW e \in People!Ids, e # h, employees[e] # NoEmployee
          PROVE  /\ employees[e].email # row.email
                 /\ employees[e].link = row.link => row.link = NoLink
        BY <1>4, <2>2, <2>7
        DEF People!EmailTaken, People!LinkTaken, People!Employed, NoEmployee
    <2>8. UniqueIdentities'
        <3> SUFFICES ASSUME NEW d \in People!Employed', NEW e \in People!Employed', d # e
                     PROVE  /\ employees'[d].email # employees'[e].email
                            /\ employees'[d].link = employees'[e].link
                                    => employees'[e].link = NoLink
            BY DEF UniqueIdentities, People!UniqueIdentities
        <3>1. d \in People!Ids /\ e \in People!Ids
              /\ employees'[d] # NoEmployee /\ employees'[e] # NoEmployee
            BY DEF People!Employed, People!Ids, NoEmployee
        <3>2. CASE d = h
            BY <2>3, <2>7, <3>1, <3>2
        <3>3. CASE e = h
            BY <2>3, <2>7, <3>1, <3>3
        <3>4. CASE d # h /\ e # h
            BY <2>3, <3>1, <3>4
            DEF PeopleInv, UniqueIdentities, People!UniqueIdentities, People!Employed, NoEmployee
        <3> QED
            BY <3>2, <3>3, <3>4
    <2> QED
        BY <2>5, <2>6, <2>8 DEF PeopleInv
<1> QED
    BY <1>3, <1>4 DEF People!Insert

\* An update takes no link that somebody has, and keeps the address it read,
\* which no update has changed since.
LEMMA SaveKeepsPeople ==
    ASSUME PeopleInv, NEW h \in Handlers, People!Save(h) PROVE PeopleInv'
<1> DEFINE i == errand[h].id
<1>1. /\ desk[h] = "save" /\ errand[h].kind = "update" /\ UNCHANGED <<errand, held>>
      /\ held[h] \in People!Employee /\ employees[i] # NoEmployee
      /\ held[h].email = employees[i].email
    BY DEF People!Save, PeopleInv, AtDesk
<1>2. /\ errand[h] \in People!Errands /\ errand \in [Handlers -> People!Errands]
      /\ held \in [Handlers -> People!Employee \cup {NoEmployee}]
      /\ desk \in [Handlers -> People!Desks]
      /\ employees \in [People!Ids -> People!Employee \cup {NoEmployee}]
    BY DEF PeopleInv, People!TypeOK, NoEmployee
<1>3. i \in People!Ids
    BY <1>1, <1>2 DEF People!Errands, People!NoErrand
<1>4. CASE People!Goto(h, "error") /\ UNCHANGED employees
    <2>1. desk'[h] = "error" /\ "error" \in People!Desks
        BY <1>2, <1>4 DEF People!Goto, People!Desks, People!Ended
    <2>2. AtDesk(h)'
        BY <2>1 DEF AtDesk
    <2>3. errand' = [errand EXCEPT ![h] = errand[h]] /\ held' = [held EXCEPT ![h] = held[h]]
        BY <1>1, <1>2
    <2> QED
        BY <1>1, <1>2, <1>4, <2>1, <2>2, <2>3, DeskStep
<1>5. CASE /\ ~People!LinkTaken(held[h].link, i)
           /\ People!Goto(h, "updated") /\ employees' = [employees EXCEPT ![i] = held[h]]
    <2> HIDE DEF i
    <2>1. /\ employees'[i] = held[h]
          /\ \A e \in People!Ids : e # i => employees'[e] = employees[e]
          /\ employees' \in [People!Ids -> People!Employee \cup {NoEmployee}]
        BY <1>1, <1>2, <1>3, <1>5
    <2>2. desk' = [desk EXCEPT ![h] = "updated"] /\ "updated" \in People!Desks
        BY <1>5 DEF People!Goto, People!Desks, People!Ended
    <2>3. People!TypeOK'
        BY <1>1, <1>2, <2>1, <2>2 DEF People!TypeOK, NoEmployee
    <2>4. ASSUME NEW g \in Handlers PROVE AtDesk(g)'
        <3>1. CASE g = h
            BY <1>2, <2>2, <3>1 DEF AtDesk
        <3>2. CASE g # h
            <4>1. desk'[g] = desk[g] /\ AtDesk(g)
                BY <1>2, <2>2, <3>2 DEF PeopleInv
            <4>2. employees[g] = NoEmployee => employees'[g] = NoEmployee
                BY <1>1, <2>1 DEF People!Ids, i
            <4>3. desk[g] = "save" => errand[g].id \in People!Ids
                BY <1>2, <4>1 DEF AtDesk, People!Errands, People!NoErrand
            <4>4. desk[g] = "save" =>
                    /\ employees'[errand[g].id] # NoEmployee
                    /\ employees'[errand[g].id].email = employees[errand[g].id].email
                BY <1>1, <2>1, <4>1, <4>3, NoEmployeeIsNone DEF AtDesk, i
            <4> QED
                BY <1>1, <4>1, <4>2, <4>4 DEF AtDesk
        <3> QED
            BY <3>1, <3>2
    <2>5. ASSUME NEW e \in People!Ids, e # i, employees[e] # NoEmployee
          PROVE  /\ employees[e].email # held[h].email
                 /\ employees[e].link = held[h].link => held[h].link = NoLink
        <3>1. e \in People!Employed /\ i \in People!Employed
            BY <1>1, <1>3, <2>5 DEF People!Employed, NoEmployee, i
        <3>2. employees[e].email # employees[i].email
            BY <2>5, <3>1 DEF PeopleInv, UniqueIdentities, People!UniqueIdentities
        <3>3. employees[e].link = held[h].link => held[h].link = NoLink
            BY <1>5, <2>5, <3>1 DEF People!LinkTaken
        <3> QED
            BY <1>1, <3>2, <3>3 DEF i
    <2>6. UniqueIdentities'
        <3> SUFFICES ASSUME NEW d \in People!Employed', NEW e \in People!Employed', d # e
                     PROVE  /\ employees'[d].email # employees'[e].email
                            /\ employees'[d].link = employees'[e].link
                                    => employees'[e].link = NoLink
            BY DEF UniqueIdentities, People!UniqueIdentities
        <3>1. d \in People!Ids /\ e \in People!Ids
              /\ employees'[d] # NoEmployee /\ employees'[e] # NoEmployee
            BY DEF People!Employed, People!Ids, NoEmployee
        <3>2. CASE d = i
            BY <2>1, <2>5, <3>1, <3>2
        <3>3. CASE e = i
            BY <2>1, <2>5, <3>1, <3>3
        <3>4. CASE d # i /\ e # i
            BY <2>1, <3>1, <3>4
            DEF PeopleInv, UniqueIdentities, People!UniqueIdentities, People!Employed, NoEmployee
        <3> QED
            BY <3>2, <3>3, <3>4
    <2> QED
        BY <2>3, <2>4, <2>6 DEF PeopleInv
<1> QED
    BY <1>4, <1>5 DEF People!Save

\* A repeated creation that the cache answers, a restart, a step elsewhere.
LEMMA PostEmployeeKeeps ==
    ASSUME PeopleInv, NEW h \in Handlers, NEW body \in CreateBodies, PostEmployee(h, body)
    PROVE  PeopleInv'
<1>1. CASE People!Create(h, body)
    BY <1>1, ReadKeeps
<1>2. CASE /\ errand' = [errand EXCEPT ![h] = [kind |-> "create", body |-> body]]
           /\ desk' = [desk EXCEPT ![h] = "replayed"]
           /\ UNCHANGED <<employees, held>>
    <2>1. /\ [kind |-> "create", body |-> body] \in People!Errands
          /\ "replayed" \in People!Desks /\ desk'[h] = "replayed"
        BY <1>2 DEF People!Errands, People!Desks, People!Ended, PeopleInv, People!TypeOK
    <2>2. held' = [held EXCEPT ![h] = held[h]] /\ held[h] \in People!Employee \cup {NoEmployee}
        BY <1>2 DEF PeopleInv, People!TypeOK, NoEmployee
    <2>3. AtDesk(h)'
        BY <2>1 DEF AtDesk
    <2> QED
        BY <1>2, <2>1, <2>2, <2>3, DeskStep DEF People!Goto
<1> QED
    BY <1>1, <1>2 DEF PostEmployee

LEMMA RestartKeepsPeople == ASSUME PeopleInv, Restart PROVE PeopleInv'
<1>1. /\ desk' = [h \in Handlers |->
                    IF desk[h] \in People!Ended \cup {"start"} THEN desk[h] ELSE "crashed"]
      /\ UNCHANGED <<employees, errand, held>>
    BY DEF Restart
<1>2. People!TypeOK'
    BY <1>1 DEF PeopleInv, People!TypeOK, People!Desks, People!Ended
<1>3. ASSUME NEW h \in Handlers PROVE AtDesk(h)'
    <2>1. desk'[h] \in People!Ended \cup {"start"} /\ (desk'[h] = "start" => desk[h] = "start")
        BY <1>1 DEF People!Ended
    <2> QED
        BY <1>1, <2>1 DEF PeopleInv, AtDesk, People!Ended
<1>4. UniqueIdentities'
    BY <1>1 DEF PeopleInv, UniqueIdentities, People!UniqueIdentities, People!Employed
<1> QED
    BY <1>2, <1>3, <1>4 DEF PeopleInv

LEMMA ElsewhereKeepsPeople == ASSUME PeopleInv, UNCHANGED people PROVE PeopleInv'
<1>1. People!TypeOK'
    BY DEF PeopleInv, People!TypeOK, people
<1>2. \A h \in Handlers : AtDesk(h)'
    BY DEF PeopleInv, AtDesk, people
<1>3. UniqueIdentities'
    BY DEF PeopleInv, UniqueIdentities, People!UniqueIdentities, People!Employed, people
<1> QED
    BY <1>1, <1>2, <1>3 DEF PeopleInv

LEMMA PeopleNextKeeps == ASSUME PeopleInv, [ApiNext]_apiVars PROVE PeopleInv'
<1>1. ASSUME NEW h \in Handlers, NEW body \in CreateBodies, PostEmployee(h, body)
      PROVE  PeopleInv'
    BY <1>1, PostEmployeeKeeps
<1>2. ASSUME NEW h \in Handlers, NEW e \in People!Employed, NEW fields \in UpdateBodies,
             PutEmployee(h, e, fields)
      PROVE  PeopleInv'
    BY <1>2, ReadKeeps DEF PutEmployee, People!Employed
<1>3. ASSUME NEW h \in Handlers, PeopleStep(h) PROVE PeopleInv'
    BY <1>3, ReadKeeps, InsertKeepsPeople, SaveKeepsPeople DEF PeopleStep, People!Step
<1>4. CASE Restart
    BY <1>4, RestartKeepsPeople
<1>5. CASE \/ \E h \in Handlers :
                \/ \E s \in Submissions : PostSubmission(h, s)
                \/ \E kind \in {"approve", "reject", "cancel"}, r \in Handlers :
                        \E key \in {NoKey, <<kind, r>>} : PostReview(h, kind, r, key)
                \/ LeaveStep(h)
                \/ Answer(h)
           \/ Cleanup
           \/ UNCHANGED apiVars
    BY <1>5, ElsewhereKeepsPeople
    DEF PostSubmission, PostReview, LeaveStep, Answer, Cleanup, apiVars
<1> QED
    BY <1>1, <1>2, <1>3, <1>4, <1>5 DEF ApiNext

\* No two employees ever share an address or a link to the HCM: the check
\* that create makes before it inserts is passed by two at once, the unique
\* columns by one; and an update needs no check of the address.
THEOREM IdentitiesStayUnique == ApiSpec => []UniqueIdentities
<1>1. ApiInit => PeopleInv
    BY PeopleInitHolds
<1>2. PeopleInv /\ [ApiNext]_apiVars => PeopleInv'
    BY PeopleNextKeeps
<1>3. PeopleInv => UniqueIdentities
    BY DEF PeopleInv
<1> QED
    BY <1>1, <1>2, <1>3, PTL DEF ApiSpec
=============================================================================
