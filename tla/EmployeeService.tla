--------------------------- MODULE EmployeeService ---------------------------
(***************************************************************************)
(* src/modules/employee/employee.service.js: create and update, one step   *)
(* per await, over a table with the unique columns of employee.entity.js.  *)
(*                                                                         *)
(* Names and department have no part in any decision; of the columns that  *)
(* update may change, location stands for them.  Every await lets other    *)
(* handlers run, as in LeaveRequestService with Interleaved.               *)
(***************************************************************************)
CONSTANTS
    Handlers,       \* HTTP requests to the employee endpoints
    Emails,
    HcmIds,
    NoLink,         \* externalHcmId is null
    Locations,
    Staff,          \* the employees of the seeds
    FirstStaff,     \* FirstStaff[e]: their rows
    CreateBodies,   \* [email, link, location] a create may bring
    UpdateBodies    \* the fields an update may bring

Employee ==
    [email : Emails, link : HcmIds \cup {NoLink}, location : Locations,
     active : BOOLEAN]

\* The seeds have addresses and links of their own.
SeedsAssumption ==
    /\ NoLink \notin HcmIds
    /\ Staff \cap Handlers = {}
    /\ FirstStaff \in [Staff -> Employee]
    /\ \A d, e \in Staff :
        d # e => /\ FirstStaff[d].email # FirstStaff[e].email
                 /\ FirstStaff[d].link = FirstStaff[e].link => FirstStaff[e].link = NoLink
BodiesAssumption ==
    /\ CreateBodies \subseteq
        [email : Emails, link : HcmIds \cup {NoLink}, location : Locations]
    /\ UpdateBodies \subseteq
        [{"link"} -> HcmIds \cup {NoLink}] \cup [{"location"} -> Locations]
            \cup [{"active"} -> BOOLEAN]

VARIABLES
    employees,      \* employees[e]: the row of a seed, or of who created it
    desk,           \* desk[h]: where handler h stands, or how it ended
    errand,         \* errand[h]: what it was asked to do
    held            \* held[h]: the Employee object it holds

vars == <<employees, desk, errand, held>>

NoEmployee == [active |-> FALSE]
NoErrand == [kind |-> "none"]

Ids == Staff \cup Handlers

Employed == {e \in Ids : employees[e] # NoEmployee}

Init ==
    /\ employees = [e \in Ids |-> IF e \in Staff THEN FirstStaff[e] ELSE NoEmployee]
    /\ desk = [h \in Handlers |-> "start"]
    /\ errand = [h \in Handlers |-> NoErrand]
    /\ held = [h \in Handlers |-> NoEmployee]

\* How a handler ends; "replayed" and "crashed" are not of this module.
Ended == {"created", "updated", "conflict", "not_found", "error", "replayed", "crashed"}

Goto(h, place) == desk' = [desk EXCEPT ![h] = place]

-----------------------------------------------------------------------------
(* create                                                                  *)

EmailTaken(email, but) ==
    \E e \in Employed \ {but} : employees[e].email = email

LinkTaken(link, but) ==
    /\ link # NoLink
    /\ \E e \in Employed \ {but} : employees[e].link = link

Create(h, body) ==
    /\ desk[h] = "start"
    /\ errand' = [errand EXCEPT ![h] = [kind |-> "create", body |-> body]]
    /\ Goto(h, "check_email")
    /\ UNCHANGED <<employees, held>>

CheckEmail(h) ==
    /\ desk[h] = "check_email"
    /\ Goto(h, IF EmailTaken(errand[h].body.email, h) THEN "conflict"
               ELSE IF errand[h].body.link = NoLink THEN "insert"
               ELSE "check_link")
    /\ UNCHANGED <<employees, errand, held>>

CheckLink(h) ==
    /\ desk[h] = "check_link"
    /\ Goto(h, IF LinkTaken(errand[h].body.link, h) THEN "conflict" ELSE "insert")
    /\ UNCHANGED <<employees, errand, held>>

NewEmployee(body) ==
    [email |-> body.email, link |-> body.link, location |-> body.location,
     active |-> TRUE]

\* Mutant of Insert: the email column is not unique.
InsertEmailOpen(h) ==
    /\ desk[h] = "insert"
    /\ LET body == errand[h].body
       IN  IF LinkTaken(body.link, h)
           THEN Goto(h, "error") /\ UNCHANGED employees
           ELSE /\ Goto(h, "created")
                /\ employees' = [employees EXCEPT ![h] = NewEmployee(body)]
    /\ UNCHANGED <<errand, held>>

\* save() of the new row; a unique column may refuse it, which nothing catches.
Insert(h) ==
    /\ desk[h] = "insert"
    /\ LET body == errand[h].body
       IN  IF EmailTaken(body.email, h) \/ LinkTaken(body.link, h)
           THEN Goto(h, "error") /\ UNCHANGED employees
           ELSE /\ Goto(h, "created")
                /\ employees' = [employees EXCEPT ![h] = NewEmployee(body)]
    /\ UNCHANGED <<errand, held>>

-----------------------------------------------------------------------------
(* update                                                                  *)

Update(h, e, fields) ==
    /\ desk[h] = "start"
    /\ errand' = [errand EXCEPT ![h] = [kind |-> "update", id |-> e, fields |-> fields]]
    /\ Goto(h, "find")
    /\ UNCHANGED <<employees, held>>

\* Object.assign(employee, updateFields)
Assigned(row, fields) ==
    [f \in DOMAIN row |-> IF f \in DOMAIN fields THEN fields[f] ELSE row[f]]

FindById(h) ==
    /\ desk[h] = "find"
    /\ LET row == employees[errand[h].id]
       IN  IF row = NoEmployee
           THEN Goto(h, "not_found") /\ UNCHANGED held
           ELSE /\ Goto(h, "save")
                /\ held' = [held EXCEPT ![h] = Assigned(row, errand[h].fields)]
    /\ UNCHANGED <<employees, errand>>

\* save() writes what differs from the row, which comes to the whole object.
Save(h) ==
    /\ desk[h] = "save"
    /\ IF LinkTaken(held[h].link, errand[h].id)
       THEN Goto(h, "error") /\ UNCHANGED employees
       ELSE /\ Goto(h, "updated")
            /\ employees' = [employees EXCEPT ![errand[h].id] = held[h]]
    /\ UNCHANGED <<errand, held>>

-----------------------------------------------------------------------------
Step(h) ==
    \/ CheckEmail(h)
    \/ CheckLink(h)
    \/ Insert(h)
    \/ FindById(h)
    \/ Save(h)

Next ==
    \E h \in Handlers :
        \/ \E body \in CreateBodies : Create(h, body)
        \/ \E e \in Ids, fields \in UpdateBodies : Update(h, e, fields)
        \/ Step(h)

Spec == Init /\ [][Next]_vars

-----------------------------------------------------------------------------
Errands ==
    {NoErrand}
        \cup [kind : {"create"}, body : CreateBodies]
        \cup [kind : {"update"}, id : Ids, fields : UpdateBodies]

Desks ==
    {"start", "check_email", "check_link", "insert", "find", "save"} \cup Ended

\* Types of the variables.
TypeOK ==
    /\ employees \in [Ids -> Employee \cup {NoEmployee}]
    /\ desk \in [Handlers -> Desks]
    /\ errand \in [Handlers -> Errands]
    /\ held \in [Handlers -> Employee \cup {NoEmployee}]

\* No two employees share an email address or a link to the HCM, whatever
\* creates and updates pass each other's checks: a batch sync finds at most
\* one employee for a record of the HCM (employee.entity.js:19, :26, "unique").
UniqueIdentities ==
    \A d, e \in Employed :
        d # e =>
            /\ employees[d].email # employees[e].email
            /\ employees[d].link = employees[e].link => employees[e].link = NoLink
=============================================================================
