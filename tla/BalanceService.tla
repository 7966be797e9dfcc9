---------------------------- MODULE BalanceService ---------------------------
(***************************************************************************)
(* src/modules/balance/balance.service.js and balance.entity.js: the calls *)
(* that reserve, confirm, release, restore and sync days, each one step    *)
(* per await on the leave_balances table, so that the steps of concurrent  *)
(* calls interleave.                                                       *)
(*                                                                         *)
(* The rows have a `version` column that every save counts up.  No save    *)
(* compares it: repository.save() asks for no lock, so it writes the entity*)
(* over the row whatever was saved since the entity was read.  The retries *)
(* of _withOptimisticRetry wait for a lock error that nothing raises; what *)
(* they leave of that function is its `throw error`.                       *)
(*                                                                         *)
(* With Interleaved, calls overlap: several instances, or a database       *)
(* driver that waits (the PostgreSQL of docs/TRD.md section 11).  Without  *)
(* it a call keeps the event loop until it ends: the better-sqlite3 driver *)
(* of database.config.js answers synchronously.                            *)
(***************************************************************************)
EXTENDS Integers, FiniteSetsExt

CONSTANTS
    Keys,               \* (employeeId, leaveType, locationId) triples
    Calls,              \* the calls made, each at most once
    Kinds,              \* the operations the callers use
    Days,               \* amounts of days a call may name
    HcmFigures,         \* [total, used] pairs the HCM may report
    SeededFigures,      \* [total, used] pairs the seeded rows may have
    Interleaved         \* do awaits on the database let other calls run

ASSUME KindsAssumption ==
    Kinds \subseteq {"reserve", "confirm", "release", "restore", "sync"}
ASSUME DaysAssumption == Days \subseteq Nat \ {0}
ASSUME HcmFiguresAssumption == HcmFigures \subseteq [total : Nat, used : Nat]
ASSUME SeededFiguresAssumption == SeededFigures \subseteq [total : Nat, used : Nat]
ASSUME CallsAssumption == IsFiniteSet(Calls)
ASSUME InterleavedAssumption == Interleaved \in BOOLEAN

VARIABLES
    rows,       \* rows[k]: the leave_balances row of key k, or NoRow
    pc,         \* pc[c]: where call c stands, or how it ended
    op,         \* op[c]: what call c was asked
    balance     \* balance[c]: the entity call c holds in memory

vars == <<rows, pc, op, balance>>

-----------------------------------------------------------------------------
(* The abstract ledger this service implements: every call counts as made  *)
(* until it ends, a row without its version is an account, and no row is   *)
(* an account of zeros.                                                    *)

NoRow == [version |-> 0]

AccountOf(row) ==
    IF row = NoRow
    THEN [total |-> 0, used |-> 0, pending |-> 0]
    ELSE [total |-> row.total, used |-> row.used, pending |-> row.pending]

OutcomeOf(place) ==
    CASE place = "idle" -> "idle"
      [] place \in {"find", "insert", "save"} -> "called"
      [] place = "ok" -> "ok"
      [] place = "insufficient" -> "insufficient"
      [] place \in {"not_found", "duplicate", "error"} -> "failed"

Ledger == INSTANCE BalanceLedger WITH
    account <- [k \in Keys |-> AccountOf(rows[k])],
    outcome <- [c \in Calls |-> OutcomeOf(pc[c])]

-----------------------------------------------------------------------------
Row == [total : Nat, used : Nat, pending : Nat, version : Nat \ {0}]

\* ensureBalance's new entity, and a row as seeds/seed.js inserts it.
ZeroRow == [total |-> 0, used |-> 0, pending |-> 0, version |-> 1]
SeededRows ==
    {[total |-> f.total, used |-> f.used, pending |-> 0, version |-> 1] : f \in SeededFigures}

Init ==
    /\ rows \in [Keys -> {NoRow} \cup SeededRows]
    /\ pc = [c \in Calls |-> "idle"]
    /\ op = [c \in Calls |-> Ledger!NotCalled]
    /\ balance = [c \in Calls |-> NoRow]

Running(c) == pc[c] \in {"find", "insert", "save"}

\* A controller, a leave request handler or a sync calls the service.
Call(c, o) ==
    /\ Interleaved \/ ~ \E d \in Calls : Running(d)
    /\ pc[c] = "idle"
    /\ pc' = [pc EXCEPT ![c] = "find"]
    /\ op' = [op EXCEPT ![c] = o]
    /\ UNCHANGED <<rows, balance>>

\* The code between the read of an entity and its save: no await in it.
Loaded(c, row) ==
    IF Ledger!Refused(row, op[c])
    THEN /\ pc' = [pc EXCEPT ![c] = "insufficient"]
         /\ UNCHANGED balance
    ELSE /\ pc' = [pc EXCEPT ![c] = "save"]
         /\ balance' = [balance EXCEPT ![c] = Ledger!Updated(row, op[c])]

\* findOne of getBalance and ensureBalance, when there is a row.
FindPresent(c) ==
    /\ pc[c] = "find"
    /\ rows[op[c].key] # NoRow
    /\ Loaded(c, rows[op[c].key])
    /\ UNCHANGED <<rows, op>>

\* findOne, when there is none: what each operation does about it.
FindAbsent(c) ==
    /\ pc[c] = "find"
    /\ rows[op[c].key] = NoRow
    /\ pc' = [pc EXCEPT ![c] =
                CASE op[c].kind \in {"reserve", "sync"} -> "insert"
                  [] op[c].kind = "confirm" -> "not_found"
                  [] op[c].kind \in {"release", "restore"} -> "ok"]
    /\ UNCHANGED <<rows, op, balance>>

\* Mutant of Insert: ensureBalance returns the new entity without saving it.
InsertForgotten(c) ==
    /\ pc[c] = "insert"
    /\ rows[op[c].key] = NoRow
    /\ Loaded(c, ZeroRow)
    /\ UNCHANGED <<rows, op>>

\* ensureBalance's save of the new row; the unique index refuses a second
\* one, with an error that is not taken for a lock error.
Insert(c) ==
    /\ pc[c] = "insert"
    /\ rows[op[c].key] = NoRow
    /\ rows' = [rows EXCEPT ![op[c].key] = ZeroRow]
    /\ Loaded(c, ZeroRow)
    /\ UNCHANGED op

InsertDuplicate(c) ==
    /\ pc[c] = "insert"
    /\ rows[op[c].key] # NoRow
    /\ pc' = [pc EXCEPT ![c] = "duplicate"]
    /\ UNCHANGED <<rows, op, balance>>

\* Mutant of Save: the version column is not maintained.
SaveUnversioned(c) ==
    /\ pc[c] = "save"
    /\ rows' = [rows EXCEPT ![op[c].key] =
                    [balance[c] EXCEPT !.version = rows[op[c].key].version]]
    /\ pc' = [pc EXCEPT ![c] = "ok"]
    /\ UNCHANGED <<op, balance>>

\* save() writes every column of the entity and bumps the row's version.
Save(c) ==
    /\ pc[c] = "save"
    /\ rows' = [rows EXCEPT ![op[c].key] =
                    [balance[c] EXCEPT !.version = rows[op[c].key].version + 1]]
    /\ pc' = [pc EXCEPT ![c] = "ok"]
    /\ UNCHANGED <<op, balance>>

\* Mutant of Fails: an error is thrown after the row was written.
FailsWritten(c) ==
    /\ pc[c] = "save"
    /\ rows' = [rows EXCEPT ![op[c].key] =
                    [balance[c] EXCEPT !.version = rows[op[c].key].version + 1]]
    /\ pc' = [pc EXCEPT ![c] = "error"]
    /\ UNCHANGED <<op, balance>>

\* The database refuses a query; the error is none of those that
\* _withOptimisticRetry takes for a lock error, and it throws it on.
Fails(c) ==
    /\ Running(c)
    /\ pc' = [pc EXCEPT ![c] = "error"]
    /\ UNCHANGED <<rows, op, balance>>

Step(c) ==
    \/ FindPresent(c)
    \/ FindAbsent(c)
    \/ Insert(c)
    \/ InsertDuplicate(c)
    \/ Save(c)
    \/ Fails(c)

Next == \E c \in Calls : Step(c) \/ \E o \in Ledger!Operations : Call(c, o)

Spec == Init /\ [][Next]_vars

-----------------------------------------------------------------------------
Places == {"idle", "find", "insert", "save", "ok", "insufficient",
           "not_found", "duplicate", "error"}

\* Types of the variables; the entity held during a save is a whole row.
TypeOK ==
    /\ rows \in [Keys -> Row \cup {NoRow}]
    /\ pc \in [Calls -> Places]
    /\ op \in [Calls -> Ledger!Operations \cup {Ledger!NotCalled}]
    /\ balance \in [Calls -> Row \cup {NoRow}]
    /\ \A c \in Calls :
        /\ pc[c] # "idle" => op[c] \in Ledger!Operations
        /\ pc[c] = "insert" => op[c].kind \in {"reserve", "sync"}
        /\ pc[c] = "save" => balance[c] \in Row

\* Refinement, where calls do not overlap: the reads, inserts and saves of a
\* call, and an error at any of them, are to callers one atomic step of a
\* ledger or none (docs/TRD.md:244, "Balance deductions are immediately
\* consistent locally (atomic DB operations)").
LedgerRefinement == Ledger!Spec

\* The calls of a kind on key k that ended well, and the days they named.
Done(kind, k) ==
    {c \in Calls : pc[c] = "ok" /\ op[c].kind = kind /\ op[c].key = k}

DaysDone(kind, k) ==
    SumFunction([c \in Calls |-> IF c \in Done(kind, k) THEN op[c].days ELSE 0])

\* The figures row k may rest on: seeded, new, or of a sync that ended well.
Figures(k) ==
    SeededFigures \cup {[total |-> 0, used |-> 0]}
        \cup {op[c].hcm : c \in Done("sync", k)}

\* However calls overlap and fail, a row counts no day that no call put
\* there: its pending days are of reservations that were accepted, its used
\* days exceed a figure it was seeded or synced with by days of confirmations
\* that ended well (docs/TRD.md:28, "Prevent double-deduction of leave
\* balances under concurrent requests").  Days may be lost, see the run of
\* AcceptedReservationsFit; they are never counted twice.
DaysComeFromCalls ==
    \A k \in Keys : rows[k] # NoRow =>
        /\ rows[k].pending <= DaysDone("reserve", k)
        /\ \E f \in Figures(k) :
            /\ rows[k].total = f.total
            /\ rows[k].used <= f.used + DaysDone("confirm", k)

\* What the version column is worth: a save that finds its row at the version
\* it read does to the row, as it is now, exactly what its call asks, checks
\* included.  A save that loses another's days finds a newer version, so
\* comparing the two would be enough to refuse it (docs/TRD.md:321,
\* "Optimistic lock allows only one to succeed").
FreshSavesAreExact ==
    [][\A c \in Calls :
        LET row == rows[op[c].key]
        IN  pc[c] = "save" /\ pc'[c] = "ok" /\ balance[c].version = row.version =>
                /\ ~ Ledger!Refused(row, op[c])
                /\ AccountOf(rows'[op[c].key]) = Ledger!Updated(AccountOf(row), op[c])]_vars

\* A row appears at most once, by ensureBalance, and is never removed: an
\* ended reservation or sync left a row that confirmDays will find, unless
\* it broke off (balance.service.js:161).
RowsPersist ==
    \A c \in Calls :
        pc[c] \in {"ok", "insufficient", "duplicate"}
            /\ op[c].kind \in {"reserve", "sync"}
            => rows[op[c].key] # NoRow
=============================================================================
