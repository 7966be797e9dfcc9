------------------------ MODULE BalanceServiceProofs -------------------------
(***************************************************************************)
(* Theorems about BalanceService, for every set of keys, every finite set  *)
(* of calls and every set of amounts, whether or not calls overlap unless  *)
(* a theorem says otherwise.                                               *)
(*                                                                         *)
(* A call that stands before its save holds an entity whose version is at  *)
(* most that of its row; when the two are equal, nobody saved the row since*)
(* the call read it, so the entity is what the operation makes of the row  *)
(* as it is now.  That is HeldEntities, and FreshSavesAreExact its effect. *)
(* Where calls do not overlap the versions are always equal, so reads,     *)
(* checks and writes of one call collapse into its save: the refinement.   *)
(*                                                                         *)
(* Where they do, days may be lost, but DaysComeFromCalls needs no more    *)
(* than that what is held or stored was in the table before, plus the days *)
(* of the call itself.                                                     *)
(***************************************************************************)
EXTENDS BalanceService, FiniteSums, TLAPS

\* The entity a call holds before its save, against the row it will write.
HeldEntities ==
    \A c \in Calls : pc[c] = "save" =>
        /\ rows[op[c].key] # NoRow
        /\ balance[c].version <= rows[op[c].key].version
        /\ balance[c].version = rows[op[c].key].version =>
            /\ ~ Ledger!Refused(rows[op[c].key], op[c])
            /\ balance[c] = Ledger!Updated(rows[op[c].key], op[c])

IInv == TypeOK /\ HeldEntities

-----------------------------------------------------------------------------
(* The operators the service is built from.                                *)

\* NoRow is not a row.
LEMMA NoRowIsNoRow == NoRow \notin Row
<1> SUFFICES ASSUME NoRow \in Row PROVE FALSE
    OBVIOUS
<1>1. NoRow.version \in Nat \ {0}
    BY DEF Row
<1> QED
    BY <1>1 DEF NoRow

\* Every operation maps a row to a row and leaves its version alone.
LEMMA UpdatedIsRow ==
    ASSUME NEW r \in Row, NEW o \in Ledger!Operations
    PROVE  /\ Ledger!Updated(r, o) \in Row
           /\ Ledger!Updated(r, o).version = r.version
<1>1. CASE o.kind = "sync"
    <2>1. o.hcm \in [total : Nat, used : Nat]
        BY <1>1, HcmFiguresAssumption DEF Ledger!Operations
    <2> QED
        BY <1>1, <2>1 DEF Ledger!Updated, Row
<1>2. CASE o.kind # "sync"
    <2>1. o.days \in Nat /\ o.kind \in {"reserve", "confirm", "release", "restore"}
        BY <1>2, DaysAssumption, KindsAssumption DEF Ledger!Operations
    <2>2. CASE o.kind = "reserve"
        BY <2>1, <2>2 DEF Ledger!Updated, Row
    <2>3. CASE o.kind = "confirm"
        <3>1. r.pending - o.days \in Int /\ r.used + o.days \in Nat
            BY <2>1 DEF Row
        <3>2. Ledger!AtLeastZero(r.pending - o.days) \in Nat
            BY <3>1 DEF Ledger!AtLeastZero
        <3> QED
            BY <2>3, <3>1, <3>2 DEF Ledger!Updated, Row
    <2>4. CASE o.kind = "release"
        BY <2>1, <2>4 DEF Ledger!Updated, Ledger!AtLeastZero, Row
    <2>5. CASE o.kind = "restore"
        BY <2>1, <2>5 DEF Ledger!Updated, Ledger!AtLeastZero, Row
    <2> QED
        BY <2>1, <2>2, <2>3, <2>4, <2>5
<1> QED
    BY <1>1, <1>2

\* What FindPresent and Insert do with the row they have in hand.
LEMMA LoadedTypes ==
    ASSUME TypeOK, NEW c \in Calls, NEW r \in Row, pc[c] \in {"find", "insert"},
           Loaded(c, r)
    PROVE  /\ pc' \in [Calls -> Places]
           /\ balance' \in [Calls -> Row \cup {NoRow}]
           /\ pc'[c] \in {"save", "insufficient"}
           /\ pc'[c] = "save" =>
                /\ ~ Ledger!Refused(r, op[c])
                /\ balance'[c] = Ledger!Updated(r, op[c])
                /\ balance'[c] \in Row
                /\ balance'[c].version = r.version
           /\ pc'[c] = "insufficient" => Ledger!Refused(r, op[c])
           /\ \A d \in Calls \ {c} : pc'[d] = pc[d] /\ balance'[d] = balance[d]
<1>1. op[c] \in Ledger!Operations
    BY DEF TypeOK
<1>2. Ledger!Updated(r, op[c]) \in Row /\ Ledger!Updated(r, op[c]).version = r.version
    BY <1>1, UpdatedIsRow
<1> QED
    BY <1>2 DEF Loaded, TypeOK, Places

-----------------------------------------------------------------------------
(* Type correctness.                                                       *)

LEMMA InitTypeOK == Init => TypeOK
<1> SUFFICES ASSUME Init PROVE TypeOK
    OBVIOUS
<1>1. SeededRows \subseteq Row
    BY SeededFiguresAssumption DEF SeededRows, Row
<1> QED
    BY <1>1 DEF Init, TypeOK, Places

LEMMA CallTypeOK ==
    ASSUME TypeOK, NEW c \in Calls, NEW o \in Ledger!Operations, Call(c, o)
    PROVE  TypeOK'
BY DEF TypeOK, Call, Places

LEMMA FindPresentTypeOK ==
    ASSUME TypeOK, NEW c \in Calls, FindPresent(c)
    PROVE  TypeOK'
<1>1. op[c] \in Ledger!Operations /\ op[c].key \in Keys
    BY DEF TypeOK, FindPresent, Ledger!Operations
<1>2. rows[op[c].key] \in Row
    BY <1>1 DEF TypeOK, FindPresent
<1>3. Loaded(c, rows[op[c].key]) /\ pc[c] = "find"
    BY DEF FindPresent
<1> QED
    BY <1>2, <1>3, LoadedTypes DEF TypeOK, FindPresent

LEMMA InsertTypeOK ==
    ASSUME TypeOK, NEW c \in Calls, Insert(c)
    PROVE  TypeOK'
<1>1. op[c] \in Ledger!Operations /\ op[c].key \in Keys
    BY DEF TypeOK, Insert, Ledger!Operations
<1>2. ZeroRow \in Row
    BY DEF ZeroRow, Row
<1>3. Loaded(c, ZeroRow) /\ pc[c] = "insert"
    BY DEF Insert
<1>4. rows' \in [Keys -> Row \cup {NoRow}]
    BY <1>1, <1>2 DEF TypeOK, Insert
<1> QED
    BY <1>2, <1>3, <1>4, LoadedTypes DEF TypeOK, Insert

LEMMA SaveTypeOK ==
    ASSUME TypeOK, HeldEntities, NEW c \in Calls, Save(c)
    PROVE  TypeOK'
<1>1. op[c] \in Ledger!Operations /\ op[c].key \in Keys
    BY DEF TypeOK, Save, Ledger!Operations
<1>2. rows[op[c].key] \in Row /\ balance[c] \in Row
    BY <1>1 DEF TypeOK, Save, HeldEntities
<1>3. [balance[c] EXCEPT !.version = rows[op[c].key].version + 1] \in Row
    BY <1>2 DEF Row
<1>4. rows' \in [Keys -> Row \cup {NoRow}]
    BY <1>1, <1>3 DEF TypeOK, Save
<1> QED
    BY <1>4 DEF TypeOK, Save, Places

LEMMA OtherStepsTypeOK ==
    ASSUME TypeOK, NEW c \in Calls,
           FindAbsent(c) \/ InsertDuplicate(c) \/ Fails(c)
    PROVE  TypeOK'
<1>1. CASE FindAbsent(c)
    <2>1. op[c] \in Ledger!Operations
        BY <1>1 DEF TypeOK, FindAbsent
    <2>2. op[c].kind \in {"reserve", "confirm", "release", "restore", "sync"}
        BY <2>1, KindsAssumption DEF Ledger!Operations
    <2> QED
        BY <1>1, <2>1, <2>2 DEF TypeOK, FindAbsent, Places
<1>2. CASE InsertDuplicate(c)
    BY <1>2 DEF TypeOK, InsertDuplicate, Places
<1>3. CASE Fails(c)
    BY <1>3 DEF TypeOK, Fails, Running, Places
<1> QED
    BY <1>1, <1>2, <1>3

-----------------------------------------------------------------------------
(* Held entities stay true to their rows.                                  *)

\* A read, fresh or of the row just inserted, gives an entity that is true.
LEMMA FindPresentHeld ==
    ASSUME IInv, NEW c \in Calls, FindPresent(c)
    PROVE  HeldEntities'
<1>1. op[c] \in Ledger!Operations /\ op[c].key \in Keys
    BY DEF IInv, TypeOK, FindPresent, Ledger!Operations
<1>2. rows[op[c].key] \in Row
    BY <1>1 DEF IInv, TypeOK, FindPresent
<1>3. Loaded(c, rows[op[c].key]) /\ pc[c] = "find" /\ UNCHANGED <<rows, op>>
    BY DEF FindPresent
<1>4. rows[op[c].key].version \in Nat
    BY <1>2 DEF Row
<1>5. ASSUME NEW d \in Calls, pc'[d] = "save"
      PROVE  /\ rows[op[d].key] # NoRow
             /\ balance'[d].version <= rows[op[d].key].version
             /\ balance'[d].version = rows[op[d].key].version =>
                 /\ ~ Ledger!Refused(rows[op[d].key], op[d])
                 /\ balance'[d] = Ledger!Updated(rows[op[d].key], op[d])
    <2>1. CASE d = c
        BY <1>2, <1>3, <1>4, <1>5, <2>1, LoadedTypes DEF IInv, FindPresent
    <2>2. CASE d # c
        <3>1. pc'[d] = pc[d] /\ balance'[d] = balance[d]
            BY <1>2, <1>3, <2>2, LoadedTypes DEF IInv
        <3> QED
            BY <1>5, <3>1 DEF IInv, HeldEntities
    <2> QED
        BY <2>1, <2>2
<1> QED
    BY <1>3, <1>5 DEF HeldEntities

\* Nobody else holds an entity for a row that is only now inserted.
LEMMA InsertHeld ==
    ASSUME IInv, NEW c \in Calls, Insert(c)
    PROVE  HeldEntities'
<1>1. op[c] \in Ledger!Operations /\ op[c].key \in Keys
    BY DEF IInv, TypeOK, Insert, Ledger!Operations
<1>2. ZeroRow \in Row /\ ZeroRow.version \in Nat
    BY DEF ZeroRow, Row
<1>3. Loaded(c, ZeroRow) /\ pc[c] = "insert" /\ UNCHANGED op
    BY DEF Insert
<1>4. rows'[op[c].key] = ZeroRow
    BY <1>1 DEF IInv, TypeOK, Insert
<1>5. ASSUME NEW d \in Calls, pc'[d] = "save"
      PROVE  /\ rows'[op[d].key] # NoRow
             /\ balance'[d].version <= rows'[op[d].key].version
             /\ balance'[d].version = rows'[op[d].key].version =>
                 /\ ~ Ledger!Refused(rows'[op[d].key], op[d])
                 /\ balance'[d] = Ledger!Updated(rows'[op[d].key], op[d])
    <2>1. CASE d = c
        BY <1>2, <1>3, <1>4, <1>5, <2>1, LoadedTypes, NoRowIsNoRow DEF IInv
    <2>2. CASE d # c
        <3>1. pc'[d] = pc[d] /\ balance'[d] = balance[d]
            BY <1>2, <1>3, <2>2, LoadedTypes DEF IInv
        <3>2. op[d].key # op[c].key
            BY <1>5, <3>1 DEF IInv, HeldEntities, Insert
        <3>3. rows'[op[d].key] = rows[op[d].key]
            <4>1. op[d] \in Ledger!Operations
                BY <1>5, <3>1 DEF IInv, TypeOK
            <4>2. op[d].key \in Keys
                BY <4>1 DEF Ledger!Operations
            <4> QED
                BY <3>2, <4>2 DEF IInv, TypeOK, Insert
        <3> QED
            BY <1>5, <3>1, <3>3 DEF IInv, HeldEntities
    <2> QED
        BY <2>1, <2>2
<1> QED
    BY <1>3, <1>5 DEF HeldEntities

\* A save leaves every other entity of its row out of date.
LEMMA SaveHeld ==
    ASSUME IInv, NEW c \in Calls, Save(c)
    PROVE  HeldEntities'
<1>1. op[c] \in Ledger!Operations /\ op[c].key \in Keys
    BY DEF IInv, TypeOK, Save, Ledger!Operations
<1>2. rows[op[c].key] \in Row /\ balance[c] \in Row
    BY <1>1 DEF IInv, TypeOK, Save, HeldEntities
<1>3. /\ rows'[op[c].key] = [balance[c] EXCEPT !.version = rows[op[c].key].version + 1]
      /\ UNCHANGED <<op, balance>>
    BY <1>1 DEF IInv, TypeOK, Save
<1>4. /\ rows'[op[c].key] \in Row
      /\ rows'[op[c].key].version = rows[op[c].key].version + 1
      /\ rows[op[c].key].version \in Nat
    BY <1>2, <1>3 DEF Row
<1>5. ASSUME NEW d \in Calls, pc'[d] = "save"
      PROVE  /\ rows'[op[d].key] # NoRow
             /\ balance[d].version <= rows'[op[d].key].version
             /\ balance[d].version = rows'[op[d].key].version =>
                 /\ ~ Ledger!Refused(rows'[op[d].key], op[d])
                 /\ balance[d] = Ledger!Updated(rows'[op[d].key], op[d])
    <2>1. pc[d] = "save"
        BY <1>5 DEF IInv, TypeOK, Save
    <2>2. op[d] \in Ledger!Operations /\ balance[d] \in Row
        BY <2>1 DEF IInv, TypeOK
    <2>3. op[d].key \in Keys /\ balance[d].version \in Nat
        BY <2>2 DEF Ledger!Operations, Row
    <2>4. CASE op[d].key = op[c].key
        <3>1. balance[d].version <= rows[op[c].key].version
            BY <2>1, <2>4 DEF IInv, HeldEntities
        <3> QED
            BY <1>4, <2>3, <2>4, <3>1, NoRowIsNoRow
    <2>5. CASE op[d].key # op[c].key
        <3>1. rows'[op[d].key] = rows[op[d].key]
            BY <2>3, <2>5 DEF IInv, TypeOK, Save
        <3> QED
            BY <2>1, <3>1 DEF IInv, HeldEntities
    <2> QED
        BY <2>4, <2>5
<1> QED
    BY <1>3, <1>5 DEF HeldEntities

\* The other steps neither write rows nor bring a call before its save.
LEMMA OtherStepsHeld ==
    ASSUME IInv, NEW c \in Calls,
           \/ \E o \in Ledger!Operations : Call(c, o)
           \/ FindAbsent(c) \/ InsertDuplicate(c) \/ Fails(c)
    PROVE  HeldEntities'
<1>1. UNCHANGED <<rows, balance>>
    BY DEF Call, FindAbsent, InsertDuplicate, Fails
<1>2. ASSUME NEW d \in Calls, pc'[d] = "save"
      PROVE  pc[d] = "save" /\ op'[d] = op[d]
    <2>1. CASE FindAbsent(c)
        <3>1. op[c] \in Ledger!Operations
            BY <2>1 DEF IInv, TypeOK, FindAbsent
        <3>2. op[c].kind \in {"reserve", "confirm", "release", "restore", "sync"}
            BY <3>1, KindsAssumption DEF Ledger!Operations
        <3> QED
            BY <1>2, <2>1, <3>2 DEF IInv, TypeOK, FindAbsent
    <2>2. CASE ~ FindAbsent(c)
        BY <1>2, <2>2 DEF IInv, TypeOK, Call, InsertDuplicate, Fails
    <2> QED
        BY <2>1, <2>2
<1>3. ASSUME NEW d \in Calls, pc'[d] = "save"
      PROVE  /\ rows[op'[d].key] # NoRow
             /\ balance[d].version <= rows[op'[d].key].version
             /\ balance[d].version = rows[op'[d].key].version =>
                 /\ ~ Ledger!Refused(rows[op'[d].key], op'[d])
                 /\ balance[d] = Ledger!Updated(rows[op'[d].key], op'[d])
    BY <1>2, <1>3 DEF IInv, HeldEntities
<1> QED
    BY <1>1, <1>3 DEF HeldEntities

-----------------------------------------------------------------------------
(* The inductive invariant.                                                *)

LEMMA IInvInductive == IInv /\ [Next]_vars => IInv'
<1> SUFFICES ASSUME IInv, [Next]_vars PROVE IInv'
    OBVIOUS
<1>1. ASSUME NEW c \in Calls, NEW o \in Ledger!Operations, Call(c, o) PROVE IInv'
    BY <1>1, CallTypeOK, OtherStepsHeld DEF IInv
<1>2. ASSUME NEW c \in Calls, FindPresent(c) PROVE IInv'
    BY <1>2, FindPresentTypeOK, FindPresentHeld DEF IInv
<1>3. ASSUME NEW c \in Calls, FindAbsent(c) PROVE IInv'
    BY <1>3, OtherStepsTypeOK, OtherStepsHeld DEF IInv
<1>4. ASSUME NEW c \in Calls, Insert(c) PROVE IInv'
    BY <1>4, InsertTypeOK, InsertHeld DEF IInv
<1>5. ASSUME NEW c \in Calls, InsertDuplicate(c) PROVE IInv'
    BY <1>5, OtherStepsTypeOK, OtherStepsHeld DEF IInv
<1>6. ASSUME NEW c \in Calls, Save(c) PROVE IInv'
    BY <1>6, SaveTypeOK, SaveHeld DEF IInv
<1>7. ASSUME NEW c \in Calls, Fails(c) PROVE IInv'
    BY <1>7, OtherStepsTypeOK, OtherStepsHeld DEF IInv
<1>8. CASE UNCHANGED vars
    BY <1>8 DEF IInv, TypeOK, HeldEntities, vars
<1> QED
    BY <1>1, <1>2, <1>3, <1>4, <1>5, <1>6, <1>7, <1>8 DEF Next, Step

LEMMA InitIInv == Init => IInv
BY InitTypeOK DEF Init, IInv, HeldEntities

\* The inductive invariant holds in every reachable state.
THEOREM InductiveInvariant == Spec => []IInv
BY InitIInv, IInvInductive, PTL DEF Spec

\* Every reachable state is well typed.
THEOREM TypeCorrect == Spec => []TypeOK
<1>1. IInv => TypeOK
    BY DEF IInv
<1> QED
    BY <1>1, InductiveInvariant, PTL

-----------------------------------------------------------------------------
(* Steps seen through the accounts: only a save changes one, and if its    *)
(* entity is fresh it applies its whole operation to the account as it is. *)

\* The check of a reservation sees a row as its account.
LEMMA RefusedAccount ==
    ASSUME NEW r \in Row, NEW o \in Ledger!Operations
    PROVE  Ledger!Refused(AccountOf(r), o) <=> Ledger!Refused(r, o)
<1>1. AccountOf(r) = [total |-> r.total, used |-> r.used, pending |-> r.pending]
    BY NoRowIsNoRow DEF AccountOf
<1> QED
    BY <1>1 DEF Ledger!Refused, Ledger!ComputeAvailable

\* An operation does to a row's account what it does to the row.
LEMMA UpdatedAccount ==
    ASSUME NEW r \in Row, NEW o \in Ledger!Operations, NEW v \in Nat \ {0}
    PROVE  AccountOf([Ledger!Updated(r, o) EXCEPT !.version = v])
                = Ledger!Updated(AccountOf(r), o)
<1>1. AccountOf(r) = [total |-> r.total, used |-> r.used, pending |-> r.pending]
    BY NoRowIsNoRow DEF AccountOf
<1>3. Ledger!Updated(r, o) \in Row
    BY UpdatedIsRow
<1> DEFINE u == [Ledger!Updated(r, o) EXCEPT !.version = v]
<1>4. u \in Row
    BY <1>3 DEF Row
<1>5. /\ AccountOf(u) = [total |-> u.total, used |-> u.used, pending |-> u.pending]
      /\ u.total = Ledger!Updated(r, o).total
      /\ u.used = Ledger!Updated(r, o).used
      /\ u.pending = Ledger!Updated(r, o).pending
    BY <1>3, <1>4, NoRowIsNoRow DEF AccountOf, Row
<1>6. Ledger!Updated(AccountOf(r), o) =
        [total |-> Ledger!Updated(r, o).total,
         used |-> Ledger!Updated(r, o).used,
         pending |-> Ledger!Updated(r, o).pending]
    <2>1. o.kind \in {"reserve", "confirm", "release", "restore", "sync"}
        BY KindsAssumption DEF Ledger!Operations
    <2>2. CASE o.kind = "reserve"
        BY <1>1, <2>2 DEF Ledger!Updated, Row
    <2>3. CASE o.kind = "confirm"
        <3> DEFINE p == Ledger!AtLeastZero(r.pending - o.days)
        <3> DEFINE q == r.used + o.days
        <3>1. Ledger!Updated(r, o) = [r EXCEPT !.pending = p, !.used = q]
            BY <2>3 DEF Ledger!Updated
        <3>2. Ledger!Updated(AccountOf(r), o)
                = [AccountOf(r) EXCEPT !.pending = p, !.used = q]
            BY <1>1, <2>3 DEF Ledger!Updated
        <3> HIDE DEF p, q
        <3>3. /\ Ledger!Updated(r, o).total = r.total
              /\ Ledger!Updated(r, o).used = q
              /\ Ledger!Updated(r, o).pending = p
            BY <3>1 DEF Row
        <3>4. Ledger!Updated(AccountOf(r), o)
                = [total |-> r.total, used |-> q, pending |-> p]
            <4>1. [AccountOf(r) EXCEPT !.pending = p]
                    = [total |-> r.total, used |-> r.used, pending |-> p]
                BY <1>1
            <4> QED
                BY <3>2, <4>1
        <3> QED
            BY <3>3, <3>4
    <2>4. CASE o.kind = "release"
        BY <1>1, <2>4 DEF Ledger!Updated, Row
    <2>5. CASE o.kind = "restore"
        BY <1>1, <2>5 DEF Ledger!Updated, Row
    <2>6. CASE o.kind = "sync"
        <3>1. Ledger!Updated(r, o)
                = [r EXCEPT !.total = o.hcm.total, !.used = o.hcm.used]
            BY <2>6 DEF Ledger!Updated
        <3>2. Ledger!Updated(AccountOf(r), o)
                = [AccountOf(r) EXCEPT !.total = o.hcm.total, !.used = o.hcm.used]
            BY <2>6 DEF Ledger!Updated
        <3>3. /\ Ledger!Updated(r, o).total = o.hcm.total
              /\ Ledger!Updated(r, o).used = o.hcm.used
              /\ Ledger!Updated(r, o).pending = r.pending
            BY <3>1 DEF Row
        <3>4. Ledger!Updated(AccountOf(r), o)
                = [total |-> o.hcm.total, used |-> o.hcm.used, pending |-> r.pending]
            <4>1. [AccountOf(r) EXCEPT !.total = o.hcm.total]
                    = [total |-> o.hcm.total, used |-> r.used, pending |-> r.pending]
                BY <1>1
            <4> QED
                BY <3>2, <4>1
        <3> QED
            BY <3>3, <3>4
    <2> QED
        BY <2>1, <2>2, <2>3, <2>4, <2>5, <2>6
<1> QED
    BY <1>5, <1>6

\* A save of a fresh entity applies its operation to the current account.
LEMMA SaveApplies ==
    ASSUME IInv, NEW c \in Calls, Save(c),
           balance[c].version = rows[op[c].key].version
    PROVE  /\ op[c] \in Ledger!Operations
           /\ op[c].key \in Keys
           /\ rows[op[c].key] \in Row
           /\ ~ Ledger!Refused(AccountOf(rows[op[c].key]), op[c])
           /\ AccountOf(rows'[op[c].key])
                = Ledger!Updated(AccountOf(rows[op[c].key]), op[c])
           /\ \A k \in Keys \ {op[c].key} : rows'[k] = rows[k]
<1>1. op[c] \in Ledger!Operations /\ op[c].key \in Keys
    BY DEF IInv, TypeOK, Save, Ledger!Operations
<1>2. rows[op[c].key] \in Row
    BY <1>1 DEF IInv, TypeOK, Save, HeldEntities
<1>3. /\ ~ Ledger!Refused(rows[op[c].key], op[c])
      /\ balance[c] = Ledger!Updated(rows[op[c].key], op[c])
    BY DEF IInv, HeldEntities, Save
<1> DEFINE v == rows[op[c].key].version + 1
<1>4. v \in Nat \ {0}
    BY <1>2 DEF Row
<1>5. rows'[op[c].key] = [Ledger!Updated(rows[op[c].key], op[c]) EXCEPT !.version = v]
    BY <1>1, <1>3 DEF IInv, TypeOK, Save
<1>6. \A k \in Keys \ {op[c].key} : rows'[k] = rows[k]
    BY DEF IInv, TypeOK, Save
<1> HIDE DEF v
<1> QED
    BY <1>1, <1>2, <1>3, <1>4, <1>5, <1>6, UpdatedAccount, RefusedAccount

\* No other step changes an account: an inserted row is an account of zeros.
LEMMA OthersKeepAccounts ==
    ASSUME IInv, NEW c \in Calls, NEW k \in Keys,
           \/ \E o \in Ledger!Operations : Call(c, o)
           \/ FindPresent(c) \/ FindAbsent(c) \/ Insert(c)
           \/ InsertDuplicate(c) \/ Fails(c)
    PROVE  AccountOf(rows'[k]) = AccountOf(rows[k])
<1>1. CASE Insert(c)
    <2>1. CASE k = op[c].key
        <3>1. rows'[k] = ZeroRow /\ rows[k] = NoRow
            BY <1>1, <2>1 DEF IInv, TypeOK, Insert
        <3> QED
            BY <3>1 DEF AccountOf, ZeroRow, NoRow
    <2>2. CASE k # op[c].key
        BY <1>1, <2>2 DEF IInv, TypeOK, Insert
    <2> QED
        BY <2>1, <2>2
<1>2. CASE ~ Insert(c)
    BY <1>2 DEF Call, FindPresent, FindAbsent, InsertDuplicate, Fails
<1> QED
    BY <1>1, <1>2

\* A step moves one call.
LEMMA OnlyTheActorMoves ==
    ASSUME TypeOK, NEW c \in Calls, NEW d \in Calls, c # d,
           Step(d) \/ \E o \in Ledger!Operations : Call(d, o)
    PROVE  pc'[c] = pc[c] /\ op'[c] = op[c]
<1>1. CASE FindPresent(d) \/ Insert(d)
    BY <1>1 DEF TypeOK, FindPresent, Insert, Loaded
<1>2. CASE FindAbsent(d)
    BY <1>2 DEF TypeOK, FindAbsent
<1>3. CASE InsertDuplicate(d) \/ Save(d) \/ Fails(d)
    BY <1>3 DEF TypeOK, InsertDuplicate, Save, Fails
<1>4. CASE \E o \in Ledger!Operations : Call(d, o)
    BY <1>4 DEF TypeOK, Call
<1> QED
    BY <1>1, <1>2, <1>3, <1>4 DEF Step

-----------------------------------------------------------------------------
(* What callers rely on.                                                   *)

\* Whoever saves a row at the version it read does to it exactly what it was
\* asked: only a save that finds a newer version can lose another's days.
THEOREM FreshSaves == Spec => FreshSavesAreExact
<1>1. ASSUME IInv, [Next]_vars, NEW c \in Calls, pc[c] = "save", pc'[c] = "ok",
             balance[c].version = rows[op[c].key].version
      PROVE  /\ ~ Ledger!Refused(rows[op[c].key], op[c])
             /\ AccountOf(rows'[op[c].key])
                    = Ledger!Updated(AccountOf(rows[op[c].key]), op[c])
    <2>1. Save(c)
        <3>1. PICK d \in Calls : Step(d) \/ \E o \in Ledger!Operations : Call(d, o)
            BY <1>1 DEF Next, vars
        <3>2. d = c
            BY <1>1, <3>1, OnlyTheActorMoves DEF IInv
        <3> QED
            BY <1>1, <3>1, <3>2 DEF Step, IInv, TypeOK, Call, FindPresent, FindAbsent,
                                    Insert, InsertDuplicate, Fails
    <2>2. ~ Ledger!Refused(rows[op[c].key], op[c])
        BY <1>1 DEF IInv, HeldEntities
    <2> QED
        BY <1>1, <2>1, <2>2, SaveApplies
<1>2. IInv /\ [Next]_vars =>
        [\A c \in Calls :
            LET row == rows[op[c].key]
            IN  pc[c] = "save" /\ pc'[c] = "ok" /\ balance[c].version = row.version =>
                    /\ ~ Ledger!Refused(row, op[c])
                    /\ AccountOf(rows'[op[c].key])
                            = Ledger!Updated(AccountOf(row), op[c])]_vars
    BY <1>1
<1> QED
    BY <1>2, InductiveInvariant, PTL DEF Spec, FreshSavesAreExact

\* Who reserved or synced, and did not break off, left a row.
THEOREM RowsStay == Spec => []RowsPersist
<1>1. Init => RowsPersist
    BY DEF Init, RowsPersist
<1>2. ASSUME IInv, RowsPersist, [Next]_vars PROVE RowsPersist'
    <2>1. ASSUME NEW k \in Keys, rows[k] # NoRow PROVE rows'[k] # NoRow
        <3>1. ASSUME NEW c \in Calls, Save(c) PROVE rows'[k] # NoRow
            <4>1. rows' \in [Keys -> Row \cup {NoRow}]
                BY <1>2, <3>1, SaveTypeOK DEF IInv, TypeOK
            <4>2. rows[op[c].key] \in Row /\ balance[c] \in Row
                BY <1>2, <3>1 DEF IInv, TypeOK, HeldEntities, Save, Ledger!Operations
            <4>3. [balance[c] EXCEPT !.version = rows[op[c].key].version + 1] \in Row
                BY <4>2 DEF Row
            <4> QED
                BY <1>2, <2>1, <3>1, <4>3, NoRowIsNoRow DEF IInv, TypeOK, Save
        <3>2. ASSUME NEW c \in Calls, Insert(c) PROVE rows'[k] # NoRow
            BY <1>2, <2>1, <3>2 DEF IInv, TypeOK, Insert
        <3> QED
            BY <1>2, <2>1, <3>1, <3>2 DEF Next, Step, vars, Call, FindPresent, FindAbsent,
                                          InsertDuplicate, Fails
    <2>2. ASSUME NEW c \in Calls,
                 pc'[c] \in {"ok", "insufficient", "duplicate"},
                 op'[c].kind \in {"reserve", "sync"}
          PROVE  rows'[op'[c].key] # NoRow
        <3>1. CASE pc'[c] = pc[c] /\ op'[c] = op[c]
            <4>1. op[c].key \in Keys
                BY <1>2, <2>2, <3>1 DEF IInv, TypeOK, Ledger!Operations
            <4> QED
                BY <1>2, <2>1, <2>2, <3>1, <4>1 DEF RowsPersist
        <3>2. CASE ~ (pc'[c] = pc[c] /\ op'[c] = op[c])
            <4>1. PICK d \in Calls : Step(d) \/ \E o \in Ledger!Operations : Call(d, o)
                BY <1>2, <3>2 DEF Next, vars
            <4>2. d = c
                BY <1>2, <3>2, <4>1, OnlyTheActorMoves DEF IInv
            <4>3. ~ \E o \in Ledger!Operations : Call(c, o)
                BY <1>2, <2>2 DEF IInv, TypeOK, Call
            <4>4. op'[c] = op[c] /\ op[c].key \in Keys
                BY <1>2, <2>2, <4>1, <4>2, <4>3 DEF IInv, TypeOK, Ledger!Operations, Step,
                    FindPresent, FindAbsent, Insert, InsertDuplicate, Save, Fails
            <4>5. CASE Insert(c)
                BY <1>2, <4>4, <4>5, NoRowIsNoRow DEF IInv, TypeOK, Insert, ZeroRow, Row, NoRow
            <4>6. CASE Save(c) \/ FindPresent(c) \/ InsertDuplicate(c)
                BY <1>2, <2>1, <4>4, <4>6 DEF IInv, HeldEntities, Save, FindPresent,
                                              InsertDuplicate
            <4>7. CASE FindAbsent(c) \/ Fails(c)
                BY <1>2, <2>2, <4>4, <4>7 DEF IInv, TypeOK, FindAbsent, Fails
            <4> QED
                BY <4>1, <4>2, <4>3, <4>5, <4>6, <4>7 DEF Step
        <3> QED
            BY <3>1, <3>2
    <2> QED
        BY <2>2 DEF RowsPersist
<1>3. QED
    BY <1>1, <1>2, InductiveInvariant, PTL DEF Spec

-----------------------------------------------------------------------------
(* The service implements the atomic ledger.                               *)

LedgerAccount == [k \in Keys |-> AccountOf(rows[k])]
LedgerOutcome == [c \in Calls |-> OutcomeOf(pc[c])]

LEMMA OutcomeMoves ==
    ASSUME TypeOK, NEW c \in Calls, NEW x \in Places,
           pc' = [pc EXCEPT ![c] = x]
    PROVE  LedgerOutcome' = [LedgerOutcome EXCEPT ![c] = OutcomeOf(x)]
BY DEF TypeOK, LedgerOutcome

LEMMA AccountsStay ==
    ASSUME IInv, NEW c \in Calls,
           \/ \E o \in Ledger!Operations : Call(c, o)
           \/ FindPresent(c) \/ FindAbsent(c) \/ Insert(c)
           \/ InsertDuplicate(c) \/ Fails(c)
    PROVE  LedgerAccount' = LedgerAccount
BY OthersKeepAccounts DEF LedgerAccount

LEMMA InitRefines == Init => Ledger!Init
<1> SUFFICES ASSUME Init PROVE Ledger!Init
    OBVIOUS
<1>1. ASSUME NEW k \in Keys
      PROVE  AccountOf(rows[k]) \in {Ledger!ZeroAccount} \cup Ledger!Seeded
    <2>1. CASE rows[k] = NoRow
        BY <2>1 DEF AccountOf, Ledger!ZeroAccount
    <2>2. CASE rows[k] # NoRow
        <3>1. PICK f \in SeededFigures :
                rows[k] = [total |-> f.total, used |-> f.used, pending |-> 0, version |-> 1]
            BY <2>2 DEF Init, SeededRows
        <3> QED
            BY <2>2, <3>1 DEF AccountOf, Ledger!Seeded
    <2> QED
        BY <2>1, <2>2
<1>2. [c \in Calls |-> OutcomeOf(pc[c])] = [c \in Calls |-> "idle"]
    BY DEF Init, OutcomeOf
<1> QED
    BY <1>1, <1>2 DEF Init, Ledger!Init

\* A save is the atomic step of its call.
LEMMA SaveRefines ==
    ASSUME IInv, NEW c \in Calls, Save(c),
           balance[c].version = rows[op[c].key].version
    PROVE  Ledger!Apply(c)
<1>1. LedgerOutcome[c] = "called"
    BY DEF Save, LedgerOutcome, OutcomeOf
<1>2. LedgerOutcome' = [LedgerOutcome EXCEPT ![c] = "ok"]
    BY OutcomeMoves DEF IInv, Save, Places, OutcomeOf
<1>3. LedgerAccount' = [LedgerAccount EXCEPT ![op[c].key] = Ledger!Updated(@, op[c])]
    BY SaveApplies DEF LedgerAccount
<1>4. ~ Ledger!Refused(LedgerAccount[op[c].key], op[c])
    BY SaveApplies DEF LedgerAccount
<1> QED
    BY <1>1, <1>2, <1>3, <1>4 DEF Ledger!Apply, LedgerAccount, LedgerOutcome, Save

\* What a call does with the row it loaded is invisible, or a refusal.
LEMMA LoadRefines ==
    ASSUME IInv, NEW c \in Calls, FindPresent(c) \/ Insert(c)
    PROVE  Ledger!Refuse(c) \/ UNCHANGED Ledger!vars
<1> DEFINE r == IF FindPresent(c) THEN rows[op[c].key] ELSE ZeroRow
<1>1. op[c] \in Ledger!Operations /\ op[c].key \in Keys
    BY DEF IInv, TypeOK, FindPresent, Insert, Ledger!Operations
<1>2. /\ r \in Row
      /\ Loaded(c, r)
      /\ pc[c] \in {"find", "insert"}
      /\ op' = op
      /\ AccountOf(r) = AccountOf(rows[op[c].key])
    <2>1. CASE FindPresent(c)
        BY <1>1, <2>1 DEF IInv, TypeOK, FindPresent
    <2>2. CASE ~ FindPresent(c)
        <3>1. Insert(c) /\ r = ZeroRow
            BY <2>2
        <3>2. ZeroRow \in Row
            BY DEF ZeroRow, Row
        <3>3. AccountOf(ZeroRow) = AccountOf(NoRow)
            BY DEF AccountOf, ZeroRow, NoRow
        <3> QED
            BY <3>1, <3>2, <3>3 DEF Insert
    <2> QED
        BY <2>1, <2>2
<1> HIDE DEF r
<1>3. LedgerAccount' = LedgerAccount
    BY AccountsStay
<1>4. CASE pc'[c] = "insufficient"
    <2>1. Ledger!Refused(r, op[c])
        BY <1>2, <1>4, LoadedTypes DEF IInv
    <2>2. Ledger!Refused(AccountOf(r), op[c])
        BY <1>1, <1>2, <2>1, RefusedAccount
    <2>3. pc' = [pc EXCEPT ![c] = "insufficient"]
        BY <1>2, <1>4, LoadedTypes DEF IInv, TypeOK
    <2>4. LedgerOutcome' = [LedgerOutcome EXCEPT ![c] = "insufficient"]
        BY <2>3, OutcomeMoves DEF IInv, Places, OutcomeOf
    <2>5. LedgerOutcome[c] = "called"
        BY <1>2 DEF LedgerOutcome, OutcomeOf
    <2>6. Ledger!Refused(LedgerAccount[op[c].key], op[c])
        BY <1>1, <1>2, <2>2 DEF LedgerAccount
    <2> QED
        BY <1>2, <1>3, <2>4, <2>5, <2>6 DEF Ledger!Refuse, LedgerAccount, LedgerOutcome
<1>5. CASE pc'[c] = "save"
    <2>1. pc' = [pc EXCEPT ![c] = "save"]
        BY <1>2, <1>5, LoadedTypes DEF IInv, TypeOK
    <2>2. LedgerOutcome' = [LedgerOutcome EXCEPT ![c] = "called"]
        BY <2>1, OutcomeMoves DEF IInv, Places, OutcomeOf
    <2>3. LedgerOutcome[c] = "called"
        BY <1>2 DEF LedgerOutcome, OutcomeOf
    <2>4. LedgerOutcome' = LedgerOutcome
        BY <2>2, <2>3 DEF LedgerOutcome
    <2> QED
        BY <1>2, <1>3, <2>4 DEF Ledger!vars, LedgerAccount, LedgerOutcome
<1> QED
    BY <1>2, <1>4, <1>5, LoadedTypes DEF IInv

\* Calls that end without an effect: not found, duplicate row, an error, and
\* the release or restore that finds no row.
LEMMA EndRefines ==
    ASSUME IInv, NEW c \in Calls,
           FindAbsent(c) \/ InsertDuplicate(c) \/ Fails(c)
    PROVE  Ledger!Next \/ UNCHANGED Ledger!vars
<1>1. op[c] \in Ledger!Operations /\ op[c].key \in Keys
    BY DEF IInv, TypeOK, FindAbsent, InsertDuplicate, Fails, Running, Ledger!Operations
<1>2. LedgerAccount' = LedgerAccount /\ op' = op
    BY AccountsStay DEF FindAbsent, InsertDuplicate, Fails, Running
<1>3. LedgerOutcome[c] = "called"
    BY DEF FindAbsent, InsertDuplicate, Fails, Running, LedgerOutcome, OutcomeOf
<1>4. ASSUME NEW x \in {"not_found", "duplicate", "error"},
             pc' = [pc EXCEPT ![c] = x]
      PROVE  Ledger!Next
    <2>1. LedgerOutcome' = [LedgerOutcome EXCEPT ![c] = "failed"]
        BY <1>4, OutcomeMoves DEF IInv, Places, OutcomeOf
    <2>2. Ledger!Fail(c)
        BY <1>2, <1>3, <2>1 DEF Ledger!Fail, LedgerAccount, LedgerOutcome
    <2> QED
        BY <2>2 DEF Ledger!Next
<1>5. ASSUME NEW x \in {"find", "insert"}, pc' = [pc EXCEPT ![c] = x]
      PROVE  UNCHANGED Ledger!vars
    <2>1. LedgerOutcome' = [LedgerOutcome EXCEPT ![c] = "called"]
        BY <1>5, OutcomeMoves DEF IInv, Places, OutcomeOf
    <2>2. LedgerOutcome' = LedgerOutcome
        BY <1>3, <2>1 DEF LedgerOutcome
    <2> QED
        BY <1>2, <2>2 DEF Ledger!vars, LedgerAccount, LedgerOutcome
<1>6. ASSUME op[c].kind \in {"release", "restore"}, rows[op[c].key] = NoRow,
             pc' = [pc EXCEPT ![c] = "ok"]
      PROVE  Ledger!Next
    <2>1. LedgerOutcome' = [LedgerOutcome EXCEPT ![c] = "ok"]
        BY <1>6, OutcomeMoves DEF IInv, Places, OutcomeOf
    <2>2. LedgerAccount[op[c].key] = [total |-> 0, used |-> 0, pending |-> 0]
        BY <1>1, <1>6 DEF LedgerAccount, AccountOf
    <2>3. op[c].days \in Nat \ {0}
        BY <1>1, <1>6, DaysAssumption DEF Ledger!Operations
    <2>4. Ledger!AtLeastZero(0 - op[c].days) = 0
        BY <2>3 DEF Ledger!AtLeastZero
    <2>5. Ledger!Updated(LedgerAccount[op[c].key], op[c]) = LedgerAccount[op[c].key]
        <3>1. CASE op[c].kind = "release"
            BY <2>2, <2>4, <3>1 DEF Ledger!Updated
        <3>2. CASE op[c].kind = "restore"
            BY <2>2, <2>4, <3>2 DEF Ledger!Updated
        <3> QED
            BY <1>6, <3>1, <3>2
    <2>6. LedgerAccount' = [LedgerAccount EXCEPT ![op[c].key] = Ledger!Updated(@, op[c])]
        BY <1>2, <2>5 DEF LedgerAccount
    <2>7. ~ Ledger!Refused(LedgerAccount[op[c].key], op[c])
        BY <1>6 DEF Ledger!Refused
    <2>8. Ledger!Apply(c)
        BY <1>2, <1>3, <2>1, <2>6, <2>7 DEF Ledger!Apply, LedgerAccount, LedgerOutcome
    <2> QED
        BY <2>8 DEF Ledger!Next
<1>7. CASE FindAbsent(c)
    <2>1. op[c].kind \in {"reserve", "confirm", "release", "restore", "sync"}
        BY <1>1, KindsAssumption DEF Ledger!Operations
    <2>2. CASE op[c].kind \in {"reserve", "sync"}
        BY <1>5, <1>7, <2>2 DEF FindAbsent
    <2>3. CASE op[c].kind = "confirm"
        BY <1>4, <1>7, <2>3 DEF FindAbsent
    <2>4. CASE op[c].kind \in {"release", "restore"}
        BY <1>6, <1>7, <2>4 DEF FindAbsent
    <2> QED
        BY <2>1, <2>2, <2>3, <2>4
<1>8. CASE InsertDuplicate(c) \/ Fails(c)
    BY <1>4, <1>8 DEF InsertDuplicate, Fails
<1> QED
    BY <1>7, <1>8

LEMMA CallRefines ==
    ASSUME IInv, NEW c \in Calls, NEW o \in Ledger!Operations, Call(c, o)
    PROVE  Ledger!Invoke(c, o)
<1>1. LedgerAccount' = LedgerAccount
    BY AccountsStay
<1>2. LedgerOutcome' = [LedgerOutcome EXCEPT ![c] = "called"]
    BY OutcomeMoves DEF IInv, Call, Places, OutcomeOf
<1>3. LedgerOutcome[c] = "idle"
    BY DEF Call, LedgerOutcome, OutcomeOf
<1> QED
    BY <1>1, <1>2, <1>3 DEF Ledger!Invoke, Call, LedgerAccount, LedgerOutcome

\* One call at a time: who stands before its save holds the row as it is.
Alone ==
    /\ \A c, d \in Calls : Running(c) /\ Running(d) => c = d
    /\ \A c \in Calls :
        pc[c] = "save" => balance[c].version = rows[op[c].key].version

LEMMA AloneInductive ==
    ASSUME ~ Interleaved, IInv, Alone, [Next]_vars
    PROVE  Alone'
<1>1. CASE UNCHANGED vars
    BY <1>1 DEF Alone, Running, vars
<1>2. ASSUME NEW c \in Calls, NEW o \in Ledger!Operations, Call(c, o) PROVE Alone'
    BY <1>2 DEF Alone, Running, Call, IInv, TypeOK
<1>3. ASSUME NEW c \in Calls, Step(c) PROVE Alone'
    <2>1. Running(c)
        BY <1>3 DEF Step, Running, FindPresent, FindAbsent, Insert, InsertDuplicate,
                    Save, Fails
    <2>2. \A d \in Calls : d # c => ~ Running(d) /\ pc'[d] = pc[d]
        BY <1>3, <2>1, OnlyTheActorMoves DEF Alone, IInv
    <2>3. ASSUME pc'[c] = "save"
          PROVE  balance'[c].version = rows'[op'[c].key].version
        <3>1. op[c] \in Ledger!Operations /\ op[c].key \in Keys
            BY <2>1 DEF IInv, TypeOK, Running, Ledger!Operations
        <3>2. CASE FindPresent(c)
            <4>1. rows[op[c].key] \in Row /\ Loaded(c, rows[op[c].key]) /\ pc[c] = "find"
                  /\ UNCHANGED <<rows, op>>
                BY <3>1, <3>2 DEF IInv, TypeOK, FindPresent
            <4> QED
                BY <2>3, <4>1, LoadedTypes DEF IInv
        <3>3. CASE Insert(c)
            <4>1. ZeroRow \in Row /\ Loaded(c, ZeroRow) /\ pc[c] = "insert" /\ op' = op
                BY <3>3 DEF ZeroRow, Row, Insert
            <4>2. rows'[op[c].key] = ZeroRow
                BY <3>1, <3>3 DEF IInv, TypeOK, Insert
            <4> QED
                BY <2>3, <4>1, <4>2, LoadedTypes DEF IInv
        <3>4. CASE FindAbsent(c)
            <4>1. op[c].kind \in {"reserve", "confirm", "release", "restore", "sync"}
                BY <3>1, KindsAssumption DEF Ledger!Operations
            <4> QED
                BY <2>3, <3>4, <4>1 DEF FindAbsent, IInv, TypeOK
        <3>5. CASE InsertDuplicate(c) \/ Save(c) \/ Fails(c)
            BY <2>3, <3>5 DEF InsertDuplicate, Save, Fails, IInv, TypeOK
        <3> QED
            BY <1>3, <3>2, <3>3, <3>4, <3>5 DEF Step
    <2>4. \A d \in Calls : Running(d)' => d = c
        BY <2>2 DEF Running
    <2>5. \A d \in Calls : pc'[d] = "save" => d = c
        BY <2>4 DEF Running
    <2> QED
        BY <2>3, <2>4, <2>5 DEF Alone
<1> QED
    BY <1>1, <1>2, <1>3 DEF Next

\* Where calls do not overlap, the service behaves as a ledger on which each
\* call is atomic, for any number of calls and errors.
THEOREM Refinement == ASSUME ~ Interleaved PROVE Spec => LedgerRefinement
<1>1. IInv /\ Alone /\ [Next]_vars => [Ledger!Next]_(Ledger!vars)
    <2> SUFFICES ASSUME IInv, Alone, [Next]_vars
                 PROVE  Ledger!Next \/ UNCHANGED Ledger!vars
        OBVIOUS
    <2>1. CASE UNCHANGED vars
        BY <2>1 DEF vars, Ledger!vars
    <2>2. ASSUME NEW c \in Calls, NEW o \in Ledger!Operations, Call(c, o)
          PROVE  Ledger!Next
        BY <2>2, CallRefines DEF Ledger!Next
    <2>3. ASSUME NEW c \in Calls, Save(c) PROVE Ledger!Next
        <3>1. balance[c].version = rows[op[c].key].version
            BY <2>3 DEF Save, Alone
        <3> QED
            BY <2>3, <3>1, SaveRefines DEF Ledger!Next
    <2>4. ASSUME NEW c \in Calls, FindPresent(c) \/ Insert(c)
          PROVE  Ledger!Next \/ UNCHANGED Ledger!vars
        BY <2>4, LoadRefines DEF Ledger!Next
    <2>5. ASSUME NEW c \in Calls, FindAbsent(c) \/ InsertDuplicate(c) \/ Fails(c)
          PROVE  Ledger!Next \/ UNCHANGED Ledger!vars
        BY <2>5, EndRefines
    <2> QED
        BY <2>1, <2>2, <2>3, <2>4, <2>5 DEF Next, Step
<1>2. Init => Alone
    BY DEF Init, Alone, Running
<1>3. IInv /\ Alone /\ [Next]_vars => Alone'
    BY AloneInductive
<1>4. Spec => []Alone
    BY <1>2, <1>3, InductiveInvariant, PTL DEF Spec
<1> QED
    BY <1>1, <1>4, InitRefines, InductiveInvariant, PTL DEF Spec, LedgerRefinement, Ledger!Spec

-----------------------------------------------------------------------------
(* No row counts a day that no call put there.                             *)

Weights(place, asked, kind, k) ==
    [c \in Calls |->
        IF place[c] = "ok" /\ asked[c].kind = kind /\ asked[c].key = k
        THEN asked[c].days ELSE 0]

LEMMA DaysAreWeights ==
    ASSUME NEW kind, NEW k
    PROVE  DaysDone(kind, k) = SumFunction(Weights(pc, op, kind, k))
<1>1. [c \in Calls |-> IF c \in Done(kind, k) THEN op[c].days ELSE 0]
        = Weights(pc, op, kind, k)
    BY DEF Weights, Done
<1> QED
    BY <1>1 DEF DaysDone

LEMMA WeightsType ==
    ASSUME NEW place \in [Calls -> Places], NEW asked,
           \A c \in Calls : place[c] # "idle" => asked[c] \in Ledger!Operations,
           NEW kind \in {"reserve", "confirm"}, NEW k
    PROVE  Weights(place, asked, kind, k) \in [Calls -> Nat]
<1> SUFFICES ASSUME NEW c \in Calls, place[c] = "ok", asked[c].kind = kind
             PROVE  asked[c].days \in Nat
    BY DEF Weights
<1>1. asked[c] \in Ledger!Operations
    OBVIOUS
<1> QED
    BY <1>1, DaysAssumption DEF Ledger!Operations

\* A call that ends well adds its days to those done, and nothing else does.
LEMMA DaysGrow ==
    ASSUME IInv, IInv', NEW c \in Calls, NEW kind \in {"reserve", "confirm"}, NEW k,
           Step(c) \/ \E o \in Ledger!Operations : Call(c, o)
    PROVE  /\ DaysDone(kind, k) \in Nat /\ DaysDone(kind, k)' \in Nat
           /\ DaysDone(kind, k) <= DaysDone(kind, k)'
           /\ Save(c) /\ op[c].kind = kind /\ op[c].key = k =>
                DaysDone(kind, k)' = DaysDone(kind, k) + op[c].days
<1> DEFINE v == Weights(pc, op, kind, k)
           w == Weights(pc', op', kind, k)
<1>1. v \in [Calls -> Nat] /\ w \in [Calls -> Nat]
    <2>1. \A d \in Calls : pc[d] # "idle" => op[d] \in Ledger!Operations
        BY DEF IInv, TypeOK
    <2>2. \A d \in Calls : pc'[d] # "idle" => op'[d] \in Ledger!Operations
        BY DEF IInv, TypeOK
    <2>3. pc \in [Calls -> Places] /\ pc' \in [Calls -> Places]
        BY DEF IInv, TypeOK
    <2> QED
        BY <2>1, <2>2, <2>3, WeightsType
<1>2. DaysDone(kind, k) = SumFunction(v) /\ DaysDone(kind, k)' = SumFunction(w)
    <2>1. [d \in Calls |-> IF d \in Done(kind, k)' THEN op'[d].days ELSE 0] = w
        BY DEF Weights, Done
    <2> QED
        BY <2>1, DaysAreWeights DEF DaysDone
<1>3. \A d \in Calls : d # c => w[d] = v[d]
    BY OnlyTheActorMoves DEF IInv, Weights
<1>4. pc[c] \notin {"ok", "insufficient", "not_found", "duplicate", "error"}
    BY DEF Step, FindPresent, FindAbsent, Insert, InsertDuplicate, Save, Fails, Running, Call
<1>5. v[c] = 0
    BY <1>4 DEF Weights
<1>6. Save(c) /\ op[c].kind = kind /\ op[c].key = k => w[c] = op[c].days
    BY DEF Save, IInv, TypeOK, Weights
<1>7. SumFunction(v) \in Nat /\ SumFunction(w) \in Nat
    BY <1>1, CallsAssumption, SumNat
<1> HIDE DEF v, w
<1>8. SumFunction(w) = SumFunction(v) - v[c] + w[c]
    BY <1>1, <1>3, CallsAssumption, SumChange
<1>9. w[c] \in Nat
    BY <1>1
<1> QED
    BY <1>2, <1>5, <1>6, <1>7, <1>8, <1>9

\* A figure stays one, and a sync that ends well brings its own.
LEMMA FiguresGrow ==
    ASSUME IInv, NEW c \in Calls, NEW k,
           Step(c) \/ \E o \in Ledger!Operations : Call(c, o)
    PROVE  /\ Figures(k) \subseteq Figures(k)'
           /\ Save(c) /\ op[c].kind = "sync" /\ op[c].key = k => op[c].hcm \in Figures(k)'
<1>1. pc[c] # "ok"
    BY DEF Step, FindPresent, FindAbsent, Insert, InsertDuplicate, Save, Fails, Running, Call
<1>2. \A d \in Calls : d # c => pc'[d] = pc[d] /\ op'[d] = op[d]
    BY OnlyTheActorMoves DEF IInv
<1>3. \A d \in Done("sync", k) : d \in Done("sync", k)' /\ op'[d] = op[d]
    BY <1>1, <1>2 DEF Done
<1>4. Save(c) /\ op[c].kind = "sync" /\ op[c].key = k
        => c \in Done("sync", k)' /\ op'[c] = op[c]
    BY DEF Save, Done, IInv, TypeOK
<1>5. Figures(k)' = SeededFigures \cup {[total |-> 0, used |-> 0]}
                        \cup {op'[d].hcm : d \in Done("sync", k)'}
    BY DEF Figures
<1> QED
    BY <1>3, <1>4, <1>5 DEF Figures

LEMMA FiguresType ==
    ASSUME IInv, NEW k
    PROVE  Figures(k) \subseteq [total : Nat, used : Nat]
<1>1. ASSUME NEW c \in Done("sync", k) PROVE op[c].hcm \in [total : Nat, used : Nat]
    <2>1. op[c] \in Ledger!Operations /\ op[c].kind = "sync"
        BY <1>1 DEF Done, IInv, TypeOK
    <2> QED
        BY <2>1, HcmFiguresAssumption DEF Ledger!Operations
<1> QED
    BY <1>1, SeededFiguresAssumption DEF Figures

\* A row within days reserved and confirmed and resting on one of the figures.
Fits(r, reserved, confirmed, figures) ==
    /\ r.pending <= reserved
    /\ \E f \in figures :
        /\ r.total = f.total
        /\ r.used <= f.used + confirmed

LEMMA FitsMore ==
    ASSUME NEW r \in Row, NEW p \in Nat, NEW q \in Nat, NEW s \in Nat, NEW t \in Nat,
           NEW F \in SUBSET [total : Nat, used : Nat], NEW G, F \subseteq G,
           p <= s, q <= t, Fits(r, p, q, F)
    PROVE  Fits(r, s, t, G)
<1>1. PICK f \in F : r.total = f.total /\ r.used <= f.used + q
    BY DEF Fits
<1>2. f.used \in Nat /\ r.used \in Nat /\ r.pending \in Nat /\ f \in G
    BY <1>1 DEF Row
<1> QED
    BY <1>1, <1>2 DEF Fits

Asked(o, kind) == IF o.kind = kind THEN o.days ELSE 0
Brought(o) == IF o.kind = "sync" THEN {o.hcm} ELSE {}

\* An operation adds to a row the days it names, or brings its figure.
LEMMA UpdatedFits ==
    ASSUME NEW r \in Row, NEW o \in Ledger!Operations,
           NEW p \in Nat, NEW q \in Nat,
           NEW F \in SUBSET [total : Nat, used : Nat], Fits(r, p, q, F)
    PROVE  Fits(Ledger!Updated(r, o), p + Asked(o, "reserve"), q + Asked(o, "confirm"),
                F \cup Brought(o))
<1> DEFINE u == Ledger!Updated(r, o)
<1>1. PICK f \in F : r.total = f.total /\ r.used <= f.used + q
    BY DEF Fits
<1>2. /\ f.used \in Nat /\ f.total \in Nat
      /\ r.total \in Nat /\ r.used \in Nat /\ r.pending \in Nat /\ r.pending <= p
    BY <1>1 DEF Row, Fits
<1>3. o.kind \in {"reserve", "confirm", "release", "restore", "sync"}
    BY KindsAssumption DEF Ledger!Operations
<1>4. CASE o.kind = "sync"
    <2>1. u = [r EXCEPT !.total = o.hcm.total, !.used = o.hcm.used]
        BY <1>4 DEF Ledger!Updated
    <2>2. u.pending = r.pending /\ u.total = o.hcm.total /\ u.used = o.hcm.used
        BY <2>1 DEF Row
    <2>3. o.hcm.used \in Nat
        BY <1>4, HcmFiguresAssumption DEF Ledger!Operations
    <2> QED
        BY <1>2, <1>4, <2>2, <2>3 DEF Fits, Asked, Brought
<1>5. CASE o.kind # "sync"
    <2>1. o.days \in Nat
        BY <1>5, DaysAssumption DEF Ledger!Operations
    <2>2. /\ u.total = r.total
          /\ u.pending <= p + Asked(o, "reserve")
          /\ u.used <= f.used + (q + Asked(o, "confirm"))
        <3>1. CASE o.kind = "reserve"
            BY <1>1, <1>2, <2>1, <3>1 DEF Ledger!Updated, Row, Asked
        <3>2. CASE o.kind = "confirm"
            <4> DEFINE x == Ledger!AtLeastZero(r.pending - o.days)
                       y == r.used + o.days
            <4>1. u = [r EXCEPT !.pending = x, !.used = y]
                BY <3>2 DEF Ledger!Updated
            <4>2. u.total = r.total /\ u.pending = x /\ u.used = y
                BY <4>1 DEF Row
            <4>3. x <= p
                BY <1>2, <2>1 DEF Ledger!AtLeastZero
            <4>4. x \in Nat
                BY <1>2, <2>1 DEF Ledger!AtLeastZero
            <4> QED
                BY <1>1, <1>2, <2>1, <3>2, <4>2, <4>3, <4>4 DEF Asked
        <3>3. CASE o.kind = "release"
            BY <1>1, <1>2, <2>1, <3>3 DEF Ledger!Updated, Ledger!AtLeastZero, Row, Asked
        <3>4. CASE o.kind = "restore"
            BY <1>1, <1>2, <2>1, <3>4 DEF Ledger!Updated, Ledger!AtLeastZero, Row, Asked
        <3> QED
            BY <1>3, <1>5, <3>1, <3>2, <3>3, <3>4
    <2> QED
        BY <1>1, <2>2 DEF Fits
<1> QED
    BY <1>4, <1>5

RowFits(k) ==
    rows[k] # NoRow =>
        Fits(rows[k], DaysDone("reserve", k), DaysDone("confirm", k), Figures(k))

\* The entity before its save counts, besides, the days of its own call.
HeldFits(c) ==
    pc[c] = "save" =>
        LET k == op[c].key
        IN  Fits(balance[c], DaysDone("reserve", k) + Asked(op[c], "reserve"),
                 DaysDone("confirm", k) + Asked(op[c], "confirm"),
                 Figures(k) \cup Brought(op[c]))

DaysInv ==
    /\ IInv
    /\ \A k \in Keys : RowFits(k)
    /\ \A c \in Calls : HeldFits(c)

LEMMA AskedTypes ==
    ASSUME NEW o \in Ledger!Operations
    PROVE  /\ Asked(o, "reserve") \in Nat /\ Asked(o, "confirm") \in Nat
           /\ Brought(o) \subseteq [total : Nat, used : Nat]
<1>1. o.kind # "sync" => o.days \in Nat
    BY DaysAssumption DEF Ledger!Operations
<1>2. o.kind = "sync" => o.hcm \in [total : Nat, used : Nat]
    BY HcmFiguresAssumption DEF Ledger!Operations
<1> QED
    BY <1>1, <1>2 DEF Asked, Brought

\* What fitted before a step fits after it, for rows and entities it leaves.
LEMMA StillFits ==
    ASSUME IInv, IInv', NEW c \in Calls,
           Step(c) \/ \E o \in Ledger!Operations : Call(c, o),
           NEW k \in Keys, NEW r \in Row, NEW x \in Nat, NEW y \in Nat,
           NEW F \in SUBSET [total : Nat, used : Nat],
           Fits(r, DaysDone("reserve", k) + x, DaysDone("confirm", k) + y, Figures(k) \cup F)
    PROVE  Fits(r, DaysDone("reserve", k)' + x, DaysDone("confirm", k)' + y,
                Figures(k)' \cup F)
<1> DEFINE p == DaysDone("reserve", k)
           s == DaysDone("reserve", k)'
           q == DaysDone("confirm", k)
           t == DaysDone("confirm", k)'
<1>1. /\ p \in Nat /\ s \in Nat /\ p <= s
      /\ q \in Nat /\ t \in Nat /\ q <= t
    BY DaysGrow
<1>2. /\ Figures(k) \subseteq [total : Nat, used : Nat]
      /\ Figures(k) \subseteq Figures(k)'
    BY FiguresType, FiguresGrow
<1> HIDE DEF p, q, s, t
<1>3. p + x \in Nat /\ s + x \in Nat /\ q + y \in Nat /\ t + y \in Nat
      /\ p + x <= s + x /\ q + y <= t + y
    BY <1>1
<1>4. Fits(r, p + x, q + y, Figures(k) \cup F)
    BY DEF p, q
<1>5. Fits(r, s + x, t + y, Figures(k)' \cup F)
    BY <1>2, <1>3, <1>4, FitsMore
<1> QED
    BY <1>5 DEF s, t

\* Rows: one inserted has no days, one saved was held, others are left alone.
LEMMA RowsFit ==
    ASSUME DaysInv, IInv', NEW c \in Calls,
           Step(c) \/ \E o \in Ledger!Operations : Call(c, o), NEW k \in Keys
    PROVE  RowFits(k)'
<1> DEFINE p == DaysDone("reserve", k)
           s == DaysDone("reserve", k)'
           q == DaysDone("confirm", k)
           t == DaysDone("confirm", k)'
<1>1. IInv
    BY DEF DaysInv
<1>2. p \in Nat /\ s \in Nat /\ q \in Nat /\ t \in Nat
    BY <1>1, DaysGrow
<1>3. CASE rows'[k] = rows[k] /\ rows[k] # NoRow
    <2>1. rows[k] \in Row
        BY <1>1, <1>3 DEF IInv, TypeOK
    <2>2. Fits(rows[k], p + 0, q + 0, Figures(k) \cup {})
        BY <1>2, <1>3 DEF DaysInv, RowFits
    <2>3. Fits(rows[k], s + 0, t + 0, Figures(k)' \cup {})
        BY <1>1, <2>1, <2>2, StillFits
    <2>4. Fits(rows[k], s, t, Figures(k)')
        BY <1>2, <2>3
    <2> QED
        BY <1>3, <2>4 DEF RowFits
<1>4. CASE rows'[k] = rows[k] /\ rows[k] = NoRow
    BY <1>4 DEF RowFits
<1>5. CASE Insert(c) /\ op[c].key = k
    <2>1. rows'[k] = ZeroRow
        BY <1>1, <1>5 DEF IInv, TypeOK, Insert
    <2>2. [total |-> 0, used |-> 0] \in Figures(k)'
        BY DEF Figures
    <2>3. Fits(rows'[k], s, t, Figures(k)')
        BY <1>2, <2>1, <2>2 DEF Fits, ZeroRow
    <2> QED
        BY <2>3 DEF RowFits
<1>6. CASE Save(c) /\ op[c].key = k
    <2>1. op[c] \in Ledger!Operations /\ balance[c] \in Row /\ rows[k] \in Row
        BY <1>1, <1>6 DEF IInv, TypeOK, HeldEntities, Save
    <2>2. rows'[k] = [balance[c] EXCEPT !.version = rows[k].version + 1]
        BY <1>1, <1>6 DEF IInv, TypeOK, Save
    <2>3. /\ rows'[k].pending = balance[c].pending
          /\ rows'[k].total = balance[c].total
          /\ rows'[k].used = balance[c].used
        BY <2>1, <2>2 DEF Row
    <2>4. Fits(balance[c], p + Asked(op[c], "reserve"), q + Asked(op[c], "confirm"),
               Figures(k) \cup Brought(op[c]))
        BY <1>6 DEF DaysInv, HeldFits, Save
    <2>5. s >= p + Asked(op[c], "reserve") /\ t >= q + Asked(op[c], "confirm")
        BY <1>1, <1>2, <1>6, DaysGrow DEF Asked
    <2>6. Figures(k) \cup Brought(op[c]) \subseteq Figures(k)'
        BY <1>1, <1>6, FiguresGrow DEF Brought
    <2>7. /\ Asked(op[c], "reserve") \in Nat /\ Asked(op[c], "confirm") \in Nat
          /\ Figures(k) \cup Brought(op[c]) \in SUBSET [total : Nat, used : Nat]
        BY <1>1, <2>1, AskedTypes, FiguresType
    <2>8. Fits(balance[c], s, t, Figures(k)')
        <3>1. p + Asked(op[c], "reserve") \in Nat /\ q + Asked(op[c], "confirm") \in Nat
            BY <1>2, <2>7
        <3> HIDE DEF p, q, s, t
        <3> QED
            BY <1>2, <2>1, <2>4, <2>5, <2>6, <2>7, <3>1, FitsMore
    <2>9. Fits(rows'[k], s, t, Figures(k)')
        BY <2>3, <2>8 DEF Fits
    <2> QED
        BY <2>9 DEF RowFits
<1>7. \/ rows'[k] = rows[k]
      \/ Insert(c) /\ op[c].key = k
      \/ Save(c) /\ op[c].key = k
    BY <1>1 DEF IInv, TypeOK, Step, FindPresent, FindAbsent, Insert, InsertDuplicate, Save,
                Fails, Call
<1> QED
    BY <1>3, <1>4, <1>5, <1>6, <1>7

\* Entities: one just loaded is its row with the call's own days.
LEMMA HeldFit ==
    ASSUME DaysInv, IInv', NEW c \in Calls,
           Step(c) \/ \E o \in Ledger!Operations : Call(c, o), NEW d \in Calls
    PROVE  HeldFits(d)'
<1> SUFFICES ASSUME pc'[d] = "save" PROVE HeldFits(d)'
    BY DEF HeldFits
<1>1. IInv
    BY DEF DaysInv
<1>2. CASE pc[d] = "save" /\ op'[d] = op[d] /\ balance'[d] = balance[d]
    <2>1. op[d] \in Ledger!Operations /\ balance[d] \in Row
        BY <1>1, <1>2 DEF IInv, TypeOK
    <2>2. PICK k \in Keys : k = op[d].key
        BY <2>1 DEF Ledger!Operations
    <2> DEFINE x == Asked(op[d], "reserve")
               y == Asked(op[d], "confirm")
               F == Brought(op[d])
    <2>3. x \in Nat /\ y \in Nat /\ F \in SUBSET [total : Nat, used : Nat]
        BY <2>1, AskedTypes
    <2>4. Fits(balance[d], DaysDone("reserve", k) + x, DaysDone("confirm", k) + y,
               Figures(k) \cup F)
        BY <1>2, <2>2 DEF DaysInv, HeldFits
    <2> HIDE DEF x, y, F
    <2>5. Fits(balance[d], DaysDone("reserve", k)' + x, DaysDone("confirm", k)' + y,
               Figures(k)' \cup F)
        BY <1>1, <2>1, <2>3, <2>4, StillFits
    <2> QED
        BY <1>2, <2>2, <2>5 DEF HeldFits, DaysDone, Done, Figures, x, y, F
<1>3. CASE d = c /\ (FindPresent(c) \/ Insert(c))
    <2> DEFINE r == IF FindPresent(c) THEN rows[op[c].key] ELSE ZeroRow
    <2>1. op[c] \in Ledger!Operations
        BY <1>1, <1>3 DEF IInv, TypeOK, FindPresent, Insert
    <2>2. PICK k \in Keys : k = op[c].key
        BY <2>1 DEF Ledger!Operations
    <2>3. r \in Row /\ Loaded(c, r) /\ pc[c] \in {"find", "insert"} /\ op' = op /\ rows'[k] = r
        BY <1>1, <1>3, <2>2 DEF IInv, TypeOK, FindPresent, Insert, ZeroRow, Row
    <2> HIDE DEF r
    <2>4. balance'[c] = Ledger!Updated(r, op[c])
        BY <1>1, <1>3, <2>3, LoadedTypes DEF IInv
    <2>5. Fits(r, DaysDone("reserve", k)', DaysDone("confirm", k)', Figures(k)')
        BY <1>1, <2>3, NoRowIsNoRow, RowsFit DEF RowFits
    <2>6. DaysDone("reserve", k)' \in Nat /\ DaysDone("confirm", k)' \in Nat
        BY <1>1, DaysGrow
    <2>7. Figures(k)' \subseteq [total : Nat, used : Nat]
        <3>1. \A e \in Done("sync", k)' : op'[e] \in Ledger!Operations /\ op'[e].kind = "sync"
            BY DEF IInv, TypeOK, Done
        <3>2. \A e \in Done("sync", k)' : op'[e].hcm \in [total : Nat, used : Nat]
            BY <3>1, HcmFiguresAssumption DEF Ledger!Operations
        <3>3. Figures(k)' = SeededFigures \cup {[total |-> 0, used |-> 0]}
                                \cup {op'[e].hcm : e \in Done("sync", k)'}
            BY DEF Figures
        <3> QED
            BY <3>2, <3>3, SeededFiguresAssumption
    <2> DEFINE p == DaysDone("reserve", k)'
               q == DaysDone("confirm", k)'
               F == Figures(k)'
    <2>8. p \in Nat /\ q \in Nat /\ F \in SUBSET [total : Nat, used : Nat] /\ Fits(r, p, q, F)
        BY <2>5, <2>6, <2>7
    <2> HIDE DEF p, q, F
    <2>9. Fits(balance'[c], p + Asked(op[c], "reserve"), q + Asked(op[c], "confirm"),
               F \cup Brought(op[c]))
        BY <2>1, <2>3, <2>4, <2>8, UpdatedFits
    <2> QED
        BY <1>3, <2>2, <2>3, <2>9 DEF HeldFits, DaysDone, Done, Figures, p, q, F
<1>4. \/ pc[d] = "save" /\ op'[d] = op[d] /\ balance'[d] = balance[d]
      \/ d = c /\ (FindPresent(c) \/ Insert(c))
    <2>1. CASE d # c
        <3>1. pc'[d] = pc[d] /\ op'[d] = op[d]
            BY <1>1, <2>1, OnlyTheActorMoves DEF IInv
        <3>2. balance'[d] = balance[d]
            BY <1>1, <2>1 DEF IInv, TypeOK, Step, FindPresent, FindAbsent, Insert,
                              InsertDuplicate, Save, Fails, Call, Loaded
        <3> QED
            BY <3>1, <3>2
    <2>2. CASE d = c
        <3>1. CASE FindAbsent(c)
            <4>1. op[c] \in Ledger!Operations
                BY <1>1, <3>1 DEF IInv, TypeOK, FindAbsent
            <4>2. op[c].kind \in {"reserve", "confirm", "release", "restore", "sync"}
                BY <4>1, KindsAssumption DEF Ledger!Operations
            <4> QED
                BY <1>1, <2>2, <3>1, <4>2 DEF IInv, TypeOK, FindAbsent
        <3>2. CASE InsertDuplicate(c) \/ Save(c) \/ Fails(c)
                    \/ \E o \in Ledger!Operations : Call(c, o)
            BY <1>1, <2>2, <3>2 DEF IInv, TypeOK, InsertDuplicate, Save, Fails, Call
        <3> QED
            BY <2>2, <3>1, <3>2 DEF Step
    <2> QED
        BY <2>1, <2>2
<1> QED
    BY <1>2, <1>3, <1>4

LEMMA InitDays == Init => DaysInv
<1> SUFFICES ASSUME Init PROVE DaysInv
    OBVIOUS
<1>1. IInv
    BY InitIInv
<1>2. ASSUME NEW k \in Keys, rows[k] # NoRow
      PROVE  Fits(rows[k], DaysDone("reserve", k), DaysDone("confirm", k), Figures(k))
    <2>1. DaysDone("reserve", k) \in Nat /\ DaysDone("confirm", k) \in Nat
        <3>1. pc \in [Calls -> Places] /\ \A c \in Calls : pc[c] = "idle"
            BY DEF Init, Places
        <3>2. /\ Weights(pc, op, "reserve", k) \in [Calls -> Nat]
              /\ Weights(pc, op, "confirm", k) \in [Calls -> Nat]
            BY <3>1, WeightsType
        <3> QED
            BY <3>2, CallsAssumption, DaysAreWeights, SumNat
    <2>2. PICK f \in SeededFigures :
            rows[k] = [total |-> f.total, used |-> f.used, pending |-> 0, version |-> 1]
        BY <1>2 DEF Init, SeededRows
    <2>3. f \in Figures(k) /\ f.used \in Nat
        BY SeededFiguresAssumption DEF Figures
    <2> QED
        BY <2>1, <2>2, <2>3 DEF Fits
<1> QED
    BY <1>1, <1>2 DEF DaysInv, RowFits, HeldFits, Init

LEMMA DaysInductive == DaysInv /\ [Next]_vars => DaysInv'
<1> SUFFICES ASSUME DaysInv, [Next]_vars PROVE DaysInv'
    OBVIOUS
<1>1. IInv'
    BY IInvInductive DEF DaysInv
<1>2. CASE UNCHANGED vars
    BY <1>1, <1>2 DEF DaysInv, RowFits, HeldFits, DaysDone, Done, Figures, vars
<1>3. ASSUME NEW c \in Calls, Step(c) \/ \E o \in Ledger!Operations : Call(c, o)
      PROVE  DaysInv'
    <2>1. \A k \in Keys : RowFits(k)'
        BY <1>1, <1>3, RowsFit
    <2>2. \A d \in Calls : HeldFits(d)'
        BY <1>1, <1>3, HeldFit
    <2> QED
        BY <1>1, <2>1, <2>2 DEF DaysInv, RowFits, HeldFits
<1> QED
    BY <1>2, <1>3 DEF Next

\* However many calls overlap, and whichever fail, no row counts a day as
\* pending or used that no call put there.
THEOREM DaysHaveCalls == Spec => []DaysComeFromCalls
<1>1. DaysInv => DaysComeFromCalls
    BY DEF DaysInv, RowFits, Fits, DaysComeFromCalls
<1> QED
    BY <1>1, InitDays, DaysInductive, PTL DEF Spec
=============================================================================
