---------------------------- MODULE LeaveAccount -----------------------------
(***************************************************************************)
(* The arithmetic of src/modules/balance/balance.service.js: one account of*)
(* leave days, and what each operation of the service makes of it between  *)
(* its read and its save.  The columns are decimals of one digit; days are *)
(* counted here in whole units of the smallest amount.                     *)
(***************************************************************************)
EXTENDS Integers

Account == [total : Nat, used : Nat, pending : Nat]

\* The account of a key without a row: ensureBalance would create it so.
ZeroAccount == [total |-> 0, used |-> 0, pending |-> 0]

\* Mutant of AtLeastZero: no Math.max.
Unclamped(x) == x

\* Math.max(0, x)
AtLeastZero(x) == IF x < 0 THEN 0 ELSE x

\* _computeAvailable
ComputeAvailable(a) == AtLeastZero(a.total - a.used - a.pending)

\* What an operation makes of an account, between its read and its save.
Updated(a, o) ==
    CASE o.kind = "reserve" -> [a EXCEPT !.pending = @ + o.days]
      [] o.kind = "confirm" -> [a EXCEPT !.pending = AtLeastZero(@ - o.days),
                                         !.used = @ + o.days]
      [] o.kind = "release" -> [a EXCEPT !.pending = AtLeastZero(@ - o.days)]
      [] o.kind = "restore" -> [a EXCEPT !.used = AtLeastZero(@ - o.days)]
      [] o.kind = "sync"    -> [a EXCEPT !.total = o.hcm.total,
                                         !.used = o.hcm.used]

\* A reservation is refused when the account has too few days available.
Refused(a, o) == o.kind = "reserve" /\ ComputeAvailable(a) < o.days
=============================================================================
