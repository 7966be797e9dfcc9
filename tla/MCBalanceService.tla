--------------------------- MODULE MCBalanceService --------------------------
(***************************************************************************)
(* Small instances of BalanceService for TLC.                              *)
(***************************************************************************)
EXTENDS BalanceService, TLC

CONSTANTS k1, c1, c2, c3, c4

OneKey == {k1}
ThreeCalls == {c1, c2, c3}
FourCalls == {c1, c2, c3, c4}
ReserveOnly == {"reserve"}
AllKinds == {"reserve", "confirm", "release", "restore", "sync"}
TwoDays == {2}
OneDay == {1}
\* A correction by the HCM that lowers the allotment.
Correction == {[total |-> 1, used |-> 1]}
TwoDaysLeft == {[total |-> 3, used |-> 1]}

CallSymmetry == Permutations(Calls)

\* The reservations that were accepted fit into the allotment when nothing
\* but reservations is called (docs/TRD.md:321, "Concurrent leave requests
\* exceed balance -> Optimistic lock allows only one to succeed").
AcceptedReservationsFit ==
    \A k \in Keys :
        DaysDone("reserve", k)
            <= AccountOf(rows[k]).total - AccountOf(rows[k]).used
=============================================================================
