-------------------------- MODULE MCHcmSyncService --------------------------
(***************************************************************************)
(* Small instances of HcmSyncService for TLC: an HCM employee with a       *)
(* balance at the employee's own location, who locally moves to another    *)
(* and loses the link, and one with balances at two fixed locations.       *)
(***************************************************************************)
EXTENDS HcmSyncService, TLC

CONSTANTS r1, r2, ada, ben, hcmAda, hcmBen, annual, us, pk

TwoRuns == {r1, r2}
TwoEmployees == {ada, ben}
TwoIds == {hcmAda, hcmBen}
UsOrAll == {us, NoLocation}
TwoLocations == {us, pk}
BothInUs ==
    ada :> [link |-> hcmAda, location |-> us] @@ ben :> [link |-> hcmBen, location |-> us]
AdaMoves ==
    {[employee |-> ada, link |-> hcmAda, location |-> pk],
     [employee |-> ada, link |-> NoLink, location |-> us]}
ThreeBalances ==
    {[owner |-> hcmAda, type |-> annual, location |-> NoLocation],
     [owner |-> hcmBen, type |-> annual, location |-> us],
     [owner |-> hcmBen, type |-> annual, location |-> pk]}
WholeBooks == [listed |-> TwoIds, sent |-> ThreeBalances]
\* Ada is left out, and one of ben's balances; or ada has no balances array.
AdaLess == [listed |-> {hcmBen}, sent |-> {b \in ThreeBalances : b.location = us}]
AdaWithoutArray == [listed |-> TwoIds, sent |-> {b \in ThreeBalances : b.owner = hcmBen}]
ThreeBodies == {WholeBooks, AdaLess, AdaWithoutArray}
=============================================================================
