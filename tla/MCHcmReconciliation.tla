------------------------ MODULE MCHcmReconciliation ------------------------
(***************************************************************************)
(* Small instances of HcmReconciliation for TLC: one linked employee with  *)
(* one account, on which the HCM may have fewer days than the seeds.       *)
(***************************************************************************)
EXTENDS HcmReconciliation, TLC

CONSTANTS h1, h2, h3, ada, annual, k1, s1, s2

ThreeHandlers == {h1, h2, h3}
OneType == {annual}
OneEmployee == {ada}

\* Day 0 is a Sunday.
fri == 5
mon == 8

LongWeekend ==
    {[employee |-> ada, account |-> annual, first |-> fri, last |-> mon, key |-> k1]}
OneRange ==
    {[employee |-> ada, account |-> annual, first |-> fri, last |-> fri, key |-> k1]}

TwoDays == annual :> 2
OneDay == annual :> 1
BonusDay == {1}
OneSync == {s1}
TwoSyncs == {s1, s2}
=============================================================================
