----------------------------- MODULE MCHcmClient -----------------------------
(***************************************************************************)
(* Small instances of HcmClient for TLC: two deductions from one account   *)
(* of the HCM, which has days enough for both but not for every attempt    *)
(* of both, and one that names an account the HCM does not know.           *)
(***************************************************************************)
EXTENDS HcmClient, TLC

CONSTANTS d1, d2, d3, adaAnnual, unknown

OneDeduction == {d1}
WithUnknown == {d1, d2, d3}
OneAccount == {adaAnnual}
AccountOfEach == [d \in Deductions |-> IF d = d3 THEN unknown ELSE adaAnnual]
DaysOfEach == [d \in Deductions |-> IF d = d1 THEN 2 ELSE 1]
Totals == adaAnnual :> 4
OneDay == {1}
=============================================================================
