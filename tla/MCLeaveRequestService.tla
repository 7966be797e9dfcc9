------------------------ MODULE MCLeaveRequestService ------------------------
(***************************************************************************)
(* Small instances of LeaveRequestService for TLC: one employee with two   *)
(* leave types, and the submissions that make the interesting cases meet - *)
(* one idempotency key used for two ranges, a range that overlaps another, *)
(* and one that asks for more than its account has.                        *)
(***************************************************************************)
EXTENDS LeaveRequestService, TLC

CONSTANTS h1, h2, h3, h4, ada, annual, sick, k1

FourHandlers == {h1, h2, h3, h4}
ThreeHandlers == {h1, h2, h3}
TwoTypes == {annual, sick}
OneType == {annual}
OneEmployee == {ada}
NoEmployee == {}

\* Day 0 is a Sunday.
fri == 5
sat == 6
sun == 7
mon == 8

AllSubmissions ==
    {[employee |-> ada, account |-> annual, first |-> fri, last |-> fri, key |-> k1],
     [employee |-> ada, account |-> annual, first |-> mon, last |-> mon, key |-> k1],
     [employee |-> ada, account |-> annual, first |-> fri, last |-> mon, key |-> NoKey],
     [employee |-> ada, account |-> sick, first |-> fri, last |-> mon, key |-> NoKey],
     [employee |-> ada, account |-> sick, first |-> sat, last |-> sun, key |-> NoKey]}
OneSubmission ==
    {[employee |-> ada, account |-> annual, first |-> fri, last |-> fri, key |-> k1]}

TwoAndOneDays == annual :> 2 @@ sick :> 1
TwoDays == annual :> 2

HandlerSymmetry == Permutations(Handlers)
=============================================================================
