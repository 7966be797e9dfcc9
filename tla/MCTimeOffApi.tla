---------------------------- MODULE MCTimeOffApi ----------------------------
(***************************************************************************)
(* A small instance of TimeOffApi for TLC: one employee with one account,  *)
(* submissions under one key and under none, a second employee to be added *)
(* by two requests with the same address, and updates of the first.        *)
(***************************************************************************)
EXTENDS TimeOffApi, TLC

CONSTANTS h1, h2, h3, ada, annual, k1, adaMail, bobMail, link1, us, uk

ThreeHandlers == {h1, h2, h3}
OneType == {annual}
OneEmployee == {ada}
NoEmployees == {}

\* Day 0 is a Sunday.
fri == 5
mon == 8

TwoSubmissions ==
    {[employee |-> ada, account |-> annual, first |-> fri, last |-> fri, key |-> k1],
     [employee |-> ada, account |-> annual, first |-> fri, last |-> mon, key |-> NoKey]}
TwoDays == annual :> 2

TwoMails == {adaMail, bobMail}
OneLink == {link1}
TwoPlaces == {us, uk}
AdaOnly == ada :> [email |-> adaMail, link |-> NoLink, location |-> us, active |-> TRUE]
Newcomers ==
    {[email |-> bobMail, link |-> link1, location |-> us],
     [email |-> bobMail, link |-> NoLink, location |-> uk]}
Changes == {[active |-> FALSE], [link |-> link1]}

HandlerSymmetry == Permutations(Handlers)
=============================================================================
