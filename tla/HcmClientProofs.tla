--------------------------- MODULE HcmClientProofs ---------------------------
(***************************************************************************)
(* Theorems about HcmClient, for every set of deductions, of accounts and  *)
(* of allotments, and every number of retries.                             *)
(*                                                                         *)
(* Everything rests on counting messages: each attempt of a deduction is   *)
(* either still with the server, or has been handled and deducted at most  *)
(* once.  So the HCM has applied a deduction no more often than it was     *)
(* attempted, one more application is always within the bound, and an "ok" *)
(* that the client hears is about a deduction that took place.             *)
(***************************************************************************)
EXTENDS HcmClient, FiniteSums, TLAPS

\* The attempts of d that the server still has.
Pending(d) == {n \in 1..maxRetries + 1 : <<d, n>> \in processing}

\* The types, without the bound on applied that follows from the counting.
Types ==
    /\ pc \in [Deductions -> {"idle", "waiting", "backoff", "confirmed", "failed"}]
    /\ attempt \in [Deductions -> 0..maxRetries + 1]
    /\ processing \subseteq Attempts
    /\ answer \in [Deductions -> {"none", "ok", "client_error", "server_error"}]
    /\ used \in [HcmAccounts -> Nat]
    /\ total \in [HcmAccounts -> Nat]
    /\ applied \in [Deductions -> Nat]

\* What the client's place says of the attempts made.
Counted ==
    \A d \in Deductions :
        /\ pc[d] = "idle" => attempt[d] = 0
        /\ pc[d] = "backoff" => attempt[d] <= maxRetries
        /\ \A n \in 1..maxRetries + 1 : <<d, n>> \in processing => n <= attempt[d]
        /\ applied[d] + Cardinality(Pending(d)) <= attempt[d]

\* An answer is about what the HCM did.
Honest ==
    \A d \in Deductions :
        answer[d] = "ok" \/ pc[d] = "confirmed" => applied[d] >= 1

IInv ==
    /\ Types
    /\ Counted
    /\ Honest
    /\ ClientErrorIsFinal

-----------------------------------------------------------------------------
(* Sets of pending attempts.                                               *)

\* They are finite.
LEMMA PendingFinite ==
    ASSUME NEW d PROVE IsFiniteSet(Pending(d)) /\ Cardinality(Pending(d)) \in Nat
<1>1. IsFiniteSet(1..maxRetries + 1)
    BY FS_Interval, MaxRetriesAssumption
<1>2. Pending(d) \in SUBSET (1..maxRetries + 1)
    BY DEF Pending
<1> QED
    BY <1>1, <1>2, FS_Subset, FS_CardinalityType

\* Who has a pending attempt has one to be counted.
LEMMA PendingCounted ==
    ASSUME NEW d, NEW n \in Pending(d) PROVE Cardinality(Pending(d)) >= 1
<1>1. Cardinality(Pending(d)) # 0
    BY PendingFinite, FS_EmptySet
<1> QED
    BY <1>1, PendingFinite

-----------------------------------------------------------------------------
(* The client's steps keep the invariant.                                  *)

LEMMA PostKeeps ==
    ASSUME IInv, NEW d \in Deductions, Post(d) PROVE IInv'
<1> USE MaxRetriesAssumption
<1>1. attempt[d] \in Nat /\ attempt[d] <= maxRetries
    BY DEF IInv, Types, Counted, Post
<1>2. Types'
    <2>1. <<d, attempt[d] + 1>> \in Attempts
        BY <1>1 DEF Attempts
    <2> QED
        BY <1>1, <2>1 DEF IInv, Types, Post
<1>3. ASSUME NEW e \in Deductions
      PROVE  Pending(e)' = IF e = d THEN Pending(d) \cup {attempt[d] + 1} ELSE Pending(e)
    BY <1>1, <1>3 DEF Pending, Post
<1>4. attempt[d] + 1 \notin Pending(d)
    <2>1. <<d, attempt[d] + 1>> \in processing => attempt[d] + 1 <= attempt[d]
        BY <1>1 DEF IInv, Counted
    <2> QED
        BY <1>1, <2>1 DEF Pending
<1>5. Cardinality(Pending(d)') = Cardinality(Pending(d)) + 1
    BY <1>3, <1>4, PendingFinite, FS_AddElement
<1>6. Counted'
    <2> SUFFICES ASSUME NEW e \in Deductions
                 PROVE  /\ pc'[e] = "idle" => attempt'[e] = 0
                        /\ pc'[e] = "backoff" => attempt'[e] <= maxRetries
                        /\ \A n \in 1..maxRetries + 1 :
                            <<e, n>> \in processing' => n <= attempt'[e]
                        /\ applied'[e] + Cardinality(Pending(e)') <= attempt'[e]
        BY DEF Counted
    <2>1. CASE e = d
        <3>1. pc'[d] = "waiting" /\ attempt'[d] = attempt[d] + 1 /\ applied'[d] = applied[d]
            BY DEF IInv, Types, Post
        <3>2. \A n \in 1..maxRetries + 1 : <<d, n>> \in processing' => n <= attempt[d] + 1
            BY <1>1 DEF IInv, Counted, Post
        <3>3. applied[d] \in Nat /\ Cardinality(Pending(d)) \in Nat
              /\ applied[d] + Cardinality(Pending(d)) <= attempt[d]
            BY PendingFinite DEF IInv, Types, Counted
        <3> QED
            BY <1>1, <1>5, <2>1, <3>1, <3>2, <3>3
    <2>2. CASE e # d
        <3>1. \A n \in 1..maxRetries + 1 : <<e, n>> \in processing' => <<e, n>> \in processing
            BY <2>2 DEF Post
        <3> QED
            BY <1>3, <2>2, <3>1 DEF IInv, Types, Counted, Post
    <2> QED
        BY <2>1, <2>2
<1>7. Honest'
    BY DEF IInv, Types, Honest, Post
<1>8. ClientErrorIsFinal'
    BY DEF IInv, Types, ClientErrorIsFinal, Post
<1> QED
    BY <1>2, <1>6, <1>7, <1>8 DEF IInv

\* The steps in which the client only moves: an answer, an error, silence.
Moves(d, place) ==
    /\ pc[d] = "waiting"
    /\ pc' = [pc EXCEPT ![d] = place]
    /\ UNCHANGED <<attempt, processing, answer, used, total, applied>>

LEMMA MovesKeep ==
    ASSUME IInv, NEW d \in Deductions, NEW place, Moves(d, place),
           place \in {"backoff", "confirmed", "failed"},
           place = "backoff" => attempt[d] <= maxRetries,
           place = "confirmed" => answer[d] = "ok",
           place = "failed" => attempt[d] > maxRetries \/ answer[d] = "client_error"
    PROVE  IInv'
<1> USE MaxRetriesAssumption
<1>1. Types'
    BY DEF IInv, Types, Moves
<1>2. \A e : Pending(e)' = Pending(e)
    BY DEF Pending, Moves
<1>3. Counted'
    BY <1>2 DEF IInv, Types, Counted, Moves
<1>4. Honest'
    BY DEF IInv, Types, Honest, Moves
<1>5. ClientErrorIsFinal'
    BY DEF IInv, Types, ClientErrorIsFinal, Moves
<1> QED
    BY <1>1, <1>3, <1>4, <1>5 DEF IInv

\* Each of those steps is such a move.
LEMMA ClientMoves ==
    ASSUME IInv, NEW d \in Deductions, Succeed(d) \/ HearError(d) \/ HearNothing(d)
    PROVE  \E place \in {"backoff", "confirmed", "failed"} :
            /\ Moves(d, place)
            /\ place = "backoff" => attempt[d] <= maxRetries
            /\ place = "confirmed" => answer[d] = "ok"
            /\ place = "failed" => attempt[d] > maxRetries \/ answer[d] = "client_error"
<1> USE MaxRetriesAssumption
<1>1. attempt[d] \in Nat
    BY DEF IInv, Types
<1>2. CASE Succeed(d)
    <2>1. Moves(d, "confirmed") /\ answer[d] = "ok"
        BY <1>2 DEF Succeed, Moves
    <2> QED
        BY <2>1
<1>3. CASE HearError(d)
    <2> DEFINE place == AfterError(d, answer[d] = "server_error")
    <2>1. Moves(d, place) /\ answer[d] \in {"client_error", "server_error"}
        BY <1>3 DEF HearError, Moves
    <2>2. place = IF attempt[d] > maxRetries \/ answer[d] # "server_error"
                  THEN "failed" ELSE "backoff"
        BY DEF AfterError
    <2> HIDE DEF place
    <2> QED
        BY <1>1, <2>1, <2>2
<1>4. CASE HearNothing(d)
    <2> DEFINE place == AfterError(d, TRUE)
    <2>1. Moves(d, place)
        BY <1>4 DEF HearNothing, Moves
    <2>2. place = IF attempt[d] > maxRetries THEN "failed" ELSE "backoff"
        BY DEF AfterError
    <2> HIDE DEF place
    <2> QED
        BY <1>1, <2>1, <2>2
<1> QED
    BY <1>2, <1>3, <1>4

-----------------------------------------------------------------------------
(* The HCM's steps keep the invariant.                                     *)

\* Handling an attempt takes one from those pending and leaves room for one
\* more application.
LEMMA Handled ==
    ASSUME IInv, NEW d \in Deductions, NEW n \in 1..maxRetries + 1,
           <<d, n>> \in processing, processing' = processing \ {<<d, n>>}
    PROVE  /\ \A e \in Deductions :
                Cardinality(Pending(e)') =
                    IF e = d THEN Cardinality(Pending(d)) - 1 ELSE Cardinality(Pending(e))
           /\ n <= attempt[d]
           /\ applied[d] + 1 + Cardinality(Pending(d)') <= attempt[d]
<1>1. ASSUME NEW e \in Deductions
      PROVE  Pending(e)' = IF e = d THEN Pending(d) \ {n} ELSE Pending(e)
    BY DEF Pending
<1>2. n \in Pending(d)
    BY DEF Pending
<1>3. Cardinality(Pending(d)') = Cardinality(Pending(d)) - 1
    BY <1>1, <1>2, PendingFinite, FS_RemoveElement
<1>4. \A e \in Deductions : e # d => Cardinality(Pending(e)') = Cardinality(Pending(e))
    BY <1>1
<1>5. n <= attempt[d] /\ applied[d] + Cardinality(Pending(d)) <= attempt[d]
      /\ applied[d] \in Nat /\ attempt[d] \in Nat /\ Cardinality(Pending(d)) \in Nat
    BY PendingFinite, MaxRetriesAssumption DEF IInv, Types, Counted
<1> QED
    BY <1>3, <1>4, <1>5

\* Answers without a deduction: a failure of the server, or a refusal.
LEMMA RespondKeeps ==
    ASSUME IInv, NEW d \in Deductions, NEW n \in 1..maxRetries + 1, NEW a,
           <<d, n>> \in processing,
           a \in {"none", "client_error", "server_error"}, Respond(d, n, a),
           UNCHANGED <<pc, attempt, used, total, applied>>
    PROVE  IInv'
<1> USE MaxRetriesAssumption
<1>1. Types'
    BY DEF IInv, Types, Respond
<1>2. Counted'
    <2> SUFFICES ASSUME NEW e \in Deductions
                 PROVE  /\ \A m \in 1..maxRetries + 1 : <<e, m>> \in processing => m <= attempt[e]
                        /\ applied[e] + Cardinality(Pending(e)') <= attempt[e]
        BY DEF IInv, Counted, Respond
    <2>1. applied[e] \in Nat /\ attempt[e] \in Nat /\ Cardinality(Pending(e)) \in Nat
          /\ applied[e] + Cardinality(Pending(e)) <= attempt[e]
        BY PendingFinite DEF IInv, Types, Counted
    <2>2. Cardinality(Pending(e)') =
            IF e = d THEN Cardinality(Pending(d)) - 1 ELSE Cardinality(Pending(e))
        BY Handled DEF Respond
    <2>3. \A m \in 1..maxRetries + 1 : <<e, m>> \in processing => m <= attempt[e]
        BY DEF IInv, Counted
    <2> QED
        BY <2>1, <2>2, <2>3
<1>3. Honest'
    BY DEF IInv, Types, Honest, Respond
<1>4. ClientErrorIsFinal'
    BY DEF IInv, Types, ClientErrorIsFinal, Respond
<1> QED
    BY <1>1, <1>2, <1>3, <1>4 DEF IInv

\* The deduction.
LEMMA DeductsKeeps ==
    ASSUME IInv, NEW d \in Deductions, NEW n \in 1..maxRetries + 1, ServerDeducts(d, n)
    PROVE  IInv'
<1> USE MaxRetriesAssumption, DaysOfAssumption
<1>1. <<d, n>> \in processing /\ processing' = processing \ {<<d, n>>}
    BY DEF ServerDeducts, Respond
<1>2. /\ AccountOf[d] \in HcmAccounts
      /\ used[AccountOf[d]] + DaysOf[d] \in Nat
      /\ used[AccountOf[d]] + DaysOf[d] <= total[AccountOf[d]]
    <2>1. AccountOf[d] \in HcmAccounts
        BY DEF ServerDeducts, Deductible
    <2>2. total[AccountOf[d]] - used[AccountOf[d]] >= DaysOf[d]
        BY DEF ServerDeducts, Deductible
    <2>3. used[AccountOf[d]] \in Nat /\ DaysOf[d] \in Nat /\ total[AccountOf[d]] \in Nat
        BY <2>1 DEF IInv, Types
    <2> QED
        BY <2>1, <2>2, <2>3
<1>3. Types'
    BY <1>2 DEF IInv, Types, ServerDeducts, Respond
<1>4. Counted'
    <2> SUFFICES ASSUME NEW e \in Deductions
                 PROVE  /\ \A m \in 1..maxRetries + 1 : <<e, m>> \in processing => m <= attempt[e]
                        /\ applied'[e] + Cardinality(Pending(e)') <= attempt[e]
        BY DEF IInv, Counted, ServerDeducts, Respond
    <2>1. \A m \in 1..maxRetries + 1 : <<e, m>> \in processing => m <= attempt[e]
        BY DEF IInv, Counted
    <2>2. CASE e = d
        <3>1. applied[d] + 1 + Cardinality(Pending(d)') <= attempt[d]
            BY <1>1, Handled
        <3>2. applied'[d] = applied[d] + 1
            BY DEF IInv, Types, ServerDeducts
        <3> QED
            BY <2>1, <2>2, <3>1, <3>2
    <2>3. CASE e # d
        <3>1. Cardinality(Pending(e)') = Cardinality(Pending(e))
            BY <1>1, <2>3, Handled
        <3>2. applied'[e] = applied[e]
            BY <2>3 DEF IInv, Types, ServerDeducts
        <3> QED
            BY <2>1, <3>1, <3>2 DEF IInv, Counted
    <2> QED
        BY <2>2, <2>3
<1>5. Honest'
    <2>1. \A e \in Deductions : applied'[e] \in Nat /\ applied'[e] >= applied[e]
                                    /\ (e = d => applied'[e] >= 1)
        BY DEF IInv, Types, ServerDeducts
    <2>2. \A e \in Deductions : e # d => answer'[e] = answer[e]
        BY DEF IInv, Types, ServerDeducts, Respond
    <2> QED
        BY <2>1, <2>2 DEF IInv, Types, Honest, ServerDeducts
<1>6. ClientErrorIsFinal'
    BY DEF IInv, Types, ClientErrorIsFinal, ServerDeducts, Respond
<1> QED
    BY <1>3, <1>4, <1>5, <1>6 DEF IInv

\* A larger allotment harms no books.
LEMMA RefreshKeeps ==
    ASSUME IInv, NEW a \in HcmAccounts, NEW bonus \in Bonuses, Refresh(a, bonus)
    PROVE  IInv'
<1> USE BonusesAssumption
<1>1. \A b \in HcmAccounts :
        /\ total[b] \in Nat /\ used[b] \in Nat /\ bonus \in Nat
        /\ total'[b] = IF b = a THEN total[b] + bonus ELSE total[b]
    BY DEF IInv, Types, Refresh
<1>2. Types'
    <2>1. total' \in [HcmAccounts -> Nat]
        BY <1>1 DEF IInv, Types, Refresh
    <2> QED
        BY <2>1 DEF IInv, Types, Refresh
<1>3. Counted' /\ Honest' /\ ClientErrorIsFinal'
    BY DEF IInv, Counted, Pending, Honest, ClientErrorIsFinal, Refresh
<1> QED
    BY <1>2, <1>3 DEF IInv

-----------------------------------------------------------------------------
(* The theorems.                                                           *)

LEMMA InitIInv == Init => IInv
<1> SUFFICES ASSUME Init PROVE IInv
    OBVIOUS
<1> USE MaxRetriesAssumption, HcmTotalsAssumption
<1>1. Types
    BY DEF Init, Types, Attempts
<1>2. Counted
    <2>1. \A d : Pending(d) = {}
        BY DEF Init, Pending
    <2>2. \A d : Cardinality(Pending(d)) = 0
        BY <2>1, FS_EmptySet
    <2> QED
        BY <2>2 DEF Init, Counted
<1>3. Honest /\ ClientErrorIsFinal
    BY DEF Init, Honest, ClientErrorIsFinal
<1> QED
    BY <1>1, <1>2, <1>3 DEF IInv

LEMMA NextIInv == IInv /\ [Next]_vars => IInv'
<1> SUFFICES ASSUME IInv, [Next]_vars PROVE IInv'
    OBVIOUS
<1>1. ASSUME NEW d \in Deductions, Client(d) PROVE IInv'
    <2>1. CASE Post(d)
        BY <2>1, PostKeeps
    <2>2. CASE Succeed(d) \/ HearError(d) \/ HearNothing(d)
        BY <2>2, ClientMoves, MovesKeep
    <2> QED
        BY <1>1, <2>1, <2>2 DEF Client
<1>2. CASE Server
    <2>1. PICK d \in Deductions, n \in 1..maxRetries + 1 :
            ServerFails(d, n) \/ ServerRefuses(d, n) \/ ServerDeducts(d, n)
        BY <1>2 DEF Server, IInv, Types, Attempts
    <2>2. CASE ServerFails(d, n)
        BY <2>2, RespondKeeps DEF ServerFails
    <2>3. CASE ServerRefuses(d, n)
        BY <2>3, RespondKeeps DEF ServerRefuses
    <2>4. CASE ServerDeducts(d, n)
        BY <2>4, DeductsKeeps
    <2> QED
        BY <2>1, <2>2, <2>3, <2>4
<1>3. CASE UNCHANGED vars
    BY <1>3 DEF vars, IInv, Types, Counted, Pending, Honest, ClientErrorIsFinal
<1> QED
    BY <1>1, <1>2, <1>3, RefreshKeeps DEF Next

\* The counting of messages is invariant.
THEOREM InductiveInvariant == Spec => []IInv
BY InitIInv, NextIInv, PTL DEF Spec

\* The invariant gives the types, the bound on applied by counting.
LEMMA IInvTypes == IInv => TypeOK
<1> SUFFICES ASSUME IInv PROVE TypeOK
    OBVIOUS
<1>1. ASSUME NEW d \in Deductions PROVE applied[d] \in 0..maxRetries + 1
    BY PendingFinite, MaxRetriesAssumption DEF IInv, Types, Counted
<1> QED
    BY <1>1 DEF IInv, Types, TypeOK

\* Types, and with them that a deduction is applied at most once an attempt.
THEOREM TypeCorrect == Spec => []TypeOK
BY InductiveInvariant, IInvTypes, PTL

\* What the client takes for a success was deducted at the HCM.
THEOREM ConfirmationsAreTrue == Spec => []ConfirmedWasDeducted
<1>1. IInv => ConfirmedWasDeducted
    BY DEF IInv, Honest, ConfirmedWasDeducted
<1> QED
    BY InductiveInvariant, <1>1, PTL

\* A call fails early for a client error only.
THEOREM OthersAreRetried == Spec => []ClientErrorIsFinal
<1>1. IInv => ClientErrorIsFinal
    BY DEF IInv
<1> QED
    BY InductiveInvariant, <1>1, PTL

-----------------------------------------------------------------------------
(* The HCM's books are the sum of what it deducted.                        *)

\* What the deductions add to the used days of an account.
Charged(a) ==
    [d \in Deductions |-> IF AccountOf[d] = a THEN applied[d] * DaysOf[d] ELSE 0]

Booked == \A a \in HcmAccounts : used[a] = SumFunction(Charged(a))

LEMMA ChargedTypes ==
    ASSUME Types, NEW a PROVE Charged(a) \in [Deductions -> Int]
<1> SUFFICES ASSUME NEW d \in Deductions PROVE applied[d] * DaysOf[d] \in Int
    BY DEF Charged
<1>1. applied[d] \in Int /\ DaysOf[d] \in Int
    BY DaysOfAssumption DEF Types
<1> QED
    BY <1>1

\* One more application costs the days once more, at its own account only.
LEMMA DeductsBooks ==
    ASSUME IInv, IInv', Booked, NEW d \in Deductions, NEW n, ServerDeducts(d, n)
    PROVE  Booked'
<1> DEFINE b == AccountOf[d]
<1>1. /\ b \in HcmAccounts
      /\ used' = [used EXCEPT ![b] = @ + DaysOf[d]]
      /\ applied' = [applied EXCEPT ![d] = @ + 1]
    BY DEF ServerDeducts, Deductible
<1>2. applied[d] \in Nat /\ DaysOf[d] \in Nat /\ used[b] \in Nat
    BY <1>1, DaysOfAssumption DEF IInv, Types
<1>3. applied'[d] * DaysOf[d] = applied[d] * DaysOf[d] + DaysOf[d]
    <2>1. \A i, j \in Nat : (i + 1) * j = i * j + j
        OBVIOUS
    <2>2. applied'[d] = applied[d] + 1
        BY <1>1 DEF IInv, Types
    <2> QED
        BY <1>2, <2>1, <2>2
<1> SUFFICES ASSUME NEW a \in HcmAccounts PROVE used'[a] = SumFunction(Charged(a)')
    BY DEF Booked
<1>4. Charged(a) \in [Deductions -> Int] /\ Charged(a)' \in [Deductions -> Int]
    <2>1. Types /\ Types'
        BY DEF IInv
    <2>2. Charged(a) \in [Deductions -> Int]
        BY <2>1, ChargedTypes
    <2>3. Charged(a)' \in [Deductions -> Int]
        <3> SUFFICES ASSUME NEW e \in Deductions PROVE applied'[e] * DaysOf[e] \in Int
            BY DEF Charged
        <3>1. applied'[e] \in Int /\ DaysOf[e] \in Int
            BY <2>1, DaysOfAssumption DEF Types
        <3> QED
            BY <3>1
    <2> QED
        BY <2>2, <2>3
<1>5. \A e \in Deductions \ {d} : Charged(a)[e] = Charged(a)'[e]
    BY <1>1 DEF Charged, IInv, Types
<1>6. SumFunction(Charged(a)') = SumFunction(Charged(a)) - Charged(a)[d] + Charged(a)'[d]
    BY <1>4, <1>5, DeductionsAssumption, SumChange
<1>7. SumFunction(Charged(a)) = used[a] /\ used[a] \in Nat
    BY DEF Booked, IInv, Types
<1>8. CASE a = b
    <2>1. used'[a] = used[a] + DaysOf[d]
        BY <1>1, <1>8 DEF IInv, Types
    <2>2. /\ Charged(a)[d] = applied[d] * DaysOf[d]
          /\ Charged(a)'[d] = applied[d] * DaysOf[d] + DaysOf[d]
        BY <1>3, <1>8 DEF Charged
    <2>3. applied[d] * DaysOf[d] \in Int
        BY <1>2
    <2> QED
        BY <1>2, <1>6, <1>7, <2>1, <2>2, <2>3
<1>9. CASE a # b
    <2>1. used'[a] = used[a]
        BY <1>1, <1>9 DEF IInv, Types
    <2>2. Charged(a)[d] = 0 /\ Charged(a)'[d] = 0
        BY <1>9 DEF Charged
    <2> QED
        BY <1>6, <1>7, <2>1, <2>2
<1> QED
    BY <1>8, <1>9

LEMMA NextBooks ==
    ASSUME IInv, IInv', Booked, [Next]_vars PROVE Booked'
<1>1. CASE UNCHANGED <<used, applied>>
    BY <1>1 DEF Booked, Charged
<1>2. CASE Server
    <2>1. PICK d \in Deductions, n \in 1..maxRetries + 1 :
            ServerFails(d, n) \/ ServerRefuses(d, n) \/ ServerDeducts(d, n)
        BY <1>2 DEF Server, IInv, Types, Attempts
    <2> QED
        BY <1>1, <2>1, DeductsBooks DEF ServerFails, ServerRefuses
<1> QED
    BY <1>1, <1>2
    DEF Next, Client, Post, Succeed, HearError, HearNothing, Refresh, vars

\* Each attempt deducts at most once, and the used days of every account are
\* those of the deductions that were applied, each as often as it was.
THEOREM AttemptsDeductOnce == Spec => []DeductedPerAttempt
<1>1. Init => Booked
    <2> SUFFICES ASSUME Init, NEW a \in HcmAccounts
                 PROVE  used[a] = SumFunction(Charged(a))
        BY DEF Booked
    <2>1. Charged(a) \in [Deductions -> Int]
        BY InitIInv, ChargedTypes DEF IInv
    <2>2. \A d \in Deductions : Charged(a)[d] = 0
        <3> SUFFICES ASSUME NEW d \in Deductions PROVE 0 * DaysOf[d] = 0
            BY DEF Charged, Init
        <3>1. DaysOf[d] \in Int
            BY DaysOfAssumption
        <3> QED
            BY <3>1
    <2>3. SumFunction(Charged(a)) = 0
        BY <2>1, <2>2, DeductionsAssumption, SumZero
    <2> QED
        BY <2>3 DEF Init
<1>2. IInv /\ IInv' /\ Booked /\ [Next]_vars => Booked'
    BY NextBooks
<1>3. IInv /\ Booked => DeductedPerAttempt
    BY DEF IInv, Counted, Pending, Booked, Charged, DeductedPerAttempt
<1>4. Spec => []Booked
    BY InductiveInvariant, <1>1, <1>2, PTL DEF Spec
<1> QED
    BY InductiveInvariant, <1>3, <1>4, PTL

-----------------------------------------------------------------------------
(* HcmClient implements HcmDeduction.                                      *)

\* The call and the outcome that HcmDeduction sees.
CallSeen == [d \in Deductions |-> IF pc[d] = "idle" THEN [days |-> 0] ELSE RequestOf(d)]
OutcomeSeen == [d \in Deductions |-> OutcomeOf(pc[d])]

\* What happens at one deduction does not show at the others.
LEMMA SeenAt ==
    ASSUME IInv, NEW d \in Deductions, NEW place, pc' = [pc EXCEPT ![d] = place]
    PROVE  /\ OutcomeSeen' = [OutcomeSeen EXCEPT ![d] = OutcomeOf(place)]
           /\ place # "idle" => CallSeen' = [CallSeen EXCEPT ![d] = RequestOf(d)]
           /\ place # "idle" /\ pc[d] # "idle" => CallSeen' = CallSeen
BY DEF IInv, Types, OutcomeSeen, CallSeen

LEMMA InitRefines == Init => Deduction!Init
BY DEF Init, Deduction!Init, Deduction!NoCall, OutcomeOf

\* The first attempt is the call; a later one is invisible.
LEMMA PostRefines ==
    ASSUME IInv, NEW d \in Deductions, Post(d)
    PROVE  [Deduction!Next]_(Deduction!vars)
<1>1. /\ OutcomeSeen' = [OutcomeSeen EXCEPT ![d] = "asked"]
      /\ CallSeen' = [CallSeen EXCEPT ![d] = RequestOf(d)]
      /\ pc[d] # "idle" => CallSeen' = CallSeen
      /\ UNCHANGED <<applied, used, total>>
    <2>1. OutcomeOf("waiting") = "asked"
        BY DEF OutcomeOf
    <2>2. pc' = [pc EXCEPT ![d] = "waiting"] /\ UNCHANGED <<applied, used, total>>
        BY DEF Post
    <2> QED
        BY <2>1, <2>2, SeenAt
<1>2. CASE pc[d] = "idle"
    <2>1. OutcomeSeen[d] = "none"
        BY <1>2 DEF OutcomeSeen, OutcomeOf
    <2>2. Deduction!Ask(d, RequestOf(d))
        BY <1>1, <2>1 DEF Deduction!Ask, OutcomeSeen, CallSeen
    <2> QED
        BY <2>2 DEF Deduction!Next
<1>3. CASE pc[d] = "backoff"
    <2>1. OutcomeSeen[d] = "asked" /\ DOMAIN OutcomeSeen = Deductions
        BY <1>3 DEF OutcomeSeen, OutcomeOf
    <2>2. OutcomeSeen' = OutcomeSeen /\ CallSeen' = CallSeen
        BY <1>1, <1>3, <2>1 DEF OutcomeSeen
    <2> QED
        BY <1>1, <2>2 DEF Deduction!vars, OutcomeSeen, CallSeen
<1> QED
    BY <1>2, <1>3 DEF Post

\* A success confirms, an error or silence that is final fails.
LEMMA MovesRefine ==
    ASSUME IInv, NEW d \in Deductions, NEW place \in {"backoff", "confirmed", "failed"},
           Moves(d, place), place = "confirmed" => answer[d] = "ok"
    PROVE  [Deduction!Next]_(Deduction!vars)
<1>1. /\ OutcomeSeen' = [OutcomeSeen EXCEPT ![d] = OutcomeOf(place)]
      /\ CallSeen' = CallSeen
      /\ UNCHANGED <<applied, used, total>>
    BY SeenAt DEF Moves
<1>2. OutcomeSeen[d] = "asked" /\ DOMAIN OutcomeSeen = Deductions
    BY DEF Moves, OutcomeSeen, OutcomeOf
<1>3. CASE place = "backoff"
    <2>1. OutcomeSeen' = OutcomeSeen
        BY <1>1, <1>2, <1>3 DEF OutcomeOf, OutcomeSeen
    <2> QED
        BY <1>1, <2>1 DEF Deduction!vars, OutcomeSeen, CallSeen
<1>4. CASE place = "confirmed"
    <2>1. applied[d] > 0
        BY <1>4 DEF IInv, Types, Honest
    <2>2. Deduction!Confirm(d)
        BY <1>1, <1>2, <1>4, <2>1 DEF Deduction!Confirm, OutcomeOf, OutcomeSeen, CallSeen
    <2> QED
        BY <2>2 DEF Deduction!Next
<1>5. CASE place = "failed"
    <2>1. Deduction!Fail(d)
        BY <1>1, <1>2, <1>5 DEF Deduction!Fail, OutcomeOf, OutcomeSeen, CallSeen
    <2> QED
        BY <2>1 DEF Deduction!Next
<1> QED
    BY <1>3, <1>4, <1>5

\* A deduction of the server is an application, which the counting allows.
LEMMA DeductsRefines ==
    ASSUME IInv, NEW d \in Deductions, NEW n \in 1..maxRetries + 1, ServerDeducts(d, n)
    PROVE  Deduction!Apply(d)
<1> USE MaxRetriesAssumption
<1>1. <<d, n>> \in processing /\ processing' = processing \ {<<d, n>>}
    BY DEF ServerDeducts, Respond
<1>2. n <= attempt[d] /\ applied[d] + 1 + Cardinality(Pending(d)') <= attempt[d]
    BY <1>1, Handled
<1>3. IsFiniteSet(Pending(d)') /\ Cardinality(Pending(d)') \in Nat
    <2> DEFINE left == Pending(d)'
    <2>1. left \in SUBSET (1..maxRetries + 1)
        BY DEF Pending
    <2>2. IsFiniteSet(1..maxRetries + 1)
        BY FS_Interval
    <2> HIDE DEF left
    <2>3. IsFiniteSet(left) /\ Cardinality(left) \in Nat
        BY <2>1, <2>2, FS_Subset, FS_CardinalityType
    <2> QED
        BY <2>3 DEF left
<1>4. attempt[d] \in 0..maxRetries + 1 /\ applied[d] \in Nat
    BY DEF IInv, Types
<1>5. applied[d] < maxRetries + 1
    BY <1>2, <1>3, <1>4
<1>6. pc[d] # "idle" /\ pc[d] \in {"waiting", "backoff", "confirmed", "failed"}
    BY <1>2, <1>4 DEF IInv, Types, Counted
<1>7. OutcomeSeen[d] # "none" /\ CallSeen[d] = RequestOf(d)
    BY <1>6 DEF OutcomeSeen, OutcomeOf, CallSeen
<1>8. /\ AccountOf[d] \in HcmAccounts
      /\ total[AccountOf[d]] - used[AccountOf[d]] >= DaysOf[d]
    BY DEF ServerDeducts, Deductible
<1>9. CallSeen[d].account = AccountOf[d] /\ CallSeen[d].days = DaysOf[d]
    BY <1>7 DEF RequestOf
<1> QED
    BY <1>5, <1>7, <1>8, <1>9 DEF Deduction!Apply, ServerDeducts, OutcomeSeen, CallSeen

LEMMA NextRefines == IInv /\ [Next]_vars => [Deduction!Next]_(Deduction!vars)
<1> SUFFICES ASSUME IInv, [Next]_vars PROVE [Deduction!Next]_(Deduction!vars)
    OBVIOUS
<1>1. ASSUME NEW d \in Deductions, Client(d)
      PROVE  [Deduction!Next]_(Deduction!vars)
    <2>1. CASE Post(d)
        BY <2>1, PostRefines
    <2>2. CASE Succeed(d) \/ HearError(d) \/ HearNothing(d)
        BY <2>2, ClientMoves, MovesRefine
    <2> QED
        BY <1>1, <2>1, <2>2 DEF Client
<1>2. CASE Server
    <2>1. PICK d \in Deductions, n \in 1..maxRetries + 1 :
            ServerFails(d, n) \/ ServerRefuses(d, n) \/ ServerDeducts(d, n)
        BY <1>2 DEF Server, IInv, Types, Attempts
    <2>2. CASE ServerFails(d, n) \/ ServerRefuses(d, n)
        BY <2>2 DEF ServerFails, ServerRefuses, Deduction!vars
    <2>3. CASE ServerDeducts(d, n)
        BY <2>3, DeductsRefines DEF Deduction!Next
    <2> QED
        BY <2>1, <2>2, <2>3
<1>3. ASSUME NEW a \in HcmAccounts, NEW bonus \in Bonuses, Refresh(a, bonus)
      PROVE  [Deduction!Next]_(Deduction!vars)
    <2>1. Deduction!Refresh(a, bonus)
        BY <1>3 DEF Refresh, Deduction!Refresh
    <2> QED
        BY <2>1 DEF Deduction!Next
<1>4. CASE UNCHANGED vars
    BY <1>4 DEF vars, Deduction!vars
<1> QED
    BY <1>1, <1>2, <1>3, <1>4 DEF Next

\* Client, network and HCM together keep what HcmDeduction promises the
\* callers of deductBalance.
THEOREM Refinement == Spec => DeductionRefinement
BY InductiveInvariant, InitRefines, NextRefines, PTL DEF Spec, DeductionRefinement, Deduction!Spec
=============================================================================
