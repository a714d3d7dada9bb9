------------------------- MODULE ExternalCallProofs -------------------------
(***************************************************************************)
(* The retry budget and the dead-letter rows, for any number of retries    *)
(* and any set of statuses.                                                *)
(***************************************************************************)
EXTENDS ExternalCall, TLAPS

(* How far the call is, and what its counters say by then.                 *)
Progress ==
  /\ phase = "calling" => calls = attempt
  /\ phase = "sleeping" => calls = attempt + 1 /\ attempt < MaxRetries
  /\ phase \in GivenUp /\ IsRetryable(failure) => calls = MaxRetries + 1
  /\ phase # "settled" => letter = -1
  /\ phase = "settled" => (letter # -1 <=> DeadLetters)

IInv == TypeOK /\ Progress

(* What the Bulk API callers record, retry_call had to give up on.         *)
LEMMA RecordedIsRetryable ==
  ASSUME DeadLetters, op # "minio"
  PROVE  IsRetryable(failure)
BY DEF DeadLetters, IsRetryable

(* The classification only depends on the failure. *)
LEMMA SameClass ==
  ASSUME NEW f, failure' = f
  PROVE  IsRetryable(failure)' <=> IsRetryable(f)
BY DEF IsRetryable, Attribute

LEMMA FailKeeps ==
  ASSUME IInv, NEW f \in Failure, Fail(f)
  PROVE  IInv'
<1> USE CallAssumption DEF IInv, TypeOK, Progress, Phases, GivenUp, Fail
<1>1. calls = attempt /\ calls' = attempt + 1 /\ letter' = -1
  OBVIOUS
<1>2. CASE IsRetryable(f) /\ attempt < MaxRetries
  <2>1. TypeOK'
    BY <1>1, <1>2
  <2>2. Progress'
    BY <1>1, <1>2
  <2>3. QED
    BY <2>1, <2>2
<1>3. CASE ~(IsRetryable(f) /\ attempt < MaxRetries)
  <2>1. TypeOK'
    BY <1>1, <1>3
  <2>2. IsRetryable(failure)' => attempt = MaxRetries
    BY <1>3, SameClass
  <2>3. Progress'
    BY <1>1, <1>3, <2>2
  <2>4. QED
    BY <2>1, <2>3
<1>4. QED
  BY <1>2, <1>3

LEMMA CancelSleepKeeps ==
  ASSUME IInv, CancelSleep
  PROVE  IInv'
<1> USE CallAssumption DEF IInv, TypeOK, Progress, Phases, GivenUp, CancelSleep
<1>1. failure' \in Failure
  BY DEF Failure, NoStatus
<1>2. ~IsRetryable(failure)'
  BY DEF IsRetryable, Attribute
<1>3. QED
  BY <1>1, <1>2

LEMMA SettleKeeps ==
  ASSUME IInv, Settle
  PROVE  IInv'
<1> USE CallAssumption DEF IInv, TypeOK, Progress, Phases, GivenUp, Settle
<1>1. DeadLetters' <=> DeadLetters
  BY DEF DeadLetters, Attribute
<1>2. IsRetryable(failure)' <=> IsRetryable(failure)
  BY DEF IsRetryable, Attribute
<1>3. QED
  BY <1>1, <1>2

LEMMA Invariance == Spec => []IInv
<1> USE CallAssumption DEF Phases, GivenUp
<1>1. ASSUME Init PROVE IInv
  <2>1. letter = -1 /\ phase = "calling" /\ calls = attempt /\ attempt = 0
    BY <1>1 DEF Init
  <2>2. op \in Operations /\ failure \in Failure \cup {NoFailure}
    BY <1>1 DEF Init
  <2>3. stored \in BOOLEAN
    BY <1>1 DEF Init
  <2>4. QED
    BY <2>1, <2>2, <2>3 DEF IInv, TypeOK, Progress
<1>2. IInv /\ [Next]_vars => IInv'
  <2>1. SUFFICES ASSUME IInv, [Next]_vars PROVE IInv'
    OBVIOUS
  <2>2. CASE Succeed
    BY <2>1, <2>2 DEF Succeed, IInv, TypeOK, Progress
  <2>3. CASE \E f \in Failure : Fail(f)
    BY <2>1, <2>3, FailKeeps
  <2>4. CASE Retry
    BY <2>1, <2>4 DEF Retry, IInv, TypeOK, Progress
  <2>5. CASE CancelSleep
    BY <2>1, <2>5, CancelSleepKeeps
  <2>6. CASE Settle
    BY <2>1, <2>6, SettleKeeps
  <2>7. CASE UNCHANGED vars
    BY <2>1, <2>7 DEF vars, IInv, TypeOK, Progress, DeadLetters, IsRetryable, Attribute
  <2>8. QED
    BY <2>1, <2>2, <2>3, <2>4, <2>5, <2>6, <2>7 DEF Next, Done
<1>3. QED
  BY <1>1, <1>2, PTL DEF Spec

(* The counters stay in their ranges, for any MaxRetries. *)
THEOREM CallTypeCorrect == Spec => []TypeOK
<1>1. IInv => TypeOK
  BY DEF IInv
<1>2. QED
  BY <1>1, Invariance, PTL

(* A retryable failure is raised only after MaxRetries + 1 attempts.       *)
THEOREM BudgetSpent == Spec => []GivesUpOnlyWhenSpent
<1>1. IInv => GivesUpOnlyWhenSpent
  BY DEF IInv, Progress, GivesUpOnlyWhenSpent
<1>2. QED
  BY <1>1, Invariance, PTL

(* The attempts a Salesforce dead letter claims are the attempts made.     *)
THEOREM LettersCount == Spec => []LetterCountsCalls
<1>1. IInv => LetterCountsCalls
  BY CallAssumption, RecordedIsRetryable DEF IInv, TypeOK, Progress, GivenUp, LetterCountsCalls
<1>2. QED
  BY <1>1, Invariance, PTL

=============================================================================
