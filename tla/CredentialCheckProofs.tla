----------------------- MODULE CredentialCheckProofs -----------------------
(***************************************************************************)
(* The answers of POST /api/validate-credentials, for any number of        *)
(* retries and any set of statuses.  IInv, the invariant of a single call, *)
(* carries over to the two calls of a check; Course adds how far the check *)
(* is, and what the answer was made from.                                  *)
(***************************************************************************)
EXTENDS CredentialCheck, ExternalCallProofs

(* What a call that was given up has failed with. *)
Reason ==
  /\ phase \in {"returned"} \cup GivenUp => calls > 0
  /\ phase \in GivenUp => failure \in Failure /\ CanFailWith(op, failure)

Course ==
  /\ stage # "answered" => answer = NoAnswer
  /\ stage = "checking" => op = "token" /\ phase = "calling" /\ calls = 0

CInv ==
  /\ IInv
  /\ CheckTypeOK
  /\ Reason
  /\ Course
  /\ NoBlameForOutage
  /\ RetryHintHolds

-----------------------------------------------------------------------------
(* Exceptions and the answers they become *)

Kinds == {"server", "timeout", "not_found", "forbidden", "unauthorized",
          "request", "api", "credentials", "authentication", "unexpected"}

Hints == {"yes", "no", "unset"}

Err == [kind : Kinds, retryable : Hints]

AnswerType == [status : {NoStatus, 200, 400, 401, 403, 500, 502, 504},
               retryable : BOOLEAN]

LEMMA RaisedType ==
  ASSUME NEW k \in Kinds
  PROVE  /\ Raised(k) \in Err
         /\ Raised(k).kind = k
         /\ Raised(k).retryable = "yes" <=> k \in {"server", "timeout"}
BY DEF Raised, Err, Hints

(* _translate: only refused credentials and requests get a 4xx status.     *)
LEMMA TranslateBlames ==
  ASSUME NEW e \in Err
  PROVE  /\ Translate(e) \in AnswerType
         /\ Translate(e).retryable <=> e.retryable = "yes"
         /\ Translate(e).status \in 400..499 =>
              e.kind \in {"credentials", "unauthorized", "forbidden", "request"}
<1> DEFINE n == Translate(e).status
<1>1. /\ n \in {400, 401, 403, 500, 502, 504}
      /\ n \in {400, 401, 403} =>
           e.kind \in {"credentials", "unauthorized", "forbidden", "request"}
  <2>1. CASE e.kind \in DOMAIN StatusOf
    BY <2>1 DEF Translate, StatusOf
  <2>2. CASE e.kind \notin DOMAIN StatusOf
    <3>1. n \in {500, 502}
      BY <2>2 DEF Translate
    <3>2. QED
      BY <3>1
  <2>3. QED
    BY <2>1, <2>2
<1>2. Translate(e) = [status |-> n, retryable |-> e.retryable = "yes"]
  BY DEF Translate
<1> HIDE DEF n
<1>3. Translate(e).retryable <=> e.retryable = "yes"
  BY DEF Translate
<1>4. Translate(e) \in AnswerType
  BY <1>1, <1>2 DEF AnswerType
<1>5. QED
  BY <1>1, <1>3, <1>4 DEF n

(* classify_http_error: what is retryable, and what blames the caller.     *)
LEMMA HttpErrorKind ==
  ASSUME NEW n \in Int
  PROVE  /\ HttpError(n) \in Err
         /\ HttpError(n).retryable = "yes" <=> n \in 500..599 \cup {429}
         /\ HttpError(n).kind \in {"unauthorized", "forbidden", "request"} =>
              n \in {400, 401, 403}
         /\ HttpError(n).kind # "credentials"
<1> DEFINE k == CASE n \in 500..599 \cup {429} -> "server"
                  [] n = 404 -> "not_found"
                  [] n = 403 -> "forbidden"
                  [] n = 401 -> "unauthorized"
                  [] n = 400 -> "request"
                  [] OTHER -> "api"
<1>1. /\ n \in 500..599 \cup {429} => k = "server"
      /\ n = 404 => k = "not_found"
      /\ n = 403 => k = "forbidden"
      /\ n = 401 => k = "unauthorized"
      /\ n = 400 => k = "request"
      /\ n \notin 500..599 \cup {429, 400, 401, 403, 404} => k = "api"
  OBVIOUS
<1>2. HttpError(n) = Raised(k)
  BY Zenon DEF HttpError
<1> HIDE DEF k
<1>3. k \in Kinds
  BY <1>1 DEF Kinds
<1>4. QED
  BY <1>1, <1>2, <1>3, RaisedType

(* The except clauses of the two calls: a failure never blames the caller, *)
(* and keeps the hint that it may be tried again, 408 apart.               *)
LEMMA CallErrorKind ==
  ASSUME NEW s \in {"token", "identity"}, NEW f \in Failure, CanFailWith(s, f)
  PROVE  /\ CallError(s, f) \in Err
         /\ CallError(s, f).kind \notin {"credentials", "unauthorized", "forbidden", "request"}
         /\ IsRetryable(f) /\ f.status # 408 => CallError(s, f).retryable = "yes"
<1>1. f.source \notin {"os", "timeout", "transport"}
  <2>1. CASE s = "token"
    BY <2>1 DEF CanFailWith, Sources
  <2>2. CASE s = "identity"
    BY <2>2 DEF CanFailWith, Sources
  <2>3. QED
    BY <2>1, <2>2
<1>2. CASE f.source = "http"
  <2>1. f.status \in RetryableStatusCodes
    BY <1>2 DEF CanFailWith
  <2>2. CallError(s, f) = HttpError(f.status)
    BY <1>2 DEF CallError
  <2>3. QED
    BY <2>1, <2>2, HttpErrorKind DEF RetryableStatusCodes, Err, Kinds
<1>3. CASE f.source = "raw timeout"
  BY <1>3 DEF CallError, Raised, Err, Kinds, Hints
<1>4. CASE f.source \in {"raw protocol", "raw transport"}
  BY <1>4 DEF CallError, Raised, Err, Kinds, Hints
<1>5. CASE f.source \notin {"http", "raw timeout", "raw protocol", "raw transport"}
  <2>1. CallError(s, f) = Raised("unexpected")
    BY <1>5 DEF CallError
  <2>2. ~IsRetryable(f)
    BY <1>1, <1>5 DEF IsRetryable, Attribute
  <2>3. QED
    BY <2>1, <2>2, RaisedType DEF Kinds
<1>6. QED
  BY <1>2, <1>3, <1>4, <1>5

LEMMA ReplyStatus ==
  ASSUME NEW r \in Reply
  PROVE  r.status \in Int
<1>1. CASE r \in [status : {200}, body : {"complete", "lacking", "list"}]
  BY <1>1
<1>2. CASE r \in [status : Statuses \ RetryableStatusCodes, blames : BOOLEAN]
  <2>1. r.status \in Statuses
    BY <1>2
  <2>2. \A n \in Statuses : n \in Int
    BY CallAssumption
  <2>3. QED
    BY <2>1, <2>2
<1>3. QED
  BY <1>1, <1>2 DEF Reply

(* What _do_token_grant makes of an answer that is no success.             *)
LEMMA GrantErrorKind ==
  ASSUME NEW r \in Reply
  PROVE  /\ GrantError(r) \in Err
         /\ GrantError(r).kind \in {"credentials", "unauthorized", "forbidden", "request"} =>
              r.status # 200 /\ (r.blames \/ r.status \in {400, 401, 403})
         /\ r.status # 200 /\ (r.blames \/ r.status \in {400, 401, 403}) =>
              GrantError(r).retryable # "yes"
<1>1. CASE r.status = 200
  BY <1>1 DEF GrantError, Raised, Err, Kinds, Hints
<1>2. CASE r.status # 200 /\ (r.blames \/ r.status \in {400, 401})
  BY <1>2 DEF GrantError, Raised, Err, Kinds, Hints
<1>3. CASE r.status # 200 /\ ~(r.blames \/ r.status \in {400, 401})
  <2>1. GrantError(r) = HttpError(r.status)
    BY <1>3 DEF GrantError
  <2>2. r.status \in Int
    BY ReplyStatus
  <2>3. QED
    BY <1>3, <2>1, <2>2, HttpErrorKind
<1>4. QED
  BY <1>1, <1>2, <1>3
(* What _fetch_identity makes of an answer: its status alone decides.      *)
LEMMA IdentityErrorKind ==
  ASSUME NEW r \in Reply
  PROVE  /\ IdentityError(r) \in Err
         /\ IdentityError(r).kind \in {"credentials", "unauthorized", "forbidden", "request"} =>
              r.status \in {400, 401, 403}
         /\ r.status \in {400, 401, 403} => IdentityError(r).retryable # "yes"
BY ReplyStatus, HttpErrorKind DEF IdentityError

-----------------------------------------------------------------------------
(* The calls of a check *)

(* A step of the call at hand keeps its own invariant, its operation, and  *)
(* what is known of its failure.                                           *)
LEMMA CallKeeps ==
  ASSUME IInv, Reason, Next
  PROVE  /\ IInv'
         /\ Reason'
         /\ op' = op
<1> USE CallAssumption DEF IInv, TypeOK, Progress, Phases, GivenUp, Reason
<1>1. CASE Succeed
  BY <1>1 DEF Succeed
<1>2. CASE \E f \in Failure : Fail(f)
  <2>1. PICK f \in Failure : Fail(f)
    BY <1>2
  <2>2. IInv'
    BY <2>1, FailKeeps
  <2>3. failure' = f /\ CanFailWith(op, f) /\ op' = op /\ calls' > 0
    BY <2>1 DEF Fail
  <2>4. CanFailWith(op', failure')
    BY <2>3
  <2>5. phase' \in {"sleeping", "raised"}
    BY <2>1 DEF Fail
  <2>6. QED
    BY <2>2, <2>3, <2>4, <2>5 DEF CanFailWith
<1>3. CASE Retry
  BY <1>3 DEF Retry
<1>4. CASE CancelSleep
  <2>1. failure' \in Failure /\ failure'.source = "cancelled"
    BY <1>4 DEF CancelSleep, Failure, NoStatus
  <2>2. /\ phase' = "raised" /\ op' = op
        /\ "cancelled" \in Sources[op]
        /\ calls' = attempt + 1
    BY <1>4 DEF CancelSleep
  <2>3. CanFailWith(op', failure')
    BY <2>1, <2>2 DEF CanFailWith
  <2>4. QED
    BY <1>4, <2>1, <2>2, <2>3, CancelSleepKeeps
<1>5. CASE Settle
  BY <1>5, SettleKeeps DEF Settle, CanFailWith
<1>6. CASE Done
  BY <1>6 DEF Done, vars, DeadLetters, IsRetryable, Attribute, CanFailWith
<1>7. QED
  BY <1>1, <1>2, <1>3, <1>4, <1>5, <1>6 DEF Next
(* The judgement of an answer: an answer of 4xx comes of a response that   *)
(* refused, and one that may be tried again does not.                      *)
LEMMA JudgedFairly ==
  ASSUME NEW r \in Reply, NEW e \in Err, NEW o \in Operations,
         e.kind \in {"credentials", "unauthorized", "forbidden", "request"} =>
           r.status # 200 /\ (r.status \in {400, 401, 403} \/ (o = "token" /\ r.blames)),
         r.status # 200 /\ (r.status \in {400, 401, 403} \/ (o = "token" /\ r.blames)) =>
           e.retryable # "yes",
         IInv, Reason, op' = o, phase' = "returned", phase = "returned", calls' = calls,
         reply' = r, stage' = "answered", answer' = Translate(e)
  PROVE  (NoBlameForOutage /\ RetryHintHolds)'
<1>1. calls > 0 /\ calls \in Nat
  BY CallAssumption DEF Reason, IInv, TypeOK
<1>2. reply' # NoReply
  BY ReplyStatus, CallAssumption DEF Reply, NoReply, NoStatus
<1>3. Refused' <=> r.status # 200 /\ (r.status \in {400, 401, 403} \/ (o = "token" /\ r.blames))
  BY <1>2 DEF Refused
<1>4. NoBlameForOutage'
  BY <1>3, TranslateBlames DEF NoBlameForOutage
<1>5. RetryHintHolds'
  BY <1>1, <1>3, TranslateBlames DEF RetryHintHolds
<1>6. QED
  BY <1>4, <1>5
(* The properties of an answer do not look at anything an idle step moves. *)
LEMMA AnswerStays ==
  ASSUME CInv, UNCHANGED <<vars, checkVars>>
  PROVE  CInv'
<1> USE DEF vars, checkVars
<1>1. IInv'
  <2>1. TypeOK' /\ (DeadLetters' <=> DeadLetters) /\ (IsRetryable(failure)' <=> IsRetryable(failure))
    BY DEF CInv, IInv, TypeOK, DeadLetters, IsRetryable, Attribute
  <2>2. QED
    BY <2>1 DEF CInv, IInv, Progress
<1>2. CheckTypeOK' /\ Reason' /\ Course'
  BY DEF CInv, CheckTypeOK, Reason, Course, CanFailWith
<1>3. NoBlameForOutage' /\ RetryHintHolds'
  <2>1. (IsRetryable(failure)' <=> IsRetryable(failure)) /\ (Refused' <=> Refused)
    BY DEF IsRetryable, Attribute, Refused
  <2>2. QED
    BY <2>1 DEF CInv, NoBlameForOutage, RetryHintHolds
<1>4. QED
  BY <1>1, <1>2, <1>3 DEF CInv

LEMMA CallStepKeeps ==
  ASSUME CInv, CallStep
  PROVE  CInv'
<1>1. IInv' /\ Reason' /\ op' = op
  BY CallKeeps DEF CInv, CallStep
<1>2. /\ stage' = stage /\ reply' = reply /\ answer' = answer
      /\ stage \in {"lone", "token", "identity"}
      /\ answer = NoAnswer
  BY DEF CInv, CallStep, checkVars, Course
<1>3. CheckTypeOK' /\ Course'
  BY <1>1, <1>2 DEF CInv, CheckTypeOK, Course
<1>4. NoBlameForOutage' /\ RetryHintHolds'
  BY <1>2 DEF NoBlameForOutage, RetryHintHolds, NoAnswer, NoStatus
<1>5. QED
  BY <1>1, <1>3, <1>4 DEF CInv

(* What is refused at once is refused without a call. *)
LEMMA CheckKeeps ==
  ASSUME CInv, NEW c \in Credentials, Check(c)
  PROVE  CInv'
<1>1. /\ op = "token" /\ phase = "calling" /\ calls = 0
      /\ UNCHANGED <<vars, reply>>
  BY DEF CInv, Check, Course
<1>2. IInv' /\ Reason'
  BY <1>1 DEF CInv, IInv, TypeOK, Progress, DeadLetters, IsRetryable, Attribute, Reason,
              CanFailWith, GivenUp, vars
<1>3. CASE Refusal(c) = "none"
  <2>1. stage' = "token" /\ answer' = NoAnswer
    BY <1>3 DEF Check, CInv, Course
  <2>2. CheckTypeOK' /\ Course'
    BY <1>1, <2>1 DEF CInv, CheckTypeOK, Course, Stages, vars, NoAnswer
  <2>3. NoBlameForOutage' /\ RetryHintHolds'
    BY <2>1 DEF NoBlameForOutage, RetryHintHolds, NoAnswer, NoStatus
  <2>4. QED
    BY <1>2, <2>2, <2>3 DEF CInv
<1>4. CASE Refusal(c) # "none"
  <2>1. Refusal(c) \in {"credentials", "request"}
    BY <1>4 DEF Refusal
  <2>2. Raised(Refusal(c)) \in Err /\ Raised(Refusal(c)).retryable # "yes"
    BY <2>1, RaisedType DEF Kinds
  <2>3. stage' = "answered" /\ answer' = Translate(Raised(Refusal(c)))
    BY <1>4 DEF Check, Answer
  <2>4. answer' \in AnswerType /\ ~answer'.retryable
    BY <2>2, <2>3, TranslateBlames
  <2>5. CheckTypeOK' /\ Course'
    BY <1>1, <2>3, <2>4 DEF CInv, CheckTypeOK, Course, Stages, vars, AnswerType
  <2>6. phase' = "calling" /\ calls' = 0
    BY <1>1 DEF vars
  <2>7. NoBlameForOutage' /\ RetryHintHolds'
    BY <2>3, <2>4, <2>6 DEF NoBlameForOutage, RetryHintHolds
  <2>8. QED
    BY <1>2, <2>5, <2>7 DEF CInv
<1>5. QED
  BY <1>3, <1>4

LEMMA JudgeGrantKeeps ==
  ASSUME CInv, NEW r \in Reply, JudgeGrant(r)
  PROVE  CInv'
<1>1. op = "token" /\ stage = "token" /\ phase = "returned" /\ reply' = r
  BY DEF CInv, CheckTypeOK, JudgeGrant
<1>2. CASE r.status = 200 /\ r.body = "complete"
  <2>1. /\ stage' = "identity" /\ op' = "identity" /\ phase' = "calling"
        /\ attempt' = 0 /\ calls' = 0 /\ failure' = NoFailure
        /\ UNCHANGED <<letter, stored, answer>>
    BY <1>2 DEF JudgeGrant
  <2>2. IInv' /\ Reason'
    BY <1>1, <2>1, CallAssumption
       DEF CInv, IInv, TypeOK, Progress, Reason, GivenUp, Phases, Operations, Sources
  <2>3. answer' = NoAnswer
    BY <1>1, <2>1 DEF CInv, Course
  <2>4. CheckTypeOK' /\ Course'
    BY <1>1, <2>1, <2>3 DEF CInv, CheckTypeOK, Course, Stages
  <2>5. NoBlameForOutage' /\ RetryHintHolds'
    BY <2>1, <2>3 DEF NoBlameForOutage, RetryHintHolds, NoAnswer, NoStatus
  <2>6. QED
    BY <2>2, <2>4, <2>5 DEF CInv
<1>3. CASE ~(r.status = 200 /\ r.body = "complete")
  <2> DEFINE e == GrantError(r)
  <2>1. stage' = "answered" /\ answer' = Translate(e) /\ UNCHANGED vars
    BY <1>3 DEF JudgeGrant, Answer
  <2>2. e \in Err
    BY GrantErrorKind
  <2>3. IInv' /\ Reason'
    BY <1>1, <2>1 DEF CInv, IInv, TypeOK, Progress, DeadLetters, IsRetryable, Attribute, Reason,
                CanFailWith, GivenUp, vars
  <2>4. answer' \in AnswerType
    BY <2>1, <2>2, TranslateBlames
  <2>5. CheckTypeOK' /\ Course'
    BY <1>1, <2>1, <2>4 DEF CInv, CheckTypeOK, Course, Stages, AnswerType
  <2>6. NoBlameForOutage' /\ RetryHintHolds'
    <3>1. op \in Operations /\ op' = op /\ phase' = "returned" /\ calls' = calls
      BY <1>1, <2>1 DEF CInv, IInv, TypeOK, vars
    <3>2. IInv /\ Reason
      BY DEF CInv
    <3>3. /\ e.kind \in {"credentials", "unauthorized", "forbidden", "request"} =>
                r.status # 200 /\ (r.status \in {400, 401, 403} \/ (op = "token" /\ r.blames))
          /\ r.status # 200 /\ (r.status \in {400, 401, 403} \/ (op = "token" /\ r.blames)) =>
                e.retryable # "yes"
      BY <1>1, GrantErrorKind
    <3> HIDE DEF e
    <3>4. QED
      BY <1>1, <2>1, <2>2, <3>1, <3>2, <3>3, JudgedFairly
  <2>7. QED
    BY <2>3, <2>5, <2>6 DEF CInv
<1>4. QED
  BY <1>2, <1>3

LEMMA JudgeIdentityKeeps ==
  ASSUME CInv, NEW r \in Reply, JudgeIdentity(r)
  PROVE  CInv'
<1>1. /\ op = "identity" /\ stage = "identity" /\ phase = "returned" /\ reply' = r
      /\ stage' = "answered" /\ UNCHANGED vars
  BY DEF CInv, CheckTypeOK, JudgeIdentity, Answer
<1>2. IInv' /\ Reason'
  BY <1>1 DEF CInv, IInv, TypeOK, Progress, DeadLetters, IsRetryable, Attribute, Reason,
              CanFailWith, GivenUp, vars
<1>3. CASE r.status = 200 /\ r.body # "list"
  <2>1. answer' = [status |-> 200, retryable |-> FALSE]
    BY <1>3 DEF JudgeIdentity, Answer
  <2>2. CheckTypeOK' /\ Course'
    BY <1>1, <2>1 DEF CInv, CheckTypeOK, Course, Stages
  <2>3. phase' = "returned"
    BY <1>1 DEF vars
  <2>4. NoBlameForOutage' /\ RetryHintHolds'
    BY <2>1, <2>3 DEF NoBlameForOutage, RetryHintHolds
  <2>5. QED
    BY <1>2, <2>2, <2>4 DEF CInv
<1>4. CASE ~(r.status = 200 /\ r.body # "list")
  <2> DEFINE e == IdentityError(r)
  <2>1. answer' = Translate(e)
    BY <1>4 DEF JudgeIdentity, Answer
  <2>2. e \in Err
    BY IdentityErrorKind
  <2>3. answer' \in AnswerType
    BY <2>1, <2>2, TranslateBlames
  <2>4. CheckTypeOK' /\ Course'
    BY <1>1, <2>3 DEF CInv, CheckTypeOK, Course, Stages, AnswerType
  <2>5. NoBlameForOutage' /\ RetryHintHolds'
    <3>1. op \in Operations /\ op' = op /\ phase' = "returned" /\ calls' = calls
      BY <1>1 DEF CInv, IInv, TypeOK, vars
    <3>2. IInv /\ Reason
      BY DEF CInv
    <3>3. /\ e.kind \in {"credentials", "unauthorized", "forbidden", "request"} =>
                r.status # 200 /\ (r.status \in {400, 401, 403} \/ (op = "token" /\ r.blames))
          /\ r.status # 200 /\ (r.status \in {400, 401, 403} \/ (op = "token" /\ r.blames)) =>
                e.retryable # "yes"
      BY <1>1, IdentityErrorKind
    <3> HIDE DEF e
    <3>4. QED
      BY <1>1, <2>1, <2>2, <3>1, <3>2, <3>3, JudgedFairly
  <2>6. QED
    BY <1>2, <2>4, <2>5 DEF CInv
<1>5. QED
  BY <1>3, <1>4

LEMMA AnswerFailureKeeps ==
  ASSUME CInv, AnswerFailure
  PROVE  CInv'
<1>1. /\ stage \in {"token", "identity"} /\ op = stage /\ phase = "settled"
      /\ stage' = "answered" /\ UNCHANGED <<vars, reply>>
  BY DEF CInv, CheckTypeOK, AnswerFailure, Answer
<1>2. IInv' /\ Reason'
  BY <1>1 DEF CInv, IInv, TypeOK, Progress, DeadLetters, IsRetryable, Attribute, Reason,
              CanFailWith, GivenUp, vars
<1>3. failure \in Failure /\ CanFailWith(stage, failure) /\ calls > 0
  BY <1>1 DEF CInv, Reason, GivenUp
<1>4. /\ phase' = "settled" /\ failure' = failure /\ calls' > 0
      /\ IsRetryable(failure)' <=> IsRetryable(failure)
  BY <1>1, <1>3 DEF vars, IsRetryable, Attribute
<1>5. CASE failure.source = "cancelled"
  <2>1. answer' = NoAnswer
    BY <1>5 DEF AnswerFailure, Answer
  <2>2. CheckTypeOK' /\ Course'
    BY <1>1, <2>1 DEF CInv, CheckTypeOK, Course, Stages, NoAnswer
  <2>3. ~IsRetryable(failure)
    BY <1>5 DEF IsRetryable, Attribute
  <2>4. NoBlameForOutage' /\ RetryHintHolds'
    BY <1>4, <2>1, <2>3 DEF NoBlameForOutage, RetryHintHolds, NoAnswer, NoStatus
  <2>5. QED
    BY <1>2, <2>2, <2>4 DEF CInv
<1>6. CASE failure.source # "cancelled"
  <2> DEFINE e == CallError(stage, failure)
  <2>1. answer' = Translate(e)
    BY <1>6 DEF AnswerFailure, Answer
  <2>2. /\ e \in Err
        /\ e.kind \notin {"credentials", "unauthorized", "forbidden", "request"}
        /\ IsRetryable(failure) /\ failure.status # 408 => e.retryable = "yes"
    BY <1>1, <1>3, CallErrorKind
  <2> HIDE DEF e
  <2>3. /\ answer' \in AnswerType /\ answer'.status \notin 400..499
        /\ answer'.retryable <=> e.retryable = "yes"
    BY <2>1, <2>2, TranslateBlames
  <2>4. CheckTypeOK' /\ Course'
    BY <1>1, <2>3 DEF CInv, CheckTypeOK, Course, Stages, AnswerType
  <2>5. NoBlameForOutage' /\ RetryHintHolds'
    BY <1>4, <2>2, <2>3 DEF NoBlameForOutage, RetryHintHolds
  <2>6. QED
    BY <1>2, <2>4, <2>5 DEF CInv
<1>7. QED
  BY <1>5, <1>6

LEMMA CheckInvariance == CheckSpec => []CInv
<1>1. ASSUME CheckInit PROVE CInv
  <2>1. IInv
    <3>1. letter = -1 /\ phase = "calling" /\ calls = attempt /\ attempt = 0
      BY <1>1 DEF CheckInit, Init
    <3>2. op \in Operations /\ failure \in Failure \cup {NoFailure} /\ stored \in BOOLEAN
      BY <1>1 DEF CheckInit, Init
    <3>3. QED
      BY <3>1, <3>2, CallAssumption DEF IInv, TypeOK, Progress, Phases, GivenUp
  <2>2. Reason /\ Course
    BY <1>1 DEF CheckInit, Init, Reason, Course, GivenUp
  <2>3. CheckTypeOK
    BY <1>1 DEF CheckInit, CheckTypeOK, Stages, NoAnswer
  <2>4. NoBlameForOutage /\ RetryHintHolds
    BY <1>1 DEF CheckInit, NoBlameForOutage, RetryHintHolds, NoAnswer, NoStatus
  <2>5. QED
    BY <2>1, <2>2, <2>3, <2>4 DEF CInv
<1>2. CInv /\ [CheckNext]_<<vars, checkVars>> => CInv'
  <2>1. SUFFICES ASSUME CInv, [CheckNext]_<<vars, checkVars>> PROVE CInv'
    OBVIOUS
  <2>2. CASE CallStep
    BY <2>1, <2>2, CallStepKeeps
  <2>3. CASE \E c \in Credentials : Check(c)
    BY <2>1, <2>3, CheckKeeps
  <2>4. CASE \E r \in Reply : JudgeGrant(r)
    BY <2>1, <2>4, JudgeGrantKeeps
  <2>5. CASE \E r \in Reply : JudgeIdentity(r)
    BY <2>1, <2>5, JudgeIdentityKeeps
  <2>6. CASE AnswerFailure
    BY <2>1, <2>6, AnswerFailureKeeps
  <2>7. CASE UNCHANGED <<vars, checkVars>>
    BY <2>1, <2>7, AnswerStays
  <2>8. QED
    BY <2>1, <2>2, <2>3, <2>4, <2>5, <2>6, <2>7 DEF CheckNext, Answered
<1>3. QED
  BY <1>1, <1>2, PTL DEF CheckSpec

(* Both calls of a check keep their counters in range, each for itself.    *)
THEOREM CheckTypeCorrect == CheckSpec => [](TypeOK /\ CheckTypeOK)
<1>1. CInv => TypeOK /\ CheckTypeOK
  BY DEF CInv, IInv
<1>2. QED
  BY <1>1, CheckInvariance, PTL

(* Nobody is told that the credentials are wrong on account of an outage,  *)
(* for any number of retries and any set of statuses.                      *)
THEOREM OutageBlamesNobody == CheckSpec => []NoBlameForOutage
<1>1. CInv => NoBlameForOutage
  BY DEF CInv
<1>2. QED
  BY <1>1, CheckInvariance, PTL

(* The hint to retry follows the service's own classification.             *)
THEOREM RetryHintCorrect == CheckSpec => []RetryHintHolds
<1>1. CInv => RetryHintHolds
  BY DEF CInv
<1>2. QED
  BY <1>1, CheckInvariance, PTL
=============================================================================
