---------------------------- MODULE ExternalCall ----------------------------
(***************************************************************************)
(* One call to Salesforce or MinIO as the services make it: retry_call (or *)
(* its synchronous twin) around the client, the except clause of the       *)
(* caller that hands a dead letter to write_to_dlq, and the row it leaves. *)
(* What differs from one operation to the next is which failures the       *)
(* client can raise and when the caller writes a letter.                   *)
(***************************************************************************)
EXTENDS Integers

CONSTANTS Statuses,   \* the HTTP error statuses a server may answer with
          MaxRetries  \* EXTERNAL_CALL_MAX_RETRIES

ASSUME CallAssumption ==
  /\ Statuses \subseteq 300..599
  /\ MaxRetries \in Nat

(* What may come out of one attempt.  A Bulk API request wraps the errors  *)
(* of httpx ("timeout", "transport"; an unusable 2xx answer counts as the  *)
(* latter); the body of a result stream and the requests of the OAuth      *)
(* client let them through: "raw timeout" (timeouts, refused connections)  *)
(* and "raw protocol" for the ones is_retryable knows, "raw transport" for *)
(* the others.  "value" is a ValueError, or a URL httpx cannot parse.      *)
(* MinIO's own errors ("service") have no classification.                  *)
(* A result is requested as a stream, and an error answer to it is never   *)
(* classified ("unread"): resp.json() of a body that was not read raises   *)
(* ResponseNotRead, a RuntimeError, past the except ValueError.            *)
NoStatus == 0

Failure == [source : {"http", "unread"}, status : Statuses] \cup
           [source : {"timeout", "transport", "raw timeout", "raw protocol",
                      "raw transport", "os", "value", "service", "cancelled"},
            status : {NoStatus}]

NoFailure == [source |-> "none", status |-> NoStatus]

Sources ==
  [query    |-> {"http", "timeout", "transport", "cancelled"},
   results  |-> {"unread", "timeout", "transport", "raw timeout", "raw protocol",
                 "raw transport", "os", "value", "cancelled"},
   token    |-> {"http", "raw timeout", "raw protocol", "raw transport",
                 "value", "cancelled"},
   identity |-> {"http", "raw timeout", "raw protocol", "raw transport",
                 "value", "cancelled"},
   minio    |-> {"os", "service", "value"}]

Operations == DOMAIN Sources

RetryableStatusCodes == {408, 429, 500, 502, 503, 504}

(* The requests of the OAuth client raise inside the retried function only *)
(* for a status worth a retry; any other answer is returned and judged     *)
(* afterwards.                                                             *)
CanFailWith(o, f) ==
  /\ f.source \in Sources[o]
  /\ o \in {"token", "identity"} /\ f.source = "http" => f.status \in RetryableStatusCodes

-----------------------------------------------------------------------------
(* Classification *)

(* classify_http_error: the `retryable' attribute of the exception.        *)
ClassifyHttpError(status) ==
  IF status \in 500..599 \cup {429} THEN "yes"
  ELSE IF status \in {400, 401, 403, 404} THEN "no"
  ELSE "unset"

(* getattr(exc, "retryable", False): the attribute as the callers see it.  *)
Attribute(f) ==
  CASE f.source = "http" -> ClassifyHttpError(f.status)
    [] f.source \in {"timeout", "transport"} -> "yes"
    [] OTHER -> "no"

(* is_retryable. *)
IsRetryable(f) ==
  \/ Attribute(f) = "yes"
  \/ /\ f.source = "http"
     /\ Attribute(f) = "unset"
     /\ f.status \in RetryableStatusCodes
  \/ f.source \in {"raw timeout", "raw protocol", "os"}

-----------------------------------------------------------------------------

VARIABLES op,       \* the operation
          phase,    \* where the call is, see Phases
          attempt,  \* of retry_call
          calls,    \* attempts that reached the client
          failure,  \* the last failure
          letter,   \* attempts the caller gave write_to_dlq, -1 if not called
          stored    \* failed_external_calls has a row of the call

vars == <<op, phase, attempt, calls, failure, letter, stored>>

(* "raised": retry_call has given up; "settled": its caller has seen to it *)
Phases == {"calling", "sleeping", "returned", "raised", "settled"}

GivenUp == {"raised", "settled"}

TypeOK ==
  /\ op \in Operations
  /\ phase \in Phases
  /\ attempt \in 0..MaxRetries
  /\ calls \in 0..(MaxRetries + 1)
  /\ failure \in Failure \cup {NoFailure}
  /\ letter \in {-1, MaxRetries + 1}
  /\ stored \in BOOLEAN

Init ==
  /\ op \in Operations
  /\ phase = "calling"
  /\ attempt = 0
  /\ calls = 0
  /\ failure = NoFailure
  /\ letter = -1
  /\ stored = FALSE

Succeed ==
  /\ phase = "calling"
  /\ phase' = "returned"
  /\ calls' = calls + 1
  /\ UNCHANGED <<op, attempt, failure, letter, stored>>

(* A bug: one attempt too few. *)
GivesUpEarly(f) ==
  /\ phase = "calling"
  /\ CanFailWith(op, f)
  /\ calls' = calls + 1
  /\ failure' = f
  /\ phase' = IF IsRetryable(f) /\ attempt + 1 < MaxRetries THEN "sleeping" ELSE "raised"
  /\ UNCHANGED <<op, attempt, letter, stored>>

(* An attempt fails: raise at once if the failure is final or the budget   *)
(* is used up, else back off.                                              *)
Fail(f) ==
  /\ phase = "calling"
  /\ CanFailWith(op, f)
  /\ calls' = calls + 1
  /\ failure' = f
  /\ phase' = IF IsRetryable(f) /\ attempt < MaxRetries THEN "sleeping" ELSE "raised"
  /\ UNCHANGED <<op, attempt, letter, stored>>

(* The back-off is over. *)
Retry ==
  /\ phase = "sleeping"
  /\ phase' = "calling"
  /\ attempt' = attempt + 1
  /\ UNCHANGED <<op, calls, failure, letter, stored>>

(* A cancellation during the back-off leaves the loop.                     *)
CancelSleep ==
  /\ phase = "sleeping"
  /\ "cancelled" \in Sources[op]
  /\ phase' = "raised"
  /\ failure' = [source |-> "cancelled", status |-> NoStatus]
  /\ UNCHANGED <<op, attempt, calls, letter, stored>>

(* A bug: every failure but a cancellation is recorded. *)
RecordsAllButFinal ==
  \/ op = "minio"
  \/ op \in {"query", "results"} /\ failure.source # "cancelled"

(* The caller's except clause.  The Bulk API callers record an exception   *)
(* whose attribute says retryable, the uploader records any, and nobody    *)
(* records a request of the OAuth client.  A cancellation is not an        *)
(* Exception, so no clause sees it.                                        *)
DeadLetters ==
  \/ op = "minio"
  \/ op \in {"query", "results"} /\ Attribute(failure) = "yes"

(* What calling a callable returns.  write_to_dlq calls its db_factory     *)
(* once and adds the row to the result.                                    *)
Result == [get_session_factory |-> "sessionmaker", sessionmaker |-> "session"]

DbFactory == "get_session_factory"   \* what every caller passes

(* Only a session has an `add'; the AttributeError of anything else is     *)
(* logged and suppressed.                                                  *)
Persists(factory) == Result[factory] = "session"

Settle ==
  /\ phase = "raised"
  /\ phase' = "settled"
  /\ letter' = IF DeadLetters THEN MaxRetries + 1 ELSE letter
  /\ stored' = (DeadLetters /\ Persists(DbFactory))
  /\ UNCHANGED <<op, attempt, calls, failure>>

(* The call is over. *)
Done ==
  /\ phase \in {"returned", "settled"}
  /\ UNCHANGED vars

Next ==
  \/ Succeed
  \/ \E f \in Failure : Fail(f)
  \/ Retry
  \/ CancelSleep
  \/ Settle
  \/ Done

Spec == Init /\ [][Next]_vars

-----------------------------------------------------------------------------

(* A call is given up on a retryable failure only after exactly            *)
(* MaxRetries + 1 attempts reached the client, whichever failures came     *)
(* before it and in whichever order.                                       *)
GivesUpOnlyWhenSpent ==
  phase \in GivenUp /\ IsRetryable(failure) => calls = MaxRetries + 1

(* The caller puts MaxRetries + 1 into every dead letter without having    *)
(* counted: for Salesforce that is the number of attempts made.            *)
LetterCountsCalls ==
  letter # -1 /\ op # "minio" => letter = calls

-----------------------------------------------------------------------------
(* What the documentation says and the code does not do.                   *)

(* A server that was busy or down is asked again, whatever it was asked    *)
(* for: no call is given up on such an answer before its attempts are      *)
(* spent.                                                                  *)
BusyServerIsRetried ==
  phase \in GivenUp /\ failure.status \in RetryableStatusCodes => calls = MaxRetries + 1

=============================================================================
