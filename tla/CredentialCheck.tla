--------------------------- MODULE CredentialCheck ---------------------------
(***************************************************************************)
(* POST /api/validate-credentials: the choice of a grant, the token grant  *)
(* and the identity request, each an ExternalCall, and the HTTP answer     *)
(* _translate makes of what came of them.  The other external calls of the *)
(* services, which are nobody's part of a check, are "lone" here.          *)
(***************************************************************************)
EXTENDS ExternalCall

VARIABLES stage,    \* of the check, see Stages
          reply,    \* the response judged last
          answer    \* what the caller of the API was told

checkVars == <<stage, reply, answer>>

Stages == {"lone", "checking", "token", "identity", "answered"}

NoReply == [status |-> NoStatus]

NoAnswer == [status |-> NoStatus, retryable |-> FALSE]

(* A response that is returned: 200 with an object that has or lacks what  *)
(* was asked for or with a list, or an error that may name one of          *)
(* _AUTH_INVALID_CODES.                                                    *)
Reply == [status : {200}, body : {"complete", "lacking", "list"}] \cup
         [status : Statuses \ RetryableStatusCodes, blames : BOOLEAN]

(* The credentials: the grant they name, whether there is a private key    *)
(* (theirs or the configured one), and whether the rest is complete and    *)
(* well-formed for the grant that is taken.                                *)
Credentials == [grant : {"password", "jwt", "other"}, key : BOOLEAN, complete : BOOLEAN]

-----------------------------------------------------------------------------
(* Exceptions, by class and by their `retryable': True, False or None.     *)

Raised(kind) ==
  [kind |-> kind,
   retryable |-> IF kind \in {"server", "timeout"} THEN "yes"
                 ELSE IF kind \in {"api", "authentication"} THEN "unset" ELSE "no"]

(* The class classify_http_error picks. *)
HttpError(status) ==
  Raised(CASE status \in 500..599 \cup {429} -> "server"
           [] status = 404 -> "not_found"
           [] status = 403 -> "forbidden"
           [] status = 401 -> "unauthorized"
           [] status = 400 -> "request"
           [] OTHER -> "api")

(* A bug: what Salesforce does not know is not found here either. *)
PassesNotFoundOn == [credentials |-> 401, unauthorized |-> 401, forbidden |-> 403,
                     request |-> 400, timeout |-> 504, not_found |-> 404]

(* A bug: SalesforceAuthenticationError counts as invalid credentials. *)
BlamesCredentials == [credentials |-> 401, unauthorized |-> 401, forbidden |-> 403,
                      request |-> 400, timeout |-> 504, authentication |-> 401]

(* The classes _translate gives a status of their own. *)
StatusOf == [credentials |-> 401, unauthorized |-> 401, forbidden |-> 403,
             request |-> 400, timeout |-> 504]

Translate(err) ==
  [status |-> IF err.kind \in DOMAIN StatusOf THEN StatusOf[err.kind]
              ELSE IF err.kind \in {"server", "authentication"} /\ err.retryable = "yes"
              THEN 502 ELSE 500,
   retryable |-> err.retryable = "yes"]

(* get_access_token: a private key is preferred to the grant named; what   *)
(* is refused here is refused without a call.                              *)
Refusal(c) ==
  IF c.key \/ c.grant = "jwt"
  THEN IF c.key /\ c.complete THEN "none" ELSE "credentials"
  ELSE IF c.grant = "password" THEN IF c.complete THEN "none" ELSE "credentials"
  ELSE "request"

(* The end of _do_token_grant, for a response that is no success.  A list  *)
(* has no `get': the AttributeError is nobody's but the route's.           *)
GrantError(r) ==
  IF r.status = 200 THEN Raised(IF r.body = "list" THEN "unexpected" ELSE "authentication")
  ELSE IF r.blames \/ r.status \in {400, 401}
  THEN Raised(IF r.status = 403 THEN "forbidden" ELSE "credentials")
  ELSE HttpError(r.status)

(* The end of _fetch_identity, which takes any object for an identity.     *)
IdentityError(r) == HttpError(r.status)

(* A bug: transport errors keep the default `retryable'. *)
LosesHint(s, f) ==
  CASE f.source = "http" -> HttpError(f.status)
    [] f.source = "raw timeout" -> Raised("timeout")
    [] f.source \in {"raw protocol", "raw transport"} ->
         Raised(IF s = "token" THEN "authentication" ELSE "api")
    [] OTHER -> Raised("unexpected")

(* Their except clauses, for what retry_call raises. *)
CallError(s, f) ==
  CASE f.source = "http" -> HttpError(f.status)
    [] f.source = "raw timeout" -> Raised("timeout")
    [] f.source \in {"raw protocol", "raw transport"} ->
         [kind |-> IF s = "token" THEN "authentication" ELSE "api", retryable |-> "yes"]
    [] OTHER -> Raised("unexpected")

-----------------------------------------------------------------------------

CheckTypeOK ==
  /\ stage \in Stages
  /\ reply \in Reply \cup {NoReply}
  /\ answer \in [status : {NoStatus, 200, 400, 401, 403, 500, 502, 504},
                 retryable : BOOLEAN]
  /\ stage \in {"token", "identity"} => op = stage

CheckInit ==
  /\ Init
  /\ \/ stage = "lone"
     \/ stage = "checking" /\ op = "token"
  /\ reply = NoReply
  /\ answer = NoAnswer

(* A step of the call at hand. *)
CallStep ==
  /\ stage \in {"lone", "token", "identity"}
  /\ Next
  /\ UNCHANGED checkVars

Answer(a) ==
  /\ stage' = "answered"
  /\ answer' = a

(* validate_credentials begins: refused, or on to the token grant. *)
Check(c) ==
  /\ stage = "checking"
  /\ IF Refusal(c) = "none" THEN stage' = "token" /\ UNCHANGED answer
     ELSE Answer(Translate(Raised(Refusal(c))))
  /\ UNCHANGED <<vars, reply>>

(* A bug: the second call goes on with the counters of the first. *)
CountsOn(r) ==
  /\ stage = "token" /\ phase = "returned"
  /\ reply' = r
  /\ IF r.status = 200 /\ r.body = "complete"
     THEN /\ stage' = "identity" /\ op' = "identity" /\ phase' = "calling"
          /\ UNCHANGED <<attempt, calls, failure, letter, stored, answer>>
     ELSE Answer(Translate(GrantError(r))) /\ UNCHANGED vars

(* The token grant returned a response: a token is taken to the identity   *)
(* request, a call with counters of its own.                               *)
JudgeGrant(r) ==
  /\ stage = "token" /\ phase = "returned"
  /\ reply' = r
  /\ IF r.status = 200 /\ r.body = "complete"
     THEN /\ stage' = "identity" /\ op' = "identity" /\ phase' = "calling"
          /\ attempt' = 0 /\ calls' = 0 /\ failure' = NoFailure
          /\ UNCHANGED <<letter, stored, answer>>
     ELSE Answer(Translate(GrantError(r))) /\ UNCHANGED vars

JudgeIdentity(r) ==
  /\ stage = "identity" /\ phase = "returned"
  /\ reply' = r
  /\ Answer(IF r.status = 200 /\ r.body # "list"
            THEN [status |-> 200, retryable |-> FALSE]
            ELSE Translate(IdentityError(r)))
  /\ UNCHANGED vars

(* The call at hand raised.  A cancelled handler answers nothing.          *)
AnswerFailure ==
  /\ stage \in {"token", "identity"} /\ phase = "settled"
  /\ Answer(IF failure.source = "cancelled" THEN NoAnswer
            ELSE Translate(CallError(stage, failure)))
  /\ UNCHANGED <<vars, reply>>

Answered == stage = "answered" /\ UNCHANGED <<vars, checkVars>>

CheckNext ==
  \/ CallStep
  \/ \E c \in Credentials : Check(c)
  \/ \E r \in Reply : JudgeGrant(r) \/ JudgeIdentity(r)
  \/ AnswerFailure
  \/ Answered

CheckSpec == CheckInit /\ [][CheckNext]_<<vars, checkVars>>

-----------------------------------------------------------------------------

(* The last response was a refusal: its status says so, or at the token    *)
(* grant its error code.                                                   *)
Refused ==
  /\ reply # NoReply /\ reply.status # 200
  /\ reply.status \in {400, 401, 403} \/ (op = "token" /\ reply.blames)

(* Whoever asks is only blamed (400, 401, 403) for a request that was      *)
(* refused before any call or by Salesforce's own answer: no outage, slow  *)
(* answer, broken connection or garbled success at either of the two calls *)
(* is taken for bad credentials, however many attempts came before it.     *)
NoBlameForOutage ==
  answer.status \in 400..499 => phase # "settled" /\ (calls = 0 \/ Refused)

(* The caller is told to retry whenever the service itself would have, had *)
(* it attempts left, 408 apart, which the classification leaves to the     *)
(* status; and never to retry what was refused before a call or by one.    *)
RetryHintHolds ==
  stage = "answered" =>
    /\ phase = "settled" /\ IsRetryable(failure) /\ failure.status # 408 => answer.retryable
    /\ answer.retryable => calls > 0 /\ (phase = "settled" \/ ~Refused)

=============================================================================
