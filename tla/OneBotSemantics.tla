-------------------------- MODULE OneBotSemantics --------------------------
(***************************************************************************)
(* How an answer of the OneBot bridge is read: the classification of       *)
(* src/pipeline/onebot-semantics.ts, the policy classes of a failed send   *)
(* in src/pipeline/cooldown.ts, and the choice of a media source in        *)
(* src/pipeline/onebot-media.ts.  All of it is pure.                       *)
(*                                                                         *)
(* A wording is the set of WORDING_PATTERNS it matches.                    *)
(***************************************************************************)
EXTENDS Integers, Sequences

Dialect == {"napcat", "snowluma", "generic"}

\* WORDING_PATTERNS in their order, the most specific first.
Patterns == <<"muted", "rate_limit", "risk_control", "missing_target", "permission", "temporary">>

Class == {Patterns[n] : n \in DOMAIN Patterns} \cup {"other"}

Kind == {"business", "rejected", "bad_request", "unauthorized", "unknown_action",
         "payload_too_large", "internal", "transport", "unknown"}

ClassifyWording(wording) ==
  IF \E n \in DOMAIN Patterns : Patterns[n] \in wording
  THEN Patterns[CHOOSE n \in DOMAIN Patterns :
                  /\ Patterns[n] \in wording
                  /\ \A j \in 1 .. n - 1 : Patterns[j] \notin wording]
  ELSE "other"

\* AXES and BUSINESS_AXES: may the payload be sent again now, or later?
Retryable(kind, class) ==
  IF kind = "business" THEN class \in {"temporary", "other"}
                       ELSE kind \in {"internal", "transport", "unknown"}

Redrivable(kind, class) ==
  IF kind = "business" THEN class \notin {"missing_target", "permission"}
                       ELSE kind \in {"rejected", "internal", "transport", "unknown"}

\* `answered': the error's text names an HTTP status.
Failure(kind, class, answered) ==
  [kind |-> kind, class |-> class, answered |-> answered,
   retryable |-> Retryable(kind, class), redrivable |-> Redrivable(kind, class)]

-----------------------------------------------------------------------------
(* A response body: [status, retcode, refused, wording], where NoCode is a *)
(* missing retcode and `refused' the result = 120 of NapCat's EventChecker.*)

NoCode == -1

Succeeds(body) == body.status \in {"", "ok"} /\ body.retcode \in {NoCode, 0}

KindOf(body) ==
  CASE body.retcode = 200 \/ body.refused -> "rejected"
    [] OTHER -> CASE body.retcode = 1200 -> "internal"
                  [] body.retcode = 1400 -> "bad_request"
                  [] body.retcode = 1401 -> "unauthorized"
                  [] body.retcode = 1404 -> "unknown_action"
                  [] body.retcode = 1413 -> "payload_too_large"
                  [] body.retcode = NoCode -> "unknown"
                  [] OTHER -> "business"

ClassOf(kind, wording) == IF kind = "business" THEN ClassifyWording(wording) ELSE "other"

ClassifyResponse(body) ==
  Failure(KindOf(body), ClassOf(KindOf(body), body.wording), FALSE)

HttpKind(status) ==
  CASE status \in {401, 403} -> "unauthorized"
    [] status = 404 -> "unknown_action"
    [] status = 413 -> "payload_too_large"
    [] status = 429 -> "business"
    [] status >= 500 -> "internal"
    [] OTHER -> "unknown"

\* call() throws with a message that names the status.
ClassifyHttp(status) == Failure(HttpKind(status), "other", status \in 400 .. 599)

\* A request without a response: fetch threw, or the body was no JSON.
Transport == Failure("transport", "other", FALSE)

\* isPossiblyDeliveredTransportError.  call() has wrapped what fetch threw,
\* and with the wrapping went its `code': a refused connection looks like a timeout.
PossiblyDelivered(failure) == ~failure.answered

-----------------------------------------------------------------------------
(* classifyQqSendFailure and its tables.                                   *)

SendClass(failure) ==
  CASE failure.kind = "transport" -> "transient"
    [] failure.kind = "unknown" -> "other"
    [] failure.kind = "business" /\ failure.class = "temporary" -> "transient"
    [] failure.kind = "business" /\ failure.class # "temporary" -> failure.class
    [] OTHER -> failure.kind

RetryNow(class) == class \in {"timeout", "transient", "internal", "other"}

\* QQ_SEND_COOLDOWN_MS: the classes that wait longer than the circuit's own ladder.
Cools(class) ==
  class \in {"muted", "risk_control", "rejected", "rate_limit", "missing_target", "permission"}

-----------------------------------------------------------------------------
(* Which source a medium is sent from.  input: [mode, type, small,         *)
(* urlBase, fallback], capabilities: those of the dialect.                 *)

DetectDialect(name) == IF name \in {"snowluma", "napcat"} THEN name ELSE "generic"

StreamUpload(dialect) == dialect # "generic"

AutoSource(input, dialect) ==
  CASE dialect = "snowluma" /\ input.urlBase -> "url"
    [] dialect = "snowluma" /\ ~input.urlBase /\ input.type = "photo" /\ input.small -> "inline"
    [] OTHER -> IF dialect = "snowluma" /\ StreamUpload(dialect) THEN "stream"
                ELSE IF input.fallback THEN "file" ELSE "error"

\* decideMediaSource; a forced mode never falls back, "error" is a throw.
MediaSource(input, dialect) ==
  CASE input.mode = "auto" -> AutoSource(input, dialect)
    [] input.mode = "url" -> IF input.urlBase THEN "url" ELSE "error"
    [] input.mode = "base64" -> "inline"
    [] OTHER -> input.mode

=============================================================================
