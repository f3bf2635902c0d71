---------------------------- MODULE ErrorMapping ----------------------------
(***************************************************************************)
(* errors.go as operators: how an HTTP response becomes a *paystack.Error. *)
(*                                                                         *)
(* A response is a record with at least                                    *)
(*   status  the status code                                               *)
(*   ctype   "json" | "html" | "none": what Content-Type says              *)
(*   body    what the bytes are; "html" is a body that starts, after       *)
(*           blanks, with an HTML doctype or an <html tag                  *)
(***************************************************************************)
EXTENDS Integers

CONSTANTS
  DurationBits,     \* width of time.Duration and of int (64 in the program)
  TicksPerSecond    \* time.Second (10^9 in the program)

ASSUME DurationAssumption ==
  /\ DurationBits \in Nat \ {0}
  /\ TicksPerSecond \in Nat \ {0}
  /\ TicksPerSecond < 2^(DurationBits - 1)

ErrorCodes ==
  {"invalid_key", "invalid_request", "not_found", "rate_limited", "server_error"}

Success(status) == status \in 200..299

\* Seeded fault: the switch has no default, and yields the zero ErrorCode.
codeForStatus_NoDefault(status) ==
  CASE status \in {401, 403} -> "invalid_key"
    [] status = 404          -> "not_found"
    [] status = 429          -> "rate_limited"
    [] status \in 400..499 \ {401, 403, 404, 429} -> "invalid_request"
    [] OTHER                 -> ""

codeForStatus(status) ==
  CASE status \in {401, 403} -> "invalid_key"
    [] status = 404          -> "not_found"
    [] status = 429          -> "rate_limited"
    [] status \in 400..499 \ {401, 403, 404, 429} -> "invalid_request"
    [] OTHER                 -> "server_error"

\* Seeded fault: only the body is looked at.
isHTML_BodyOnly(ctype, body) == body = "html"

isHTML(ctype, body) == ctype = "html" \/ body = "html"

\* The Code of the *Error that ParseError builds.
errorCode(resp) ==
  IF isHTML(resp.ctype, resp.body) THEN "server_error" ELSE codeForStatus(resp.status)

-----------------------------------------------------------------------------
(***************************************************************************)
(* Retry-After.  A header is [form, n]: form "absent"; "secs" with a       *)
(* decimal integer n; "date" with the date n ticks after now (n < 0: in    *)
(* the past), as far as a Duration reaches: time.Until saturates; or       *)
(* "junk".  The product in the code is int64 arithmetic.                   *)
(***************************************************************************)
Half == 2^(DurationBits - 1)

Wrap(x) == ((x + Half) % (2 * Half)) - Half

MaxInt == Half - 1

\* strconv.Atoi succeeds only inside the range of int.
atoiOK(n) == n \in (-MaxInt - 1)..MaxInt

\* Seeded fault: a date in the past is not clamped to zero.
parseRetryAfter_NoClamp(header) ==
  CASE header.form = "secs" /\ atoiOK(header.n) /\ header.n >= 0 -> Wrap(header.n * TicksPerSecond)
    [] header.form = "date" -> header.n
    [] OTHER -> 0

parseRetryAfter(header) ==
  CASE header.form = "secs" /\ atoiOK(header.n) /\ header.n >= 0 -> Wrap(header.n * TicksPerSecond)
    [] header.form = "date" /\ header.n >= 0 -> header.n
    [] OTHER -> 0

-----------------------------------------------------------------------------
(***************************************************************************)
(* The errors member of the envelope: [form, fields].  form is "map" for a *)
(* JSON object, whose members are the function fields from names to the    *)
(* kind of their value, and "other" for anything else (absent, null, an    *)
(* array, a scalar).  decodeFields first tries map[string]string, which    *)
(* accepts strings and null (as ""), then map[string]interface{}, whose    *)
(* values it prints with %v.                                               *)
(***************************************************************************)
NoFields == [f \in {} |-> ""]

AsString(kind) == IF kind = "null" THEN "" ELSE kind
AsAny(kind)    == IF kind = "null" THEN "<nil>" ELSE kind

\* Seeded fault: no second attempt when a value is not a string.
decodeFields_StringsOnly(raw) ==
  IF raw.form # "map" \/ \E f \in DOMAIN raw.fields : raw.fields[f] \notin {"string", "null"}
  THEN NoFields
  ELSE [f \in DOMAIN raw.fields |-> AsString(raw.fields[f])]

decodeFields(raw) ==
  IF raw.form # "map" \/ DOMAIN raw.fields = {}
  THEN NoFields
  ELSE IF \A f \in DOMAIN raw.fields : raw.fields[f] \in {"string", "null"}
       THEN [f \in DOMAIN raw.fields |-> AsString(raw.fields[f])]
       ELSE [f \in DOMAIN raw.fields |-> AsAny(raw.fields[f])]

\* Seeded fault: Retry-After is read before the HTML branch returns.
ParseError_RetryFirst(resp) ==
  LET err == [code |-> codeForStatus(resp.status), statusCode |-> resp.status,
              message |-> "statusText", fields |-> NoFields,
              retryAfter |-> IF resp.status = 429 THEN parseRetryAfter(resp.retryAfter) ELSE 0]
  IN  IF isHTML(resp.ctype, resp.body)
      THEN [err EXCEPT !.code = "server_error", !.message = "html"]
      ELSE IF resp.body \in {"ok", "declined"}
           THEN [err EXCEPT !.message = "envelope", !.fields = decodeFields(resp.errors)]
           ELSE err

(***************************************************************************)
(* ParseError.  The HTML branch returns early, before Retry-After is read. *)
(* The envelopes "ok" and "declined" have a message; of any other body,    *)
(* "bare" JSON included, the status text is reported, and no field.        *)
(***************************************************************************)
ParseError(resp) ==
  LET err == [code |-> codeForStatus(resp.status), statusCode |-> resp.status,
              message |-> "statusText", fields |-> NoFields, retryAfter |-> 0]
      limited == [err EXCEPT !.retryAfter =
                    IF resp.status = 429 THEN parseRetryAfter(resp.retryAfter) ELSE 0]
  IN  IF isHTML(resp.ctype, resp.body)
      THEN [err EXCEPT !.code = "server_error", !.message = "html"]
      ELSE IF resp.body \in {"ok", "declined"}
           THEN [limited EXCEPT !.message = "envelope", !.fields = decodeFields(resp.errors)]
           ELSE limited
=============================================================================
