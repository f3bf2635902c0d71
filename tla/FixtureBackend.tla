--------------------------- MODULE FixtureBackend ---------------------------
(***************************************************************************)
(* internal/testutil/backend.go: FixtureBackend, the test double that      *)
(* serves a file as if it were Paystack's response, as operators; and, to  *)
(* compare, what HTTPBackend.Call tells about a response.                  *)
(*                                                                         *)
(* A fixture is                                                            *)
(*   name     "" none, "json" or "html" by its extension, "missing" for a  *)
(*            file that cannot be read                                     *)
(*   body     what the file contains, and errors, its errors member        *)
(*   status   Status, 0 when the test left it out                          *)
(*   ctype    Header's Content-Type, "unset" when the test gives none      *)
(*   retryAfter   Header's Retry-After                                     *)
(***************************************************************************)
EXTENDS CallResult

FixtureNames == {"", "json", "html", "missing"}

NoError == [code |-> "none", statusCode |-> 0, message |-> "none",
            fields |-> NoFields, retryAfter |-> 0]

\* What a backend's Call returns, and the *Error when ParseError built it.
Answer(result, err) == [result |-> result, err |-> err]

\* HTTPBackend.Call for the response s.
HTTPCall(out, s) ==
  Answer(outcome(out, s), IF s.status >= 400 THEN ParseError(s) ELSE NoError)

guessContentType(name) == IF name = "html" THEN "html" ELSE "json"

\* Seeded fault: the test's own headers are not copied.
buildResponse_NoHeader(f) ==
  [status |-> IF f.status = 0 THEN 200 ELSE f.status,
   ctype |-> guessContentType(f.name), body |-> f.body,
   retryAfter |-> [form |-> "absent", n |-> 0], errors |-> f.errors]

\* No file is an empty body; no limit cuts a long one.
buildResponse(f) ==
  [status |-> IF f.status = 0 THEN 200 ELSE f.status,
   ctype  |-> IF f.ctype = "unset" THEN guessContentType(f.name) ELSE f.ctype,
   body   |-> CASE f.name = ""     -> "garbage"
                [] f.name # "" /\ f.body = "huge" -> "ok"
                [] OTHER           -> f.body,
   retryAfter |-> f.retryAfter, errors |-> f.errors]

\* Seeded fault: the body is decoded before the nil out is looked at.
FixtureCall_DecodesFirst(out, f) ==
  LET s == buildResponse(f)
  IN  CASE f.name = "missing" -> Answer(Raw, NoError)
        [] f.name # "missing" /\ s.status >= 400 ->
             Answer(Result("Error", errorCode(s)), ParseError(s))
        [] f.name # "missing" /\ s.status < 400 /\ decodes(s) -> Answer(Nil, NoError)
        [] OTHER -> Answer(Raw, NoError)

\* FixtureBackend.Call; there is no check for HTML, and the error of
\* json.Unmarshal is returned as it is.
FixtureCall(out, f) ==
  LET s == buildResponse(f)
  IN  CASE f.name = "missing" -> Answer(Raw, NoError)
        [] f.name # "missing" /\ s.status >= 400 ->
             Answer(Result("Error", errorCode(s)), ParseError(s))
        [] f.name # "missing" /\ s.status < 400 /\ (~out \/ decodes(s)) -> Answer(Nil, NoError)
        [] OTHER -> Answer(Raw, NoError)
=============================================================================
