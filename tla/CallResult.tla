----------------------------- MODULE CallResult -----------------------------
(***************************************************************************)
(* backend.go: what HTTPBackend.Call returns for a response whose body was *)
(* read, as operators.                                                     *)
(*                                                                         *)
(* A body is "ok", a JSON envelope with status true; "declined", one with  *)
(* status false; "bare", JSON without a message whose status is not true;  *)
(* "garbage", neither JSON nor HTML, an empty body included; "html", an    *)
(* HTML page; "huge", JSON longer than maxResponseBytes; or "endless", a   *)
(* body the server never stops sending.                                    *)
(***************************************************************************)
EXTENDS ErrorMapping

Bodies == {"ok", "declined", "bare", "garbage", "html", "huge", "endless"}

\* External: under these statuses net/http hands over no body, whatever was
\* sent, and ReadAll reads nothing.
Bodiless == {204, 304}

Receivable(s) == s.status \in Bodiless => s.body = "garbage"

\* kind: "none" not yet; "nil"; "Error" a *paystack.Error; "raw" any other
\* error; "panic"; "response" CallRaw's live *http.Response.
Result(kind, code) == [kind |-> kind, code |-> code]
Results ==
  [kind : {"none", "nil", "Error", "raw", "panic", "response"},
   code : ErrorCodes \cup {"none"}]
Pending == Result("none", "none")
Raw     == Result("raw", "none")
Nil     == Result("nil", "none")

\* json.Unmarshal accepts the body that ReadAll returned: the limit cuts a
\* longer document short.
decodes(s) == s.body \in {"ok", "declined", "bare"}

\* Call from line 86 on, with the body that ReadAll returned; out: is there
\* an out to decode into.
outcome(out, s) ==
  CASE s.status >= 400          -> Result("Error", errorCode(s))
    [] s.status < 400 /\ isHTML(s.ctype, s.body) -> Result("Error", "server_error")
    [] s.status < 400 /\ ~isHTML(s.ctype, s.body) /\ ~out -> Nil
    [] s.status < 400 /\ ~isHTML(s.ctype, s.body) /\ out /\ decodes(s) -> Nil
    [] OTHER                    -> Result("Error", "server_error")
=============================================================================
