--------------------------- MODULE ErrorReporting ---------------------------
(***************************************************************************)
(* What a caller learns from a response, when HTTPBackend meets it and     *)
(* when a test replays it from a file through FixtureBackend.              *)
(***************************************************************************)
EXTENDS FixtureBackend, FiniteSets

CONSTANTS
  Statuses,     \* status codes
  Headers,      \* Retry-After headers
  Errors        \* errors members of the envelope

ASSUME InputsAssumption ==
  /\ Statuses \subseteq Nat \ {0}
  /\ \A h \in Headers :
       /\ h.form \in {"absent", "secs", "date", "junk"} /\ h.n \in Int
       /\ h.form = "date" => h.n <= MaxInt
  /\ \A e \in Errors : e.form \in {"map", "other"}

Received ==
  {s \in [status : Statuses, ctype : {"json", "html", "none"}, body : Bodies \ {"endless"},
          retryAfter : Headers, errors : Errors] : Receivable(s)}

\* The files a test may keep of the response s, and how it may serve them:
\* under any name, with the Content-Type of s or none of its own.
Recordings(s) ==
  [name : FixtureNames, body : {s.body}, errors : {s.errors},
   status : {s.status} \cup (IF s.status = 200 THEN {0} ELSE {}),
   ctype : {"unset"} \cup ({s.ctype} \ {"none"}), retryAfter : {s.retryAfter}]

VARIABLES
  resp,     \* the response
  fixture,  \* the recording of it that the test uses
  out,      \* is there an out to decode into
  answer,   \* what HTTPBackend.Call returns
  double    \* what FixtureBackend.Call returns

vars == <<resp, fixture, out, answer, double>>

NotAsked == Answer(Pending, NoError)

Init ==
  /\ resp \in Received
  /\ fixture \in Recordings(resp)
  /\ out \in BOOLEAN
  /\ answer = NotAsked
  /\ double = NotAsked

\* HTTPBackend has read the body.
Report ==
  /\ answer = NotAsked
  /\ answer' = HTTPCall(out, resp)
  /\ UNCHANGED <<resp, fixture, out, double>>

\* The test calls the same method on the fixture.
Replay ==
  /\ double = NotAsked
  /\ double' = FixtureCall(out, fixture)
  /\ UNCHANGED <<resp, fixture, out, answer>>

Done == answer # NotAsked /\ double # NotAsked

Next == Report \/ Replay \/ (Done /\ UNCHANGED vars)

Spec == Init /\ [][Next]_vars

err == answer.err

\* The type of what the two backends return; a wait fits a Duration.
TypeOK ==
  /\ resp \in Received
  /\ answer.result \in Results /\ double.result \in Results
  /\ err = NoError \/ (err.code \in ErrorCodes /\ err.statusCode = resp.status)
  /\ err.retryAfter \in (-MaxInt - 1)..MaxInt

(***************************************************************************)
(* A wait and a code that calls for it come together: whoever sleeps       *)
(* RetryAfter under ErrCodeRateLimited (README.md lines 119-121) misses no *)
(* wait, and no other error carries one (errors.go lines 63-71).           *)
(***************************************************************************)
WaitOnlyWhenLimited == err.retryAfter # 0 => err.code = "rate_limited"

(***************************************************************************)
(* RetryAfter is the wait the header asks for: the seconds, as long as     *)
(* their product fits; the time left until a date, and nothing when that   *)
(* is past; nothing when there is no wait to read (errors.go 111-126).  So *)
(* whatever is coded as rate limited, an HTML page too, must not come with *)
(* another wait (lines 63-71).                                             *)
(***************************************************************************)
Seconds(h) == IF h.form = "secs" /\ h.n >= 0 THEN h.n * TicksPerSecond ELSE 0

Wait(h) == IF h.form = "date" /\ h.n > 0 THEN h.n ELSE Seconds(h)

WaitIsExact ==
  err.code = "rate_limited" /\ Seconds(resp.retryAfter) <= MaxInt => err.retryAfter = Wait(resp.retryAfter)

(***************************************************************************)
(* Every field Paystack complains about is reported, with its message when *)
(* that is a string, whatever the other values are (errors.go 128-145), in *)
(* every failure whose envelope has a message: without one the fields are  *)
(* lost (line 74).                                                         *)
(***************************************************************************)
Envelope == resp.body \in {"ok", "declined"} /\ resp.ctype # "html"

FieldsComplete ==
  err # NoError /\ Envelope /\ resp.errors.form = "map" =>
    /\ DOMAIN err.fields = DOMAIN resp.errors.fields
    /\ \A f \in DOMAIN err.fields :
         resp.errors.fields[f] = "string" => err.fields[f] = "string"

(***************************************************************************)
(* A failure replayed from a file is the *Error that HTTPBackend builds,   *)
(* with its code, wait and fields (testutil/backend.go lines 110-112):     *)
(* when the file can be read, is not longer than HTTPBackend would read,   *)
(* and its extension says what its Content-Type said.                      *)
(***************************************************************************)
Loaded == fixture.name \in {"json", "html"} /\ resp.body # "huge"

SaysItsType == fixture.ctype = "unset" => (fixture.name = "html" <=> resp.ctype = "html")

FixtureErrorsMatch ==
  Done /\ resp.status >= 400 /\ Loaded /\ SaysItsType => double = answer

(***************************************************************************)
(* A test passes on the double exactly where the program would succeed: a  *)
(* nil from FixtureBackend is a nil from HTTPBackend and the reverse.  An  *)
(* HTML page with a status under 400 is where they part: the double has no *)
(* check for it (testutil/backend.go lines 133-139, backend.go 90-97).     *)
(***************************************************************************)
FixtureNilAgrees ==
  Done /\ Loaded /\ ~isHTML(resp.ctype, resp.body) =>
    (double.result = Nil <=> answer.result = Nil)

(***************************************************************************)
(* "429 returns ErrCodeRateLimited with correct RetryAfter"                *)
(* (ARCHITECTURE.md line 317), for any number of seconds an int can hold.  *)
(***************************************************************************)
WaitIsCorrect ==
  err.code = "rate_limited" /\ resp.retryAfter.form = "secs" /\ resp.retryAfter.n \in 0..MaxInt =>
    err.retryAfter = Seconds(resp.retryAfter)
=============================================================================
