----------------------- MODULE ErrorReporting_proofs -----------------------
(***************************************************************************)
(* Proofs about module ErrorReporting, for any statuses, headers and       *)
(* errors members.                                                         *)
(***************************************************************************)
EXTENDS ErrorReporting, TLAPS

\* The answers are those of the backends for the response and its recording.
IInv ==
  /\ resp \in Received
  /\ fixture \in Recordings(resp)
  /\ out \in BOOLEAN
  /\ answer \in {NotAsked, HTTPCall(out, resp)}
  /\ double \in {NotAsked, FixtureCall(out, fixture)}

\* Each answer is its backend's for that response, always.
LEMMA IInvHolds == Spec => []IInv
  <1>1. Init => IInv
    BY DEF Init, IInv
  <1>2. IInv /\ [Next]_vars => IInv'
    <2> SUFFICES ASSUME IInv, [Next]_vars PROVE IInv'
      OBVIOUS
    <2> USE DEF IInv
    <2>1. CASE Report
      BY <2>1 DEF Report
    <2>2. CASE Replay
      BY <2>2 DEF Replay
    <2>3. CASE UNCHANGED vars
      BY <2>3 DEF vars
    <2> QED
      BY <2>1, <2>2, <2>3 DEF Next
  <1> QED
    BY <1>1, <1>2, PTL DEF Spec

\* What ParseError reports of a response that is not HTML.
LEMMA ParseErrorCode ==
  ASSUME NEW s \in Received
  PROVE  /\ ParseError(s).code = errorCode(s)
         /\ ParseError(s).statusCode = s.status
         /\ ParseError(s).retryAfter # 0 => s.status = 429 /\ ~isHTML(s.ctype, s.body)
  BY DEF ParseError, errorCode, isHTML

\* The range of time.Duration is what its width says, and holds a second.
LEMMA DurationRange == Half \in Nat \ {0} /\ MaxInt \in Nat /\ TicksPerSecond \in 1..MaxInt
  <1>1. DurationBits - 1 \in Nat
    BY DurationAssumption
  <1>2. Half \in Int
    BY <1>1 DEF Half
  <1>3. TicksPerSecond \in Nat /\ TicksPerSecond # 0 /\ TicksPerSecond < Half
    BY DurationAssumption DEF Half
  <1> QED
    BY <1>2, <1>3 DEF MaxInt

\* int64 arithmetic stays in its range, and is exact inside it.
LEMMA WrapRange ==
  ASSUME NEW x \in Int
  PROVE  /\ Wrap(x) \in (-MaxInt - 1)..MaxInt
         /\ x \in 0..MaxInt => Wrap(x) = x
  <1> DEFINE m == (x + Half) % (2 * Half)
  <1>1. m \in 0..(2 * Half - 1)
    BY DurationRange
  <1>2. Wrap(x) \in (-MaxInt - 1)..MaxInt
    BY <1>1, DurationRange DEF Wrap, MaxInt
  <1>3. ASSUME x \in 0..MaxInt PROVE m = x + Half
    BY <1>3, DurationRange DEF MaxInt
  <1>4. x \in 0..MaxInt => Wrap(x) = x
    BY <1>3, DurationRange DEF Wrap
  <1> QED
    BY <1>2, <1>4

\* A wait that parseRetryAfter returns fits a Duration; it is the one asked
\* for whenever the product does.  strconv.Atoi then accepts the number, too.
LEMMA RetryAfter ==
  ASSUME NEW h \in Headers
  PROVE  /\ parseRetryAfter(h) \in (-MaxInt - 1)..MaxInt
         /\ Seconds(h) <= MaxInt => parseRetryAfter(h) = Wait(h)
  <1>1. /\ h.form \in {"absent", "secs", "date", "junk"} /\ h.n \in Int
        /\ h.form = "date" => h.n <= MaxInt
    BY InputsAssumption
  <1>2. CASE h.form = "secs" /\ h.n >= 0
    <2>1. h.n * TicksPerSecond \in Nat /\ h.n <= h.n * TicksPerSecond
      BY <1>1, <1>2, DurationRange
    <2>2. Wrap(h.n * TicksPerSecond) \in (-MaxInt - 1)..MaxInt
      BY <2>1, WrapRange
    <2>3. parseRetryAfter(h) \in (-MaxInt - 1)..MaxInt
      BY <1>2, <2>2, DurationRange DEF parseRetryAfter
    <2>4. ASSUME h.n * TicksPerSecond <= MaxInt PROVE parseRetryAfter(h) = h.n * TicksPerSecond
      <3>1. atoiOK(h.n)
        BY <1>2, <2>1, <2>4, <1>1, DurationRange DEF atoiOK
      <3>2. h.n * TicksPerSecond \in 0..MaxInt
        BY <2>1, <2>4, DurationRange
      <3>3. Wrap(h.n * TicksPerSecond) = h.n * TicksPerSecond
        BY <2>1, <3>2, WrapRange
      <3> QED
        BY <1>2, <3>1, <3>3 DEF parseRetryAfter
    <2> QED
      BY <1>2, <2>3, <2>4 DEF Seconds, Wait
  <1>3. CASE ~(h.form = "secs" /\ h.n >= 0)
    BY <1>1, <1>3, DurationRange DEF parseRetryAfter, Seconds, Wait
  <1> QED
    BY <1>2, <1>3

\* What ParseError makes of a response's header: nothing unless it is a 429
\* that is not HTML.
LEMMA ErrorWait ==
  ASSUME NEW s \in Received
  PROVE  /\ s.retryAfter \in Headers
         /\ ParseError(s).retryAfter =
              IF s.status = 429 /\ ~isHTML(s.ctype, s.body) THEN parseRetryAfter(s.retryAfter) ELSE 0
  BY DEF Received, ParseError

\* A wait that fits is reported to the tick.
LEMMA ExactStep == IInv => WaitIsExact
  <1> SUFFICES ASSUME IInv, err.code = "rate_limited", Seconds(resp.retryAfter) <= MaxInt
               PROVE  err.retryAfter = Wait(resp.retryAfter)
    BY DEF WaitIsExact
  <1>1. err = ParseError(resp)
    BY DEF IInv, err, NotAsked, Answer, NoError, HTTPCall
  <1>2. resp.status = 429 /\ ~isHTML(resp.ctype, resp.body)
    BY <1>1, ParseErrorCode DEF IInv, errorCode, codeForStatus
  <1>3. err.retryAfter = parseRetryAfter(resp.retryAfter) /\ resp.retryAfter \in Headers
    BY <1>1, <1>2, ErrorWait DEF IInv
  <1> QED
    BY <1>3, RetryAfter

\* Both backends return one of the results Call can have.
LEMMA CodeType ==
  ASSUME NEW s
  PROVE  errorCode(s) \in ErrorCodes
  BY DEF errorCode, codeForStatus, ErrorCodes

\* An answer of either backend is in its range.
LEMMA AnswerType ==
  ASSUME NEW s, NEW f, NEW o
  PROVE  HTTPCall(o, s).result \in Results /\ FixtureCall(o, f).result \in Results
  <1>1. \A code \in ErrorCodes : Result("Error", code) \in Results
    BY DEF Result, Results
  <1>2. Nil \in Results /\ Raw \in Results /\ Result("Error", "server_error") \in Results
    BY DEF Nil, Raw, Result, Results, ErrorCodes
  <1>3. HTTPCall(o, s).result \in Results
    BY <1>1, <1>2, CodeType DEF HTTPCall, Answer, outcome
  <1>4. FixtureCall(o, f).result \in Results
    BY <1>1, <1>2, CodeType DEF FixtureCall, Answer
  <1> QED
    BY <1>3, <1>4

\* Hence the types are right.
LEMMA TypeStep == IInv => TypeOK
  <1> SUFFICES ASSUME IInv PROVE TypeOK
    OBVIOUS
  <1>1. answer.result \in Results /\ double.result \in Results
    <2>1. NotAsked.result \in Results
      BY DEF NotAsked, Answer, Pending, Result, Results
    <2> QED
      BY <2>1, AnswerType DEF IInv
  <1>2. err = NoError \/ err = ParseError(resp)
    BY DEF IInv, err, NotAsked, Answer, HTTPCall
  <1>3. err = NoError \/ (err.code \in ErrorCodes /\ err.statusCode = resp.status)
    BY <1>2, ParseErrorCode, CodeType DEF IInv
  <1>4. err.retryAfter \in (-MaxInt - 1)..MaxInt
    <2>1. CASE err = NoError
      BY <2>1, DurationRange DEF NoError
    <2>2. CASE err = ParseError(resp)
      BY <2>2, ErrorWait, RetryAfter, DurationRange DEF IInv
    <2> QED
      BY <1>2, <2>1, <2>2
  <1> QED
    BY <1>1, <1>3, <1>4 DEF TypeOK, IInv

\* A wait is reported only under ErrCodeRateLimited.
LEMMA WaitStep == IInv => WaitOnlyWhenLimited
  <1> SUFFICES ASSUME IInv, err.retryAfter # 0 PROVE err.code = "rate_limited"
    BY DEF WaitOnlyWhenLimited
  <1>1. err = ParseError(resp)
    BY DEF IInv, err, NotAsked, Answer, NoError, HTTPCall
  <1>2. resp.status = 429 /\ err.code = errorCode(resp) /\ ~isHTML(resp.ctype, resp.body)
    BY <1>1, ParseErrorCode DEF IInv
  <1> QED
    BY <1>2 DEF errorCode, codeForStatus

\* Every field of the errors member is reported.
LEMMA FieldsStep == IInv => FieldsComplete
  <1> SUFFICES ASSUME IInv, err # NoError, Envelope, resp.errors.form = "map"
               PROVE  /\ DOMAIN err.fields = DOMAIN resp.errors.fields
                      /\ \A f \in DOMAIN err.fields :
                           resp.errors.fields[f] = "string" => err.fields[f] = "string"
    BY DEF FieldsComplete
  <1>1. err = ParseError(resp)
    BY DEF IInv, err, NotAsked, Answer, NoError, HTTPCall
  <1>2. ~isHTML(resp.ctype, resp.body)
    BY DEF Envelope, isHTML
  <1>3. err.fields = decodeFields(resp.errors)
    BY <1>1, <1>2 DEF ParseError, Envelope
  <1> QED
    BY <1>3 DEF decodeFields, NoFields, AsString, AsAny

\* The response that a recording of s stands for.
LEMMA Rebuilt ==
  ASSUME IInv, Loaded
  PROVE  /\ buildResponse(fixture).status = resp.status
         /\ buildResponse(fixture).body = resp.body
         /\ buildResponse(fixture).retryAfter = resp.retryAfter
         /\ buildResponse(fixture).errors = resp.errors
         /\ SaysItsType =>
              (buildResponse(fixture).ctype = "html" <=> resp.ctype = "html")
  <1>1. /\ fixture.name \in {"json", "html"}
        /\ fixture.body = resp.body /\ fixture.body # "huge"
        /\ fixture.errors = resp.errors /\ fixture.retryAfter = resp.retryAfter
        /\ fixture.status = resp.status \/ (fixture.status = 0 /\ resp.status = 200)
        /\ fixture.ctype \in {"unset", resp.ctype}
    BY DEF IInv, Recordings, Loaded
  <1>2. resp.status # 0
    BY InputsAssumption DEF IInv, Received
  <1>3. buildResponse(fixture).status = resp.status
    BY <1>1, <1>2 DEF buildResponse
  <1>4. buildResponse(fixture).body = resp.body
    BY <1>1 DEF buildResponse
  <1>5. /\ buildResponse(fixture).retryAfter = resp.retryAfter
        /\ buildResponse(fixture).errors = resp.errors
    BY <1>1 DEF buildResponse
  <1>6. SaysItsType => (buildResponse(fixture).ctype = "html" <=> resp.ctype = "html")
    BY <1>1 DEF SaysItsType, guessContentType, buildResponse
  <1> QED
    BY <1>3, <1>4, <1>5, <1>6

\* A recorded error is told as the program would tell it.
LEMMA FixtureErrorsStep == IInv => FixtureErrorsMatch
  <1> SUFFICES ASSUME IInv, Done, resp.status >= 400, Loaded, SaysItsType
               PROVE  double = answer
    BY DEF FixtureErrorsMatch
  <1> DEFINE s == buildResponse(fixture)
  <1>1. answer = HTTPCall(out, resp) /\ double = FixtureCall(out, fixture)
    BY DEF IInv, Done
  <1>2. isHTML(s.ctype, s.body) <=> isHTML(resp.ctype, resp.body)
    BY Rebuilt DEF isHTML
  <1>3. s.status = resp.status /\ s.body = resp.body /\ s.retryAfter = resp.retryAfter
        /\ s.errors = resp.errors
    BY Rebuilt
  <1>t. resp.status \in Nat
    BY InputsAssumption DEF IInv, Received
  <1> HIDE DEF s
  <1>4. ParseError(s) = ParseError(resp) /\ errorCode(s) = errorCode(resp)
    BY <1>2, <1>3 DEF ParseError, errorCode
  <1>5. HTTPCall(out, resp) = Answer(Result("Error", errorCode(resp)), ParseError(resp))
    BY <1>t DEF HTTPCall, outcome
  <1>6. FixtureCall(out, fixture) = Answer(Result("Error", errorCode(s)), ParseError(s))
    BY <1>t, <1>3 DEF FixtureCall, Loaded, s
  <1> QED
    BY <1>1, <1>4, <1>5, <1>6

\* A recorded success is one for the program, too.
LEMMA FixtureNilStep == IInv => FixtureNilAgrees
  <1> SUFFICES ASSUME IInv, Done, Loaded, ~isHTML(resp.ctype, resp.body)
               PROVE  double.result = Nil <=> answer.result = Nil
    BY DEF FixtureNilAgrees
  <1> DEFINE s == buildResponse(fixture)
  <1>1. answer = HTTPCall(out, resp) /\ double = FixtureCall(out, fixture)
    BY DEF IInv, Done
  <1>2. s.status = resp.status /\ s.body = resp.body /\ resp.status \in Nat
    BY Rebuilt, InputsAssumption DEF IInv, Received
  <1>3. answer.result = Nil <=> resp.status < 400 /\ (~out \/ decodes(resp))
    BY <1>1, <1>2 DEF HTTPCall, outcome, Answer, Nil, Result, IInv
  <1> HIDE DEF s
  <1>4. double.result = Nil <=> resp.status < 400 /\ (~out \/ decodes(s))
    BY <1>1, <1>2 DEF FixtureCall, Answer, Nil, Raw, Result, IInv, Loaded, s
  <1> QED
    BY <1>2, <1>3, <1>4 DEF decodes

-----------------------------------------------------------------------------
(***************************************************************************)
(* For any response: what the backends return has its type, and no wait,   *)
(* however the product wraps, leaves a Duration (errors.go 111-126).       *)
(***************************************************************************)
THEOREM TypeCorrect == Spec => []TypeOK
  BY IInvHolds, TypeStep, PTL

(***************************************************************************)
(* For any width of a Duration and any header: the wait is the one asked   *)
(* for, unless the seconds do not fit (errors.go lines 111-126).           *)
(***************************************************************************)
THEOREM WaitExact == Spec => []WaitIsExact
  BY IInvHolds, ExactStep, PTL

(***************************************************************************)
(* For any response: whoever sleeps RetryAfter under ErrCodeRateLimited    *)
(* misses no wait (errors.go lines 63-71).                                 *)
(***************************************************************************)
THEOREM NoWaitMissed == Spec => []WaitOnlyWhenLimited
  BY IInvHolds, WaitStep, PTL

(***************************************************************************)
(* For any errors member, however large: every field is reported           *)
(* (errors.go lines 128-145).                                              *)
(***************************************************************************)
THEOREM NoFieldMissed == Spec => []FieldsComplete
  BY IInvHolds, FieldsStep, PTL

(***************************************************************************)
(* For any response and any recording of it: a replayed failure is the     *)
(* error that HTTPBackend builds (testutil/backend.go lines 110-112).      *)
(***************************************************************************)
THEOREM ReplayedErrors == Spec => []FixtureErrorsMatch
  BY IInvHolds, FixtureErrorsStep, PTL

(***************************************************************************)
(* For any response that is not HTML and any recording of it: the double   *)
(* succeeds exactly where HTTPBackend does (testutil/backend.go 133-139).  *)
(***************************************************************************)
THEOREM ReplayedSuccess == Spec => []FixtureNilAgrees
  BY IInvHolds, FixtureNilStep, PTL
=============================================================================
