# Verification of paystack-go

TLA+ models of the SDK, their model-checking instances for TLC, and proofs
checked by TLAPS. Line numbers refer to the repository's source; the mapping of
every definition to the lines it stands for is in `PROJECT.json`.

Run a check with `tlc -config webhook.cfg MCWebhook`, a proof with
`tlapm HTTPBackend_proofs.tla`.

## 1. The system

paystack-go is a client library. A program builds a `Client` once and calls its
services from many goroutines; Paystack, in turn, posts webhook events to the
program's web server. The SDK starts no goroutine and keeps nothing on disk. Its
shared state is the `HTTPBackend` (immutable once built) with the `http.Client`
inside it. What is hard is between the SDK and its neighbours: when a request
may be sent twice, what an outcome tells about a payment, when a connection is
given back, and what happens to an event whose handling fails halfway.

| Component | State | Operations | What makes it correct |
|---|---|---|---|
| HTTP backend (`backend.go`) | per call: open body, connection, result; shared: the transport's pool | `Call`, `CallRaw` | one payment per intent; a nil means it was carried out; no connection kept; returns by its deadline |
| Request building (`backend.go`, `params.go`) | none | `buildRequest`, key extraction | own endpoint reached; key only in the header; every filter sent |
| Services (`transaction.go` and six more) | none | 36 methods | verb, path, params and out of each are right |
| Error mapping (`errors.go`) | none | `ParseError` | code, wait and fields complete and consistent |
| Webhook core (`webhook.go`) | none | `Verify`, `ParseEvent`, `ParseWebhook` | only whole, signed events come out |
| Webhook adapters (gin, echo, fiber) | per request: body, event | `WebhookHandler` | 200 only for what `fn` handled; events stay intact |
| Context adapters (`context.go` in each) | the request's context | `Middleware`, `ClientFrom` | a call goes to the innermost client of its own request |
| Client and options (`client.go`, `paystack.go`) | services, backend | `New`, `With...` | options mean what their comments say, in any order |
| Test doubles (`internal/testutil`) | recorded calls, mutex | `MockBackend`, `FixtureBackend` | recording is atomic and never blocks for ever; a replayed response is told as the program would tell it |
| Time codec (`time.go`) | none | `UnmarshalJSON`, `MarshalJSON` | not modelled: what `time.Parse` accepts |
| Logger seams, types, examples, fixtures | none | | not modelled: nothing depends on them |

Interactions: a service method calls `Backend.Call`; `call` builds a request and
hands it to `http.Client.Do`; the response goes through `ParseError` or into
`out`. A web server calls the adapter's handler, which calls `Verify` and
`ParseEvent` and then the application's `fn`. An application's handler takes its
client from the request's context; in tests the backend behind it is a
`MockBackend` or a `FixtureBackend`.

The hazards of this code, each at its line with the properties that would catch
it, are listed under `hazards` in `PROJECT.json`.

## 2. Modules

```
Services          the request table: verb, path, params and out of each method
  Services_proofs   what every row has, and that no two rows have the same route
ErrorMapping      ParseError and its helpers, as operators
CallResult        EXTENDS ErrorMapping: what Call returns for a response, as operators
PaymentContract   abstract: what callers are promised about payments
HTTPBackend       EXTENDS Services, CallResult; implements PaymentContract
  MCHTTPBackend, HTTPBackend_proofs
RequestBuilder    EXTENDS Services: path, query, body and header
  MCRequestBuilder, RequestBuilder_proofs
FixtureBackend    EXTENDS CallResult: FixtureBackend.Call, as operators
ErrorReporting    EXTENDS FixtureBackend: responses, recordings of them, and what
                  callers and tests learn
  MCErrorReporting, ErrorReporting_proofs
Recorder          abstract: a backend that records each call at one moment
Client            New and its options, Middleware and ClientFrom, MockBackend;
                  implements Recorder
  MCClient, Client_proofs
Delivery          abstract: an event is delivered at least once
Webhook           webhook.go and the three WebhookHandlers; implements Delivery
  MCWebhook, Webhook_proofs
LoopLemmas        induction over the length of a loop, for the proof modules
```

Operators named `<definition>_<Word>` and commented "Seeded fault" are not part
of the models: each is a plausible bug of one definition, kept beside it, and
shows which property would notice.

### HTTPBackend

A member of `Calls` is one execution of `Call` or `CallRaw`; a retry is another
call, usually with the same key. `pc[c]` walks through the code:

| `pc` | code |
|---|---|
| `idle` to `connecting` | `Start`: `buildRequest` and the headers (lines 119-172), with its early returns: an encoding error, and the panic of a nil pointer |
| `connecting`, `sending`, `awaiting` | inside `client.Do` (line 141): connection pool, dialing, writing, waiting, the transport's own retry |
| `reading` | `ReadAll` (line 81), the deferred `drainAndClose` armed |
| `draining` | `result` is fixed (lines 82-110), `drainAndClose` runs |
| `handed` | `CallRaw` has returned the open body |
| `returned`, `crashed` | over |

`conn` is the connection of a call, `idle` the transport's pool, `attempt`
counts how often a request was written, `hops` the redirects followed, `verb` is
the method of the request that `client.Do` is sending now, `wire` holds the copies on their way,
and `ledger` what Paystack has carried out. The transport, the network and
Paystack are external: modelled from what `backend.go` relies on. Five facts of
`net/http` matter. A request may be replayed on a broken pooled connection if
nothing was written yet, or if it is a GET or has an `Idempotency-Key` header.
`Client.Timeout` and the context cover the body. A connection returns to the
pool when its body was read to the end. And `Do` follows a redirect by itself,
with the headers of the first request (`Follow`, `TooManyRedirects`): 307 and 308
send the same request again, the others make it a GET. An `http.Client` given
with `WithHTTPClient` is taken to have the default `CheckRedirect`. And a response
with status 204 or 304 has no body, whatever was sent (`Receivable`).

Of Paystack it is assumed that a key it knows has no second effect, and that a
2xx with a true JSON envelope is never given to a write that had none
(`Acknowledges`); both belong to its published API. Any other 2xx may come from
anyone, a proxy's text page or an empty body among them, and says nothing. A server that answers
307 or 308 is taken not to have carried the request out, which is what those
codes say.

A response's body is one of seven kinds, each a way through `Call` and
`ParseError`; `"declined"` is an envelope whose `status` is false, at which `Call`
does not look, and `"bare"` is JSON with neither a message nor a true `status`.

`NilMeansCharged` says what a caller may conclude from a nil. Three writes
escape it, and its premise leaves them out. JSON without a true `status`, a
declined envelope or bare, decodes into `out` or is not looked at; the caller has
to look at `status`. A write that a redirect made a GET has an
answer about something else. And with a nil `out`, that is for `Subscription.Enable`
and `Disable`, `Plan.Update` and `Customer.DeactivateAuthorization`, `Call` returns nil
for any body under status 400 that is not HTML (`backend.go:99-101`): a proxy's
text page, or a JSON document too long to be read, is nil though Paystack may
never have seen the write (`Unread`).

### RequestBuilder and ErrorReporting

The program's pure functions, applied to every input of a finite set.
`queryFields` and `bodyFields` say which fields Go's encoders see. A path is a
sequence of segments, so that a caller's slash either is, or is not, a segment
boundary. Paystack's router is external. In `ErrorMapping` the width of
`time.Duration` is the constant `DurationBits`, so that its overflow is within
reach of small numbers; 8 bits and 4 ticks a second have the same boundaries as
64 bits and 10^9.

`ErrorReporting` has one response, a file that a test keeps of it (under some
name, with or without its Content-Type), and what `HTTPBackend.Call` and
`FixtureBackend.Call` make of the two. `FixtureErrorsMatch` supposes what a
recording needs: a file that is there and short enough for `HTTPBackend`, and an
extension that says what the Content-Type said. `FixtureNilAgrees` leaves out
one case, in which the two do part: an HTML page under status 400, which
`HTTPBackend` turns into an error and `FixtureBackend` does not. `FieldsComplete` is
about envelopes that have a message; of one whose message is empty `ParseError`
reports no field (below).

### Client and Recorder

`New` makes each client once, from a key and a list of options, which `applied`
goes through in order, as the loop does; a backend is a
`MockBackend` or the configuration of an `HTTPBackend`. Each goroutine then
serves one request after another. `Arrive` gives it a route and an empty context,
each `Middleware` of the route stores its client, and the handler takes the last
one with `ClientFrom`. The three adapters do the same with their framework's
context and share these actions. What a call does on an `HTTPBackend` is the
other module's subject; here it only counts that the call went there (`live`).

On a `MockBackend` a method is four steps: `Lock`, `ReadSlice` (the read in
`append`, `make` or `len`), the step that writes or copies, and `Unlock`. That
they are separate is the point: `ImplementsRecorder` says that with the mutex
the whole method might as well happen at one moment between call and return, as
in `Recorder`. A call record stands for the route of its request. Other
goroutines, or the same ones between requests, `Inspect` the mock: `Calls`,
`LastCall`, which panics on an empty one, and `Reset`.

### Webhook

A slot is where a server handles one post after another. `stage[d]` goes from
`arrived` through `verifying` and `handling` to `answering`. `limited` is
`io.LimitReader`, which gin, echo and `ParseWebhook` use; fiber compares the
length instead. A connection that ends early is a read error (`readFails`), unless
the limit comes first: what was read up to the limit goes on to `Verify`. A
signature is the body and the secret it was computed over. `secret` is what the
handlers were made with, Paystack's or, from an unset variable say, the empty one;
under the empty one anybody can sign, and `Verify` accepts nothing. A body altered
on the way is still JSON, so nothing but `Verify` stops it. `given` is every
`*Event` that `fn` got: its `data` either has bytes of its own or, in the seeded
fault, is a view of a fiber slot's buffer. The server behind `ParseWebhook` is
the application's; the model has it answer as the adapters do. Paystack repeats
an event, concurrently too, until it sees a 200. A panic in `fn` counts with the
lost answers (`AnswerLost`) or, where it takes the process down, with `Crash`.
`ImplementsDelivery` relates all of this to `Delivery`: an event is taken when
`fn` gets it, done when `fn` has returned nil for it, and acknowledged when
Paystack has the 200; a crash forgets what was taken. Events that do not fit the
limit are outside `Wanted`: no handler may ever take one.

## 3. Model checking

| Run | Properties | Instance |
|---|---|---|
| `backend_pair` | `TypeOK`, `BackendInv`, `NilMeansCharged`, `NoConnLeak`, `ResultStable` | 2 calls, 2 connections, every kind of request, 10 responses; 1.55 million states |
| `backend_retry` | `AtMostOnce`, `BackendInv`, `KeylessSentOnce`, `ImplementsContract` | 2 calls with one key, none or an empty one, 1 connection, 1 redirect each, to the same method or to GET; 625 thousand states |
| `backend_live` | `DeadlineReturns`, `WaiterProceeds` | 3 calls, 1 connection, bodies that never end; 312 thousand states |
| `requests` | `RouteIsOwn`, `KeyOnlyInHeader` | every method, 7 strings, every set of fields |
| `errors` | `TypeOK`, `WaitOnlyWhenLimited`, `WaitIsExact`, `FieldsComplete`, `FixtureErrorsMatch`, `FixtureNilAgrees` | 8 statuses, 14 Retry-After headers, 11 `errors` members, every way to record a response; 1.21 million states |
| `client` | `TypeOK`, `ClientInv`, `CallsReachOwnBackend`, `OptionsAsDocumented`, `ImplementsRecorder`, `UsesEnd` | 2 goroutines with 2 requests or inspections each, 2 clients, 2 mocks, 3 routes, 84 lists of options; 220 thousand states |
| `webhook` | `TypeOK`, `GivenIsGenuine`, `AckMeansHandled`, `ImplementsDelivery`, `EventHandled` | 4 events, a gin and a fiber slot, 10 posts, both secrets; 38 thousand states |

Why these bounds are enough to meet the interesting cases. Two calls with one
key are a retry, which may arrive while the transport repeats the first or
follows a redirect; one redirect is enough to send a write twice or to turn it
into a GET, and the second one meets the limit. `backend_live` has a third call,
`backend_pair` no redirects, to keep them small. One connection is what everyone waits for; two let a call find an idle
one while another is busy. Counters need no bound: `attempt` is limited because
a pooled connection has to exist for each replay, and no pool refills without a
call that ends. The ten responses go through every branch of `Call` and `ParseError`.
The events are one that fits, one of exactly the limit, one a byte longer and
one without a name; the posts report each of them, one without a signature, altered,
or altered and signed with the empty secret, and cut before the limit, at it, and
at it with nothing missing. Gin stands for `ParseWebhook` and echo, whose control is
the same. Symmetry is used only for calls that are interchangeable, never in a run
that checks liveness. In `errors` the wait values surround the limits of an
8-bit duration: 31 seconds fit, 32 wrap negative, 64 wrap to zero, 127 is the
last int. In `client`, two goroutines are what it takes to lose an append, and a
second use finds the mutex that the first may have left locked; the lists of
options hold each option, each pair in both orders, and each order of a Backend,
a nil Backend and an `http.Client`. `MaxUses` bounds the uses of a goroutine.

### Fairness

`HTTPBackend`: weak fairness for each call's goroutine, for the transport handing
out a connection that is free, for the deadline of a call that has one, and for
the user of `CallRaw` closing the body, which its comment demands. Nothing is
assumed of the network or of Paystack: a response may never come. `WaiterProceeds`
concerns a call while every other has a deadline; without that an endless body
holds its connection for ever, in the model as in the program.

`Webhook`: weak fairness for handlers, `fn` and the server's answers. Strong
fairness for what lies outside: an event that is not acknowledged is repeated
and arrives, and an event that is handled again and again is handled without
error once. Crashes may go on for ever.

`Client`: weak fairness for the steps of each goroutine, which the Go scheduler
gives, and strong fairness for `Lock`, since `sync.Mutex` hands itself to a
waiter that has waited too long. Nobody has to send requests or to inspect.

### Where code and documents part

Five runs end in a counterexample on purpose. Each checks one sentence of a
document, a comment or a test.

| Run | Sentence | Code |
|---|---|---|
| `backend_nil_params` | `tests/transaction_test.go:86`: listing with nil params should not error | `backend.go:197`: method call on a nil pointer, panic. The test uses a `FixtureBackend`, which ignores params |
| `backend_non2xx` | `README.md:111`: every non-2xx response is a `*paystack.Error` | `backend.go:86`: errors start at 400. The run's responses are a 300 and a 303 without a Location, which `net/http` hands back with their bodies |
| `requests_dates` | `params.go:16`: nil leaves a list parameter off the query string | `params.go:22`: so does a set `From` or `To`, whose type has no exported fields for go-querystring |
| `errors_overflow` | `ARCHITECTURE.md:317`: 429 has the correct `RetryAfter` | `errors.go:116`: the product overflows |
| `webhook_oversized` | `ARCHITECTURE.md:330`: an oversized body is rejected before HMAC is computed | `webhook.go:100`: it is cut and hashed; only fiber rejects it first |

Three more, without a run of their own. "`Fields` populated on 400 validation
errors" (`ARCHITECTURE.md:199`) fails for an envelope whose message is empty: `errors.go:74`
takes it for a body that is no JSON and drops its fields. `DefaultErrorMatrix` "returns the seven
error rows" (`testutil/matrix.go:25`) and has six. And the adapters answer 400 when `fn` returns an
error that wraps `ErrInvalidSignature` (`paystackgin/webhook.go:41`), although
their comment says 500 for every error of `fn`. The model does the same
(`statusOf`); Paystack repeats the event either way, so no property tells the two
apart.

One behaviour contradicts no document but deserves a reader's attention: the nil
for an unread text page, described with `NilMeansCharged` above.

## 4. Proofs

TLC checks the instances above; TLAPS proves the following for all values of the
constants that satisfy the assumptions `BackendAssumption`, `DurationAssumption`,
`WebhookAssumption`, `PostsAssumption`, `ClientAssumption`, `OptionsAssumption`,
`BackendsDiffer`, `InputsAssumption`, `StringsAssumption` and `HoleAssumption`. These
give the constants their types, keep the marker values apart, and say that only
Paystack signs with its secret, and whole bodies. Three say more. `HoleAssumption` and
`StringsAssumption` keep the place of an argument in a path, the literal words of
the paths and the numeric ids apart. `InputsAssumption` bounds the seconds that an
HTTP date lies ahead by `MaxInt`, which a `time.Duration` does too.
`BackendsDiffer` says that a mock is not the configuration of an `HTTPBackend`.

`HTTPBackend_proofs`: `TypeCorrect`, `ConnectionsReleased`, `KeylessWrittenOnce`,
`AtMostOncePayment`, `NilIsCharged`, `ResultsStable`, and `Refinement`: the
backend, over the transport and a lossy network, implements `PaymentContract`.
Two more connect the request table to it: `ServicesMakeRequests`, that whatever
the 36 methods hand to `Call` is a `Request` as that module takes it, and that a
key comes only from a non-nil `Params`; and `WritesCarryKeys`, that every write but
`DeactivateAuthorization`, which has no `Params`, can be sent under any key, so
that what `AtMostOncePayment` says of a retry is within a caller's reach.

The inductive invariant is `BackendInv`. `AtMostOnce` alone is not inductive: a
second effect can only be excluded by knowing what copies are on the wire.
`CopiesInv` says that a copy was numbered when its call wrote it, carries its
call's header, and leaves the wire when it takes effect. `SentInv` says that a
request net/http may not replay is written once for every redirect that asks for
it. `SingleInv` says that a write without a key nevertheless has one copy that
can take effect: when a redirect asks for the same write again, the earlier copy
is gone. With these, two copies about one intent are the same copy or share a
key (`SameIntentCopies`), and Paystack ignores the second of those.
`ResultInv` ties results to responses and acknowledgements to effects: nil stands
for a response that is not HTML and, with an `out`, that decodes. From it follow
the `Accept` step of the refinement and `NilMeansCharged`: a nil outside its three
escapes leaves only a true JSON envelope (`NilIsEnvelope`), and that is all the
proof takes Paystack's word for. The refinement
maps `pc` to the contract's phases, `ledger` to `charged`, and the caller's key,
or the call itself, to `intent`: `Serve` of a write is `Charge`, `Drain` is
`Accept` or `GiveUp`, `Crash` gives up every open call at once.

`Webhook_proofs`: `GivenStaysGenuine`, `AcknowledgedIsHandled` and
`DeliversAtLeastOnce`, the refinement of `Delivery`, from `WebhookInv`. Its added part,
`HandlerInv`, says that the event in `fn`'s hands has been taken since the last
crash, that a 200 about to be sent is for an event that `fn` has handled, that a
body past fiber's check fits, that every `Data` has its own bytes, and that what
`fn` got or handled fits the limit. The last rests on signatures: what
`LimitReader` has cut no longer matches the signature of the whole (`AcceptedFits`).
Under an empty secret, `AcceptedIsGenuine` holds because nothing is accepted.
The proof covers posts longer than the event they carry and any mix of servers.

`Client_proofs`: `TypeCorrect`, `ClientSafe`, `OwnBackend`, and `MockIsRecorder`,
the refinement of `Recorder`, for any number of goroutines, mocks and clients and
any routes. `ClientInv` is what makes them inductive. Its part `MutexInv` says that a
goroutine between `Lock` and `Unlock` owns the mutex and that the slice it has
read is still the current one, so that its writing step is the moment at which
the method takes effect. `RoutingInv` follows a request: the Middlewares that
have still to run end with the innermost one of its route, the context holds
that one when they are through, and the call is at its client's backend.

`ClientAsDocumented` is about `New` with any list of options, however long. What
`applied` leaves in a field is what the last option that sets it says
(`LastUpToStep`: the last option up to i is that up to i - 1, or is i;
`LoopOfNew`: each round of the loop keeps every field equal to that). TLAPS has no
induction rule that its provers can instantiate; `LoopLemmas` instead takes the
first round at which a claim fails, which exists because the naturals are well
ordered (`LeastNumber`), and shows that it does not fail there. `Trimmed` says
that the base URL loses all trailing slashes and nothing else.

`ErrorReporting_proofs`: `TypeCorrect`, `WaitExact`, `NoWaitMissed`, `NoFieldMissed`,
`ReplayedErrors` and `ReplayedSuccess`, for any statuses, headers and `errors`
members; the invariant says that each answer is its backend's for that response,
and the rest is about the operators. `WaitExact` holds for a duration of any width
and any number of ticks a second: a wait that fits is reported to the tick, and
one that does not fit is the case of `errors_overflow`. `Wrap`
is defined by half its modulus, so that of powers of two the proof needs only that
this half is an integer; that it is positive follows from `DurationAssumption`.

`RequestBuilder_proofs`: `RetryIsSameRequest`, `RequestReachesOwnEndpoint` and
`RequestTellsCall`, for any strings a caller may pass. The router is
taken to prefer, of the routes that fit, the one with the most literals; `OwnFits` says that a request fits the route
of its method, `OthersDoNotFit` and `Fitting` that it fits no other, except that
GET /transaction/totals also fits the route of `Fetch`, which has fewer literals. `RequestTellsCall` is what follows for a caller: two calls that send the same verb and
path are calls of the same method with the same string. Both rest on
`Services_proofs`, where `EveryRow` and `RowsApart` go through the seven services
(`PathType`, one lemma for each service's rows).

Only model-checked: the liveness properties (`DeadlineReturns`, `WaiterProceeds`,
`EventHandled`, `UsesEnd`). Fairness and `ENABLED` are out of the prover's reach.

## 5. Not modelled

- HTTP/2, where several calls share a connection; the models are of HTTP/1.1.
- Redirects to another host, and a `CheckRedirect` of the application's own.
- What `out` contains after decoding, and reuse of one `out` for two calls.
- What a `MockBackend` returns after it has recorded: the test's own value, read
  outside the mutex. The tests set it before the first call.
- `Time`: stateless, and as right as `time.Parse` and its layouts. What matters of
  it elsewhere, that go-querystring finds nothing in it, is in `RequestBuilder`.
- Logging, the constant headers, the fields of responses, the tests' error matrix
  and path helpers, the examples.

## 6. Plan

Done: the backend with its contract and redirects, request building, error
mapping, webhooks with their delivery, clients with their options and contexts,
the test doubles, and the proofs above: every safety property of every passing
run is a theorem. Left, should the code grow there: what `out` contains after a call, and HTTP/2's
shared connections.
