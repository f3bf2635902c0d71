---------------------------- MODULE HTTPBackend ----------------------------
(***************************************************************************)
(* backend.go: HTTPBackend.Call and CallRaw, executed by concurrent        *)
(* goroutines that share one backend, over Go's HTTP/1.1 transport and a   *)
(* network that loses and delays, against the Paystack server.             *)
(*                                                                         *)
(* A member of Calls is one execution of Call or CallRaw.  An application  *)
(* that retries makes another call, usually with the same idempotency key; *)
(* one that crashes and restarts makes its later calls in a new process.   *)
(*                                                                         *)
(* What belongs to net/http, to the network and to Paystack is external:   *)
(* it is modelled from what backend.go relies on, and marked so below.     *)
(***************************************************************************)
EXTENDS Integers, FiniteSets, Services, CallResult

CONSTANTS
  Calls,        \* executions of Call / CallRaw
  Keys,         \* non-empty idempotency keys
  NoKey,        \* Params.IdempotencyKey is nil; also: no Idempotency-Key header
  EmptyKey,     \* Params.IdempotencyKey points to ""
  Requests,     \* the requests the application makes
  Responses,    \* the responses that can come back
  Deadlined,    \* calls with an http.Client.Timeout or a context that ends
  MaxConns,     \* Transport.MaxConnsPerHost
  MaxHops,      \* redirects the client follows for one call (net/http: 9)
  None          \* no request yet, no response yet

CallerKeys == Keys \cup {NoKey, EmptyKey}

(***************************************************************************)
(* What a service method, or a direct user of the Backend, asks for:       *)
(*   params  "nil"       the untyped nil                                   *)
(*           "ptr"       a pointer to a struct that carries Params         *)
(*           "typednil"  a nil pointer to such a struct                    *)
(*           "bad"       params that query.Values or json.Marshal refuses  *)
(*           "plain"     a value that does not carry Params                *)
(*   key     Params.IdempotencyKey, where there are Params                 *)
(*   out     is there an out to decode into                                *)
(*   raw     CallRaw rather than Call                                      *)
(***************************************************************************)
Request ==
  [verb : Verbs, params : {"nil", "ptr", "typednil", "bad", "plain"},
   key : CallerKeys, out : BOOLEAN, raw : BOOLEAN]

\* The requests a service method can make through its row of the table: List
\* params never fail to encode, Params fail on Metadata that JSON refuses.
RequestsOf(e, raw) ==
  LET ask(params, keys) ==
        [verb : {e.verb}, params : params, key : keys,
         out : {e.out # "none"}, raw : {raw}]
  IN  CASE e.arg = "none"   -> ask({"nil"}, {NoKey})
        [] e.arg = "plain"  -> ask({"plain"}, {NoKey})
        [] e.arg = "List"   -> ask({"ptr"}, CallerKeys) \cup ask({"typednil"}, {NoKey})
        [] e.arg = "Params" -> ask({"ptr", "bad"}, CallerKeys) \cup ask({"typednil"}, {NoKey})

\* location: has the response a Location header.
Response ==
  {s \in [status : 200..599, ctype : {"json", "html", "none"}, body : Bodies,
          location : BOOLEAN] : Receivable(s)}

ASSUME BackendAssumption ==
  /\ NoKey \notin Keys /\ EmptyKey \notin Keys /\ NoKey # EmptyKey
  /\ Requests \subseteq Request
  /\ \A r \in Requests : r.key # NoKey => r.params \in {"ptr", "bad"}
  /\ Responses \subseteq Response
  /\ None \notin Response /\ None \notin Request
  /\ Deadlined \subseteq Calls
  /\ MaxConns \in Nat \ {0}
  /\ MaxHops \in Nat

VARIABLES
  pc,        \* where each call is
  req,       \* what each call was asked to send
  conn,      \* the connection a call holds: "none", "new", "reused", "broken"
  verb,      \* the method of the request the client is sending for a call
  hops,      \* how many redirects a call has followed
  attempt,   \* how many times a call's request has been written out
  result,    \* what Call returns: see Results
  resp,      \* the response that has reached the call's connection
  idle,      \* keep-alive connections in the transport's pool
  wire,      \* request copies on their way to Paystack
  ledger     \* the effects Paystack has carried out

vars == <<pc, req, conn, verb, hops, attempt, result, resp, idle, wire, ledger>>

Stages ==
  {"idle", "connecting", "sending", "awaiting", "reading", "draining",
   "handed", "returned", "crashed"}

Active == {"connecting", "sending", "awaiting", "reading", "draining", "handed"}

\* A copy of a call's request, and the effect of a copy: n tells the copies
\* of one call apart, verb is its method, key the Idempotency-Key header or NoKey.
Copy == [call : Calls, n : Nat, verb : Verbs, key : CallerKeys]

Init ==
  /\ pc = [c \in Calls |-> "idle"]
  /\ req = [c \in Calls |-> None]
  /\ conn = [c \in Calls |-> "none"]
  /\ verb = [c \in Calls |-> None]
  /\ hops = [c \in Calls |-> 0]
  /\ attempt = [c \in Calls |-> 0]
  /\ result = [c \in Calls |-> Pending]
  /\ resp = [c \in Calls |-> None]
  /\ idle = 0
  /\ wire = {}
  /\ ledger = {}

-----------------------------------------------------------------------------
(* buildRequest and the headers set by call. *)

\* Seeded fault: only struct values, never pointers, are taken for carriers.
extractIdempotencyKey_ValuesOnly(r) == EmptyKey

\* NoKey comes back as the empty string.
extractIdempotencyKey(r) ==
  IF r.params \in {"ptr", "bad"} /\ r.key # NoKey THEN r.key ELSE EmptyKey

\* Seeded fault: the header is set whatever the key.
idempotencyHeader_AlwaysSet(r) == extractIdempotencyKey(r)

\* call sets the header only for a non-empty key; NoKey: header absent.
idempotencyHeader(r) ==
  IF extractIdempotencyKey(r) # EmptyKey THEN extractIdempotencyKey(r) ELSE NoKey

\* extractIdempotencyKey calls paystackParams on the nil pointer.
panics(r) == r.params = "typednil"

Start(c, r) ==
  /\ pc[c] = "idle"
  /\ req' = [req EXCEPT ![c] = r]
  /\ verb' = [verb EXCEPT ![c] = r.verb]
  /\ \/ /\ panics(r)
        /\ pc' = [pc EXCEPT ![c] = "returned"]
        /\ result' = [result EXCEPT ![c] = Result("panic", "none")]
     \/ /\ r.params = "bad"
        /\ pc' = [pc EXCEPT ![c] = "returned"]
        /\ result' = [result EXCEPT ![c] = Raw]
     \/ /\ ~panics(r) /\ r.params # "bad"
        /\ pc' = [pc EXCEPT ![c] = "connecting"]
        /\ UNCHANGED result
  /\ UNCHANGED <<conn, hops, attempt, resp, idle, wire, ledger>>

-----------------------------------------------------------------------------
(* client.Do, up to the response header.  External: net/http's transport.  *)

Live(c) == conn[c] \in {"new", "reused"}

HasRoom == idle + Cardinality({c \in Calls : Live(c)}) < MaxConns

\* Do returns an error, which call and Call hand on as it is.
DoFails(c) ==
  /\ pc' = [pc EXCEPT ![c] = "returned"]
  /\ conn' = [conn EXCEPT ![c] = "none"]
  /\ result' = [result EXCEPT ![c] = Raw]
  /\ resp' = [resp EXCEPT ![c] = None]
  /\ UNCHANGED <<req, verb, hops, attempt, idle, wire, ledger>>

AcquireIdle(c) ==
  /\ pc[c] = "connecting"
  /\ idle > 0
  /\ idle' = idle - 1
  /\ conn' = [conn EXCEPT ![c] = "reused"]
  /\ pc' = [pc EXCEPT ![c] = "sending"]
  /\ UNCHANGED <<req, verb, hops, attempt, result, resp, wire, ledger>>

Dial(c) ==
  /\ pc[c] = "connecting"
  /\ idle = 0 /\ HasRoom
  /\ conn' = [conn EXCEPT ![c] = "new"]
  /\ pc' = [pc EXCEPT ![c] = "sending"]
  /\ UNCHANGED <<req, verb, hops, attempt, result, resp, idle, wire, ledger>>

DialFails(c) ==
  /\ pc[c] = "connecting"
  /\ idle = 0 /\ HasRoom
  /\ DoFails(c)

Transmit(c) ==
  /\ pc[c] = "sending"
  /\ attempt' = [attempt EXCEPT ![c] = @ + 1]
  /\ wire' = wire \cup
       {[call |-> c, n |-> attempt[c] + 1, verb |-> verb[c], key |-> idempotencyHeader(req[c])]}
  /\ pc' = [pc EXCEPT ![c] = "awaiting"]
  /\ UNCHANGED <<req, conn, verb, hops, result, resp, idle, ledger>>

\* http.Request.isReplayable: every body the SDK builds can be rewound, so it
\* is the verb, or the presence of an Idempotency-Key header, that decides.
isReplayable(v, r) == v = "GET" \/ idempotencyHeader(r) # NoKey

\* The transport's own retry: the connection came from the pool and broke
\* before it answered, and nothing was written or the request is replayable.
Reconnect(c) ==
  /\ \/ pc[c] = "sending"
     \/ pc[c] = "awaiting" /\ isReplayable(verb[c], req[c])
  /\ conn[c] = "reused"
  /\ pc' = [pc EXCEPT ![c] = "connecting"]
  /\ conn' = [conn EXCEPT ![c] = "none"]
  /\ resp' = [resp EXCEPT ![c] = None]
  /\ UNCHANGED <<req, verb, hops, attempt, result, idle, wire, ledger>>

\* The connection breaks and the transport does not retry.
Break(c) ==
  /\ \/ pc[c] = "sending" /\ conn[c] = "new"
     \/ pc[c] = "awaiting"
  /\ DoFails(c)

\* The caller's side lets go of its connection; a live one that was read to
\* its end may go back to the pool, or be closed.
Release(c, reusable) ==
  /\ conn' = [conn EXCEPT ![c] = "none"]
  /\ idle' \in IF reusable THEN {idle, idle + 1} ELSE {idle}

\* A 3xx that http.Client follows; 307 and 308 ask for the same request again,
\* the others turn every method into a GET without a body.
Redirects(s) == s.location /\ s.status \in {301, 302, 303, 307, 308}
KeepsMethod(s) == s.status \in {307, 308}

methodAfter(v, s) == IF KeepsMethod(s) THEN v ELSE "GET"

\* http.Client follows a redirect by itself: the next request has the headers
\* of the first, the Idempotency-Key included, and may use any connection.
Follow(c) ==
  /\ pc[c] = "awaiting"
  /\ resp[c] # None /\ Redirects(resp[c])
  /\ hops[c] < MaxHops
  /\ hops' = [hops EXCEPT ![c] = @ + 1]
  /\ verb' = [verb EXCEPT ![c] = methodAfter(@, resp[c])]
  /\ pc' = [pc EXCEPT ![c] = "connecting"]
  /\ Release(c, TRUE)
  /\ resp' = [resp EXCEPT ![c] = None]
  /\ UNCHANGED <<req, attempt, result, wire, ledger>>

\* One redirect too many: Do returns an error.
TooManyRedirects(c) ==
  /\ pc[c] = "awaiting"
  /\ resp[c] # None /\ Redirects(resp[c])
  /\ hops[c] = MaxHops
  /\ pc' = [pc EXCEPT ![c] = "returned"]
  /\ result' = [result EXCEPT ![c] = Raw]
  /\ Release(c, TRUE)
  /\ resp' = [resp EXCEPT ![c] = None]
  /\ UNCHANGED <<req, verb, hops, attempt, wire, ledger>>

\* The response header arrives: Do returns, and the body is now open.
Deliver(c) ==
  /\ pc[c] = "awaiting"
  /\ resp[c] # None /\ ~Redirects(resp[c])
  /\ IF req[c].raw
     THEN /\ pc' = [pc EXCEPT ![c] = "handed"]
          /\ result' = [result EXCEPT ![c] = Result("response", "none")]
     ELSE /\ pc' = [pc EXCEPT ![c] = "reading"]
          /\ UNCHANGED result
  /\ UNCHANGED <<req, conn, verb, hops, attempt, resp, idle, wire, ledger>>

-----------------------------------------------------------------------------
(* The rest of Call. *)

\* ReadAll succeeds; the result is fixed, the deferred drainAndClose remains.
\* An endless body stops at maxResponseBytes like a huge one.
ReadBody(c) ==
  /\ pc[c] = "reading"
  /\ Live(c)
  /\ result' = [result EXCEPT ![c] = outcome(req[c].out, resp[c])]
  /\ pc' = [pc EXCEPT ![c] = "draining"]
  /\ UNCHANGED <<req, conn, verb, hops, attempt, resp, idle, wire, ledger>>

\* ReadAll fails: its error is returned before the status is looked at.
ReadFails(c) ==
  /\ pc[c] = "reading"
  /\ conn[c] = "broken"
  /\ result' = [result EXCEPT ![c] = Raw]
  /\ pc' = [pc EXCEPT ![c] = "draining"]
  /\ UNCHANGED <<req, conn, verb, hops, attempt, resp, idle, wire, ledger>>

\* Seeded fault: only the success path closes the body.
Drain_OnSuccessOnly(c) ==
  /\ pc[c] = "draining"
  /\ IF result[c] = Nil
     THEN Release(c, Live(c)) /\ (conn[c] = "broken" \/ resp[c].body # "endless")
     ELSE UNCHANGED <<conn, idle>>
  /\ pc' = [pc EXCEPT ![c] = "returned"]
  /\ UNCHANGED <<req, verb, hops, attempt, result, resp, wire, ledger>>

\* Seeded fault: an error of the drain becomes the error of the call.
Drain_ReportsError(c) ==
  /\ pc[c] = "draining"
  /\ conn[c] = "broken" \/ resp[c].body # "endless"
  /\ Release(c, Live(c))
  /\ pc' = [pc EXCEPT ![c] = "returned"]
  /\ result' = [result EXCEPT ![c] = IF Live(c) THEN @ ELSE Raw]
  /\ UNCHANGED <<req, verb, hops, attempt, resp, wire, ledger>>

\* drainAndClose, then Call returns.  io.Copy ends with the body, or with its
\* first error, which is dropped.
Drain(c) ==
  /\ pc[c] = "draining"
  /\ conn[c] = "broken" \/ resp[c].body # "endless"
  /\ Release(c, Live(c))
  /\ pc' = [pc EXCEPT ![c] = "returned"]
  /\ UNCHANGED <<req, verb, hops, attempt, result, resp, wire, ledger>>

\* The user of CallRaw reads what it wants and closes the body.
CloseRaw(c) ==
  /\ pc[c] = "handed"
  /\ Release(c, Live(c) /\ resp[c].body # "endless")
  /\ pc' = [pc EXCEPT ![c] = "returned"]
  /\ UNCHANGED <<req, verb, hops, attempt, result, resp, wire, ledger>>

-----------------------------------------------------------------------------
(* Time, the network and Paystack: external. *)

\* The connection is cut while a body is open on it.
Cut(c) ==
  /\ pc[c] \in {"reading", "draining", "handed"}
  /\ Live(c)
  /\ conn' = [conn EXCEPT ![c] = "broken"]
  /\ UNCHANGED <<pc, req, verb, hops, attempt, result, resp, idle, wire, ledger>>

\* Seeded fault: the deadline ends with the response header.
Expire_HeaderOnly(c) ==
  /\ c \in Deadlined
  /\ pc[c] \in {"connecting", "sending", "awaiting"}
  /\ DoFails(c)

\* The client's Timeout fires or the context ends.  Both cover the body.
Expire(c) ==
  /\ c \in Deadlined
  /\ \/ /\ pc[c] \in {"connecting", "sending", "awaiting"}
        /\ DoFails(c)
     \/ Cut(c)

\* The server closes a connection that waits in the pool.
IdleClosed ==
  /\ idle > 0
  /\ idle' = idle - 1
  /\ UNCHANGED <<pc, req, conn, verb, hops, attempt, result, resp, wire, ledger>>

Lose(m) ==
  /\ wire' = wire \ {m}
  /\ UNCHANGED <<pc, req, conn, verb, hops, attempt, result, resp, idle, ledger>>

\* Paystack says 2xx, with a JSON envelope whose status is true, only of what
\* it has carried out.  Any other answer says nothing: a proxy's page, a text,
\* an empty body.
Acknowledges(s) == Success(s.status) /\ s.ctype # "html" /\ s.body = "ok"

\* Paystack has already carried a request with this key out.
Known(m) == m.key \in Keys /\ \E e \in ledger : e.key = m.key

\* A copy arrives and is answered with s.  A write takes effect or not, but
\* never when its key is known, and never when the answer asks for the same
\* request again.  Nobody hears the answer to a copy whose caller no longer
\* waits for it.
Serve(m, s) ==
  /\ \/ /\ isWriteMethod(m.verb)
        /\ ~Known(m) /\ ~KeepsMethod(s)
        /\ ledger' = ledger \cup {m}
     \/ /\ Acknowledges(s) /\ isWriteMethod(m.verb) => Known(m)
        /\ UNCHANGED ledger
  /\ wire' = wire \ {m}
  /\ resp' = IF pc[m.call] = "awaiting" /\ attempt[m.call] = m.n
             THEN [resp EXCEPT ![m.call] = s] ELSE resp
  /\ UNCHANGED <<pc, req, conn, verb, hops, attempt, result, idle>>

\* The process dies; what it has sent stays on the wire.
Crash ==
  /\ \E c \in Calls : pc[c] \in Active
  /\ pc' = [c \in Calls |-> IF pc[c] \in Active THEN "crashed" ELSE pc[c]]
  /\ conn' = [c \in Calls |-> "none"]
  /\ idle' = 0
  /\ UNCHANGED <<req, verb, hops, attempt, result, resp, wire, ledger>>

-----------------------------------------------------------------------------
\* The steps the transport and the goroutine of c take by themselves.
Connect(c) == AcquireIdle(c) \/ Dial(c) \/ DialFails(c)

Proceed(c) ==
  \/ Transmit(c) \/ Follow(c) \/ TooManyRedirects(c) \/ Deliver(c)
  \/ ReadBody(c) \/ ReadFails(c) \/ Drain(c)

Finished == wire = {} /\ \A c \in Calls : pc[c] \in {"returned", "crashed"}

Next ==
  \/ \E c \in Calls :
       \/ \E r \in Requests : Start(c, r)
       \/ Connect(c) \/ Proceed(c)
       \/ Reconnect(c) \/ Break(c) \/ Cut(c) \/ Expire(c) \/ CloseRaw(c)
  \/ \E m \in wire : Lose(m) \/ \E s \in Responses : Serve(m, s)
  \/ IdleClosed
  \/ Crash
  \/ Finished /\ UNCHANGED vars

Spec == Init /\ [][Next]_vars

(***************************************************************************)
(* Goroutines run, the transport hands out a free connection, deadlines    *)
(* come, and the user of CallRaw closes the body as its comment demands.   *)
(* Nothing is assumed of the network or of Paystack.                       *)
(***************************************************************************)
Fairness ==
  \A c \in Calls :
    /\ WF_vars(Connect(c))
    /\ WF_vars(Proceed(c))
    /\ WF_vars(Expire(c))
    /\ WF_vars(CloseRaw(c))

FairSpec == Spec /\ Fairness

-----------------------------------------------------------------------------
(* What must hold. *)

TypeOK ==
  /\ pc \in [Calls -> Stages]
  /\ req \in [Calls -> Requests \cup {None}]
  /\ \A c \in Calls :
       /\ req[c] = None <=> pc[c] = "idle"
       /\ req[c] # None => verb[c] \in {req[c].verb, "GET"}
       /\ pc[c] \in {"reading", "draining", "handed"} => resp[c] # None
  /\ conn \in [Calls -> {"none", "new", "reused", "broken"}]
  /\ verb \in [Calls -> Verbs \cup {None}]
  /\ hops \in [Calls -> 0..MaxHops]
  /\ attempt \in [Calls -> Nat]
  /\ result \in [Calls -> Results]
  /\ resp \in [Calls -> Responses \cup {None}]
  /\ idle \in Nat
  /\ wire \subseteq Copy
  /\ ledger \subseteq Copy

\* What a call is about: its caller's key, or nothing but itself.
Intent(c) ==
  IF req[c] # None /\ req[c].key \in Keys THEN <<"key", req[c].key>> ELSE <<"call", c>>

\* Paystack has carried the intent of c out, for c or for a call like it.
CarriedOut(c) == \E e \in ledger : Intent(e.call) = Intent(c)

(***************************************************************************)
(* A caller that retries a call under the same key, after a timeout, after *)
(* a crash, or concurrently, is charged once; and so is a call that has no *)
(* key, whatever the transport does with it ("safe to retry across         *)
(* crashes", backend.go lines 135-137 and 192-202).                        *)
(***************************************************************************)
AtMostOnce ==
  \A e, f \in ledger : Intent(e.call) = Intent(f.call) => e = f

(***************************************************************************)
(* A write without a key is written to a connection once, and once more    *)
(* for each redirect that asks for it again: net/http must not take it for *)
(* a replayable request, whose copies Paystack could not tell apart        *)
(* (backend.go line 135: no header for an empty key; line 141).            *)
(***************************************************************************)
KeylessSentOnce ==
  \A c \in Calls :
    req[c] # None /\ isWriteMethod(verb[c]) /\ req[c].key \notin Keys
      => attempt[c] <= hops[c] + 1

(***************************************************************************)
(* A write that returns nil after a 2xx was carried out: no answer of a    *)
(* proxy passes for Paystack's, neither an HTML page, with or without an   *)
(* out, nor anything else that Call has an out to decode into (backend.go  *)
(* lines 86-110).  Three writes escape: one whose JSON has no true status, *)
(* at which Call does not look; one without an out whose answer is neither *)
(* an envelope nor HTML, which Call leaves Unread (lines 99-101); and one  *)
(* that a redirect turned into a GET, whose answer is about something else *)
(* (line 141).                                                             *)
(***************************************************************************)
Unread(c) ==
  /\ ~req[c].out
  /\ resp[c].ctype # "html" /\ resp[c].body \in {"garbage", "huge", "endless"}

NilMeansCharged ==
  \A c \in Calls :
    /\ result[c].kind = "nil" /\ isWriteMethod(verb[c])
    /\ Success(resp[c].status)
    /\ resp[c].body \notin {"declined", "bare"} /\ ~Unread(c)
    => CarriedOut(c)

(***************************************************************************)
(* No path out of Call leaves a body open and its connection taken: not    *)
(* the error returns after line 79, not a deadline, not a crash.           *)
(***************************************************************************)
NoConnLeak ==
  \A c \in Calls : pc[c] \in {"idle", "returned", "crashed"} => conn[c] = "none"

(***************************************************************************)
(* Once Call has decided what it returns, the deferred drainAndClose, a    *)
(* cut connection or a late deadline cannot change it (backend.go 204-207).*)
(***************************************************************************)
ResultStable ==
  [][\A c \in Calls : result[c] # Pending => result'[c] = result[c]]_vars

(***************************************************************************)
(* The strengthening under which the safety properties are inductive.      *)
(***************************************************************************)
\* A copy belongs to a call that was made, carries that call's header and,
\* until a redirect makes it a GET, its method; it is consumed when it takes
\* effect.
CopiesInv ==
  /\ wire \cap ledger = {}
  /\ \A m \in wire \cup ledger :
       /\ req[m.call] # None
       /\ m.n \in 1..attempt[m.call]
       /\ m.key = idempotencyHeader(req[m.call])
       /\ isWriteMethod(verb[m.call]) => m.verb = verb[m.call]
  /\ \A e \in ledger : isWriteMethod(e.verb)

\* What the transport may not replay it writes once for every request that
\* the client makes for the call.
SentInv ==
  \A c \in Calls :
    /\ req[c] = None => attempt[c] = 0 /\ hops[c] = 0
    /\ req[c] # None /\ ~isReplayable(verb[c], req[c]) =>
         /\ attempt[c] <= hops[c] + 1
         /\ pc[c] \in {"connecting", "sending"} => attempt[c] = hops[c]
         /\ pc[c] = "awaiting" => attempt[c] = hops[c] + 1

\* The writes of c that are on their way or have taken effect.
WriteCopies(c) == {m \in wire \cup ledger : m.call = c /\ isWriteMethod(m.verb)}

\* A write without a key exists once, and no longer when it has to be written
\* again.
SingleInv ==
  \A c \in Calls : req[c] # None /\ req[c].key \notin Keys =>
    /\ \A m, e \in WriteCopies(c) : m = e
    /\ isWriteMethod(verb[c]) =>
         /\ pc[c] \in {"connecting", "sending"} => WriteCopies(c) = {}
         /\ resp[c] # None /\ KeepsMethod(resp[c]) => WriteCopies(c) = {}

\* A result is fixed when the body has been read, never earlier; an
\* acknowledgement on a connection stands for an effect; nil stands for a
\* response that Call let through.
ResultInv ==
  \A c \in Calls :
    /\ pc[c] \in {"idle", "connecting", "sending", "awaiting", "reading"} =>
         result[c] = Pending
    /\ pc[c] \in {"idle", "connecting", "sending"} => resp[c] = None
    /\ resp[c] # None /\ Acknowledges(resp[c]) /\ isWriteMethod(verb[c]) => CarriedOut(c)
    /\ result[c].kind = "nil" =>
         /\ req[c] # None /\ resp[c] # None
         /\ ~isHTML(resp[c].ctype, resp[c].body)
         /\ req[c].out => decodes(resp[c])

BackendInv ==
  /\ TypeOK /\ CopiesInv /\ SentInv /\ SingleInv /\ ResultInv /\ NoConnLeak /\ AtMostOnce

(***************************************************************************)
(* The payment contract, with the network, the transport and the responses *)
(* hidden: Call and net/http together implement it.                        *)
(***************************************************************************)
Accepted(c) ==
  pc[c] = "returned" /\ result[c] = Nil /\ isWriteMethod(verb[c]) /\ Acknowledges(resp[c])

ContractPhase(c) ==
  CASE pc[c] = "idle"   -> "new"
    [] pc[c] \in Active -> "open"
    [] pc[c] \in {"returned", "crashed"} -> IF Accepted(c) THEN "accepted" ELSE "unknown"

Contract == INSTANCE PaymentContract WITH
  Intents <- ({"key"} \X Keys) \cup ({"call"} \X Calls),
  phase   <- [c \in Calls |-> ContractPhase(c)],
  intent  <- [c \in Calls |-> Intent(c)],
  charged <- ledger

ImplementsContract == Contract!Spec

(***************************************************************************)
(* "Every non-2xx response is returned as a *paystack.Error" (README.md    *)
(* line 111, backend.go lines 72-73, errors.go line 23), for a response    *)
(* whose header has arrived.                                               *)
(***************************************************************************)
Non2xxIsError ==
  \A c \in Calls :
    /\ pc[c] = "returned" /\ resp[c] # None
    /\ ~req[c].raw /\ ~Success(resp[c].status)
    => result[c].kind = "Error"

(***************************************************************************)
(* A nil params pointer is a request without parameters: the tests list    *)
(* with nil and expect no error (tests/transaction_test.go lines 84-87).   *)
(***************************************************************************)
NilParamsAreAllowed ==
  \A c \in Calls :
    req[c] # None /\ req[c].params = "typednil" => result[c].kind # "panic"

(***************************************************************************)
(* A call with a deadline returns, whatever the server does: not even an   *)
(* endless body holds it in drainAndClose (backend.go lines 66-67, 79).    *)
(***************************************************************************)
DeadlineReturns ==
  \A c \in Deadlined :
    pc[c] \in Active ~> pc[c] \in {"returned", "crashed"}

(***************************************************************************)
(* A call that waits for a connection gets one, or an error, even without  *)
(* a deadline of its own, as long as the others have one: every call gives *)
(* its connection back.                                                    *)
(***************************************************************************)
WaiterProceeds ==
  \A c \in Calls : Calls \ {c} \subseteq Deadlined =>
    (pc[c] = "connecting" ~> pc[c] # "connecting")
=============================================================================
