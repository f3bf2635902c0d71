------------------------------- MODULE Client -------------------------------
(***************************************************************************)
(* paystack.go, client.go and the context.go of the web adapters: a        *)
(* program makes its clients with New and installs them with Middleware;   *)
(* handlers, one goroutine each, take theirs with ClientFrom and call a    *)
(* service.  In a test the backends are internal/testutil's MockBackends,  *)
(* which the handlers share and the test inspects while they run; what an  *)
(* HTTPBackend does with a call is the subject of module HTTPBackend.      *)
(***************************************************************************)
EXTENDS Naturals, Sequences, FiniteSets, SequencesExt

CONSTANTS
  Goroutines,   \* handlers, and goroutines of the test
  Mocks,        \* MockBackends
  Clients,      \* the clients the program makes
  Keys,         \* the secret keys it makes them with, by their prefix
  OptionsFor,   \* the lists of options it may make each client with
  Routes,       \* the clients whose Middleware a route has, outermost first
  MaxUses,      \* how many requests or inspections a goroutine runs
  ErrInvalidKey, Panic, Void,   \* results other than values
  None          \* Go's nil; also: not there yet, nobody

ASSUME ClientAssumption ==
  /\ None \notin Goroutines \cup Mocks \cup Clients
  /\ Routes \subseteq Seq(Clients)
  /\ MaxUses \in Nat

Kinds == {"backend", "httpClient", "baseURL", "logger", "leveled"}

\* A URL is a sequence of its parts; the empty one is not a base URL.
ASSUME OptionsAssumption ==
  /\ Keys \subseteq {"sk_test_", "sk_live_", "other"}
  /\ \A k \in Clients : \A options \in OptionsFor[k] :
       /\ options \in Seq(Range(options))
       /\ \A i \in DOMAIN options :
            /\ options[i].kind \in Kinds
            /\ options[i].kind = "baseURL" => options[i].value \in Seq(Range(options[i].value))

VARIABLES
  client,   \* client[k]: None, ErrInvalidKey, or the backend behind it
  pc,       \* where each goroutine is
  uses,     \* how many requests or inspections it has begun
  route,    \* the route of its request
  left,     \* the Middlewares that have still to run
  ctx,      \* the client stored in its request's context
  op,       \* which method of a MockBackend it runs
  at,       \* of which MockBackend
  reg,      \* the slice that method has read
  ret,      \* what it returns
  lock,     \* the owner of each MockBackend's mutex, or None
  calls,    \* the calls each MockBackend has recorded
  live      \* routes whose handlers have reached an HTTPBackend

vars == <<client, pc, uses, route, left, ctx, op, at, reg, ret, lock, calls, live>>

request == <<client, route, left, ctx, uses, live>>

-----------------------------------------------------------------------------
(* New. *)

noOptions == [kind \in Kinds |-> None]

\* An Option is [kind, value], and sets one field of clientOptions.
apply(o, option) == [o EXCEPT ![option.kind] = option.value]

\* New applies the options in their order.
applied(options) ==
  LET after[i \in 0..Len(options)] ==
        IF i = 0 THEN noOptions ELSE apply(after[i - 1], options[i])
  IN  after[Len(options)]

validKey(key) == key \in {"sk_test_", "sk_live_"}

TrimRight(url) == SubSeq(url, 1, Max({0} \cup {i \in DOMAIN url : url[i] # "/"}))

DefaultBaseURL == <<"api.paystack.co">>

NewHTTPBackend(o) ==
  [client  |-> IF o.httpClient # None THEN o.httpClient ELSE "with timeout",
   base    |-> IF o.baseURL \notin {None, <<>>} THEN TrimRight(o.baseURL) ELSE DefaultBaseURL,
   log     |-> o.logger,
   leveled |-> o.leveled]

\* Seeded fault: an http.Client given on its own account wins.
newClient_HTTPClientWins(o) ==
  IF o.backend # None /\ o.httpClient = None THEN o.backend ELSE NewHTTPBackend(o)

newClient(o) == IF o.backend # None THEN o.backend ELSE NewHTTPBackend(o)

\* A MockBackend is no HTTPBackend.
ASSUME BackendsDiffer ==
  \A k \in Clients : \A options \in OptionsFor[k] : NewHTTPBackend(applied(options)) \notin Mocks

New(k, key, options) ==
  /\ client[k] = None
  /\ client' = [client EXCEPT ![k] =
                  IF validKey(key) THEN newClient(applied(options))
                  ELSE ErrInvalidKey]
  /\ UNCHANGED <<pc, uses, route, left, ctx, op, at, reg, ret, lock, calls, live>>

\* The logger that an HTTPBackend's logRequest uses.
logRequest(b) == IF b.leveled # None THEN b.leveled ELSE b.log

-----------------------------------------------------------------------------
(* Requests, and the client in their context. *)

Made(k) == client[k] \notin {None, ErrInvalidKey}

\* The program serves once its clients are made.  The framework hands every
\* request an empty context.
Arrive(g, rt) ==
  /\ pc[g] = "idle" /\ uses[g] < MaxUses
  /\ \A k \in Clients : client[k] # None
  /\ \A i \in DOMAIN rt : Made(rt[i])
  /\ pc' = [pc EXCEPT ![g] = "routing"]
  /\ uses' = [uses EXCEPT ![g] = @ + 1]
  /\ route' = [route EXCEPT ![g] = rt]
  /\ left' = [left EXCEPT ![g] = rt]
  /\ ctx' = [ctx EXCEPT ![g] = None]
  /\ UNCHANGED <<client, op, at, reg, ret, lock, calls, live>>

\* Seeded fault: a client that is already there stays.
Middleware_KeepsFirst(g) ==
  /\ pc[g] = "routing" /\ left[g] # <<>>
  /\ ctx' = [ctx EXCEPT ![g] = IF @ = None THEN Head(left[g]) ELSE @]
  /\ left' = [left EXCEPT ![g] = Tail(@)]
  /\ UNCHANGED <<client, pc, uses, route, op, at, reg, ret, lock, calls, live>>

\* One Middleware stores its client and calls the next handler.
Middleware(g) ==
  /\ pc[g] = "routing" /\ left[g] # <<>>
  /\ ctx' = [ctx EXCEPT ![g] = Head(left[g])]
  /\ left' = [left EXCEPT ![g] = Tail(@)]
  /\ UNCHANGED <<client, pc, uses, route, op, at, reg, ret, lock, calls, live>>

\* ClientFrom returns nil where no Middleware has run.
ClientFrom(g) == ctx[g]

\* The request is over, and with it its context.
Answered(g) ==
  /\ pc' = [pc EXCEPT ![g] = "idle"]
  /\ route' = [route EXCEPT ![g] = <<>>]
  /\ ctx' = [ctx EXCEPT ![g] = None]

\* The handler has no client: it answers without a call.
NoClient(g) ==
  /\ pc[g] = "routing" /\ left[g] = <<>>
  /\ ClientFrom(g) = None
  /\ Answered(g)
  /\ UNCHANGED <<client, uses, left, op, at, reg, ret, lock, calls, live>>

\* The handler calls a service, whose backend is a MockBackend.
CallService(g) ==
  /\ pc[g] = "routing" /\ left[g] = <<>>
  /\ ClientFrom(g) # None
  /\ client[ClientFrom(g)] \in Mocks
  /\ pc' = [pc EXCEPT ![g] = "locking"]
  /\ op' = [op EXCEPT ![g] = "Call"]
  /\ at' = [at EXCEPT ![g] = client[ClientFrom(g)]]
  /\ UNCHANGED <<request, reg, ret, lock, calls>>

\* The same, with the live HTTPBackend.
CallLive(g) ==
  /\ pc[g] = "routing" /\ left[g] = <<>>
  /\ ClientFrom(g) # None
  /\ client[ClientFrom(g)] \notin Mocks
  /\ live' = live \cup {route[g]}
  /\ Answered(g)
  /\ UNCHANGED <<client, uses, left, op, at, reg, ret, lock, calls>>

\* The test looks at a MockBackend, at any time.
Inspect(g, b, method) ==
  /\ pc[g] = "idle" /\ uses[g] < MaxUses
  /\ \A k \in Clients : client[k] # None
  /\ pc' = [pc EXCEPT ![g] = "locking"]
  /\ uses' = [uses EXCEPT ![g] = @ + 1]
  /\ op' = [op EXCEPT ![g] = method]
  /\ at' = [at EXCEPT ![g] = b]
  /\ UNCHANGED <<client, route, left, ctx, reg, ret, lock, calls, live>>

-----------------------------------------------------------------------------
(* MockBackend: each method's reads and writes of the slice are steps.     *)

\* What Call and CallRaw append stands for the route the call came from.
record(g) == route[g]

\* Seeded fault: no mutex.
Lock_None(g) ==
  /\ pc[g] = "locking"
  /\ pc' = [pc EXCEPT ![g] = "reading"]
  /\ UNCHANGED <<request, op, at, reg, ret, lock, calls>>

Lock(g) ==
  /\ pc[g] = "locking"
  /\ lock[at[g]] = None
  /\ lock' = [lock EXCEPT ![at[g]] = g]
  /\ pc' = [pc EXCEPT ![g] = "reading"]
  /\ UNCHANGED <<request, op, at, reg, ret, calls>>

\* append, make and len read the slice; Reset does not.
ReadSlice(g) ==
  /\ pc[g] = "reading"
  /\ reg' = [reg EXCEPT ![g] = calls[at[g]]]
  /\ pc' = [pc EXCEPT ![g] = "writing"]
  /\ UNCHANGED <<request, op, at, ret, lock, calls>>

Returns(g, value) ==
  /\ ret' = [ret EXCEPT ![g] = value]
  /\ pc' = [pc EXCEPT ![g] = "unlocking"]

\* The goroutine is idle again, and nothing of the method is left.
Left(g) ==
  /\ Answered(g)
  /\ op' = [op EXCEPT ![g] = None]
  /\ at' = [at EXCEPT ![g] = None]
  /\ reg' = [reg EXCEPT ![g] = <<>>]
  /\ ret' = [ret EXCEPT ![g] = None]

\* Seeded fault: LastCall unlocks by hand, and a panic leaves the lock.
LastCall_NoDefer(g) ==
  /\ pc[g] = "writing" /\ op[g] = "LastCall"
  /\ IF reg[g] = <<>>
     THEN Left(g)
     ELSE /\ Returns(g, calls[at[g]][Len(calls[at[g]])])
          /\ UNCHANGED <<route, ctx, op, at, reg>>
  /\ UNCHANGED <<client, uses, left, lock, calls, live>>

\* LastCall panics, or reads the last element; were the slice empty by then,
\* Go would panic.
LastCall(g) ==
  /\ pc[g] = "writing" /\ op[g] = "LastCall"
  /\ Returns(g, IF reg[g] = <<>> \/ calls[at[g]] = <<>> THEN Panic
                ELSE calls[at[g]][Len(calls[at[g]])])
  /\ UNCHANGED <<request, op, at, reg, lock, calls>>

\* Calls copies what fits into the slice it has made.
CallsCopy(g) ==
  /\ pc[g] = "writing" /\ op[g] = "Calls"
  /\ Returns(g, [i \in 1..Len(reg[g]) |->
                   IF i <= Len(calls[at[g]]) THEN calls[at[g]][i] ELSE None])
  /\ UNCHANGED <<request, op, at, reg, lock, calls>>

\* The recording half of Call and CallRaw.
Record(g) ==
  /\ pc[g] = "writing" /\ op[g] = "Call"
  /\ calls' = [calls EXCEPT ![at[g]] = Append(reg[g], record(g))]
  /\ Returns(g, Void)
  /\ UNCHANGED <<request, op, at, reg, lock>>

Reset(g) ==
  /\ pc[g] = "writing" /\ op[g] = "Reset"
  /\ calls' = [calls EXCEPT ![at[g]] = <<>>]
  /\ Returns(g, Void)
  /\ UNCHANGED <<request, op, at, reg, lock>>

\* Unlock, deferred where the method may panic.  What Call does then, return
\* Err or decode Response, changes nothing of the mock.
Unlock(g) ==
  /\ pc[g] = "unlocking"
  /\ lock' = [lock EXCEPT ![at[g]] = None]
  /\ Left(g)
  /\ UNCHANGED <<client, uses, left, calls, live>>

-----------------------------------------------------------------------------
Init ==
  /\ client = [k \in Clients |-> None]
  /\ pc = [g \in Goroutines |-> "idle"]
  /\ uses = [g \in Goroutines |-> 0]
  /\ route = [g \in Goroutines |-> <<>>]
  /\ left = [g \in Goroutines |-> <<>>]
  /\ ctx = [g \in Goroutines |-> None]
  /\ op = [g \in Goroutines |-> None]
  /\ at = [g \in Goroutines |-> None]
  /\ reg = [g \in Goroutines |-> <<>>]
  /\ ret = [g \in Goroutines |-> None]
  /\ lock = [b \in Mocks |-> None]
  /\ calls = [b \in Mocks |-> <<>>]
  /\ live = {}

\* A goroutine's own steps, apart from waiting for a mutex.
Proceed(g) ==
  \/ Middleware(g) \/ NoClient(g) \/ CallService(g) \/ CallLive(g)
  \/ ReadSlice(g) \/ LastCall(g) \/ CallsCopy(g) \/ Record(g) \/ Reset(g) \/ Unlock(g)

Finished ==
  \A g \in Goroutines : pc[g] = "idle" /\ (uses[g] = MaxUses \/ \E k \in Clients : client[k] = None)

Next ==
  \/ \E k \in Clients, key \in Keys : \E options \in OptionsFor[k] : New(k, key, options)
  \/ \E g \in Goroutines :
       \/ \E rt \in Routes : Arrive(g, rt)
       \/ \E b \in Mocks, method \in {"Calls", "LastCall", "Reset"} : Inspect(g, b, method)
       \/ Lock(g) \/ Proceed(g)
  \/ Finished /\ UNCHANGED vars

Spec == Init /\ [][Next]_vars

(***************************************************************************)
(* Goroutines run, and one that waits for a mutex that is unlocked again   *)
(* and again gets it (sync.Mutex has a starvation mode).                   *)
(***************************************************************************)
FairSpec == Spec /\ \A g \in Goroutines : WF_vars(Proceed(g)) /\ SF_vars(Lock(g))

-----------------------------------------------------------------------------
(* What must hold. *)

Stages == {"idle", "routing", "locking", "reading", "writing", "unlocking"}

Inside == {"reading", "writing", "unlocking"}

Requests == Routes \cup {<<>>}

Log == Seq(Requests)

Answers == {None, Void, Panic} \cup Requests \cup Log

TypeOK ==
  /\ DOMAIN client = Clients
  /\ pc \in [Goroutines -> Stages]
  /\ uses \in [Goroutines -> 0..MaxUses]
  /\ route \in [Goroutines -> Requests]
  /\ left \in [Goroutines -> Seq(Clients)]
  /\ ctx \in [Goroutines -> Clients \cup {None}]
  /\ op \in [Goroutines -> {"Call", "Calls", "LastCall", "Reset", None}]
  /\ at \in [Goroutines -> Mocks \cup {None}]
  /\ reg \in [Goroutines -> Log]
  /\ ret \in [Goroutines -> Answers]
  /\ lock \in [Mocks -> Goroutines \cup {None}]
  /\ calls \in [Mocks -> Log]
  /\ live \subseteq Requests

(***************************************************************************)
(* What the comments promise of a list of options (paystack.go lines       *)
(* 29-57): the last option of a kind counts; a Backend, unless it is nil,  *)
(* makes the others irrelevant wherever they stand; a leveled logger comes *)
(* before a plain one; a base URL loses its slashes at the end and nothing *)
(* else.  And a key without a known prefix makes no client.                *)
(***************************************************************************)
LastOf(kind, options) ==
  LET places == {i \in DOMAIN options : options[i].kind = kind}
  IN  IF places = {} THEN None
      ELSE options[CHOOSE i \in places : \A j \in places : j <= i].value

AsDocumented(b, key, options) ==
  LET backend == LastOf("backend", options)
      base    == LastOf("baseURL", options)
      leveled == LastOf("leveled", options)
  IN  CASE key = "other" -> b = ErrInvalidKey
        [] key # "other" /\ backend # None -> b = backend
        [] OTHER ->
             /\ b \notin Mocks
             /\ LastOf("httpClient", options) # None => b.client = LastOf("httpClient", options)
             /\ IF base \in {None, <<>>} THEN b.base = DefaultBaseURL
                ELSE /\ IsPrefix(b.base, base)
                     /\ b.base # <<>> => Last(b.base) # "/"
                     /\ \A i \in DOMAIN base : i > Len(b.base) => base[i] = "/"
             /\ logRequest(b) = IF leveled # None THEN leveled ELSE LastOf("logger", options)

OptionsAsDocumented ==
  [][\A k \in Clients :
       client'[k] # client[k] =>
         \A key \in Keys : \A options \in OptionsFor[k] :
           New(k, key, options) => AsDocumented(client'[k], key, options)]_vars

(***************************************************************************)
(* A handler's call goes to the backend of the client that the innermost   *)
(* Middleware of its route installed, also when other tenants' requests    *)
(* run in between: no mock records another client's call, and nothing goes *)
(* live that has a mock (client.go 36-58, context.go of each adapter).     *)
(***************************************************************************)
BackendOf(rt) == client[Last(rt)]

CallsReachOwnBackend ==
  /\ \A b \in Mocks : \A i \in DOMAIN calls[b] :
       calls[b][i] # <<>> /\ BackendOf(calls[b][i]) = b
  /\ \A rt \in live : rt # <<>> /\ BackendOf(rt) \notin Mocks

(***************************************************************************)
(* A MockBackend records each call once and in one piece, and what Calls   *)
(* and LastCall return was its record at one moment while they ran.        *)
(***************************************************************************)
Methods == {"Call", "Calls", "LastCall", "Reset"}

InUse(g) == pc[g] = "locking" \/ pc[g] \in Inside

Recording == INSTANCE Recorder WITH
  Records <- Requests,
  log     <- calls,
  use     <- [g \in Goroutines |->
                IF InUse(g) THEN <<[op |-> op[g], mock |-> at[g], rec |-> record(g)]>> ELSE <<>>],
  answer  <- [g \in Goroutines |-> IF pc[g] = "unlocking" THEN <<ret[g]>> ELSE <<>>]

ImplementsRecorder == Recording!Spec

(***************************************************************************)
(* Every use of a MockBackend ends, also when another one panics: no panic *)
(* leaves the mutex locked (testutil/backend.go lines 95-99).              *)
(***************************************************************************)
UsesEnd == \A g \in Goroutines : InUse(g) ~> pc[g] = "idle"

(***************************************************************************)
(* The strengthening under which the recorder's atomicity is inductive: a  *)
(* goroutine between Lock and Unlock owns the mutex of its mock, and the   *)
(* slice it has read is the current one.                                   *)
(***************************************************************************)
MutexInv ==
  \A g \in Goroutines :
    /\ InUse(g) => at[g] \in Mocks /\ op[g] \in Methods
    /\ \A b \in Mocks : lock[b] = g <=> pc[g] \in Inside /\ at[g] = b
    /\ pc[g] = "writing" => reg[g] = calls[at[g]]

(***************************************************************************)
(* The strengthening for CallsReachOwnBackend: the Middlewares still to    *)
(* run end with the route's innermost one, the context holds it once they  *)
(* have run, and a call under way is at its client's backend.              *)
(***************************************************************************)
RoutingInv ==
  /\ \A g \in Goroutines :
       /\ route[g] # <<>> => BackendOf(route[g]) # None
       /\ pc[g] = "idle" => route[g] = <<>>
       /\ pc[g] = "routing" =>
            /\ left[g] # <<>> => route[g] # <<>> /\ Last(left[g]) = Last(route[g])
            /\ left[g] = <<>> /\ route[g] # <<>> => ctx[g] = Last(route[g])
            /\ ctx[g] # None => route[g] # <<>>
       /\ InUse(g) /\ op[g] = "Call" => route[g] # <<>> /\ BackendOf(route[g]) = at[g]
  /\ \A rt \in live : BackendOf(rt) # None

ClientInv == MutexInv /\ RoutingInv
=============================================================================
