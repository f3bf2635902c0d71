------------------------------ MODULE Webhook ------------------------------
(***************************************************************************)
(* webhook.go and the WebhookHandler of paystackgin, paystackecho and      *)
(* paystackfiber: Paystack posts each event until one post is answered 200 *)
(* (external), a server runs one handler per post, several at a time, and  *)
(* the application's fn gets the event.                                    *)
(*                                                                         *)
(* A slot is a place where the server handles one post after another: for  *)
(* fiber it is a pooled request context, whose body buffer the next post   *)
(* in the slot overwrites; the other servers allocate a body per post.     *)
(*                                                                         *)
(* A body is the first len bytes of event's body, intact or altered on the *)
(* way.  A signature is the body and the secret it was computed over: HMAC *)
(* as injective.  The handlers may have been made with an empty secret.    *)
(***************************************************************************)
EXTENDS Integers

CONSTANTS
  Events,                 \* the events Paystack has to report
  Size,                   \* bytes in the body of each
  Unnamed,                \* those whose body has no `event` member
  MaxWebhookBodyBytes,
  Slots,
  Entry,                  \* the entry point that serves each slot
  Posts,                  \* the requests that can reach the server
  Secret,                 \* the secret shared with Paystack
  Empty,                  \* the empty secret
  None                    \* no signature, no request yet

ASSUME WebhookAssumption ==
  /\ Size \in [Events -> Nat \ {0}]
  /\ Unnamed \subseteq Events
  /\ MaxWebhookBodyBytes \in Nat \ {0}
  /\ Entry \in [Slots -> {"ParseWebhook", "gin", "echo", "fiber"}]
  /\ Secret # Empty

Body == [event : Events, len : Nat, intact : BOOLEAN]

Whole(e) == [event |-> e, len |-> Size[e], intact |-> TRUE]

\* HMAC of a body under a secret.
Sign(b, k) == [body |-> b, secret |-> k]

\* cut: the connection ends where the body should go on.
Post ==
  [body : Body, sig : [body : Body, secret : {Secret, Empty}] \cup {None}, cut : BOOLEAN]

\* What Paystack posts to report e.
Genuine(e) == [body |-> Whole(e), sig |-> Sign(Whole(e), Secret), cut |-> FALSE]

\* Only Paystack signs with the secret, and it signs whole bodies; with the
\* empty one anybody can sign anything.
ASSUME PostsAssumption ==
  /\ None \notin Post /\ None \notin [body : Body, secret : {Secret, Empty}]
  /\ Posts \subseteq Post
  /\ \A p \in Posts :
       p.sig = None \/ p.sig.secret = Empty \/ p.sig = Sign(Whole(p.body.event), Secret)
  /\ \A e \in Events : Genuine(e) \in Posts

VARIABLES
  secret,    \* the secret the handlers were made with
  stage,     \* where the handler in each slot is
  request,   \* the last request of each slot: its buffer, for fiber
  status,    \* the status code about to be sent, 0: none
  given,     \* the *Event values fn has been given since the process started
  done,      \* events for which fn has returned nil
  acked      \* events Paystack has seen a 200 for

vars == <<secret, stage, request, status, given, done, acked>>

Init ==
  /\ secret \in {Secret, Empty}
  /\ stage = [d \in Slots |-> "free"]
  /\ request = [d \in Slots |-> None]
  /\ status = [d \in Slots |-> 0]
  /\ given = {} /\ done = {} /\ acked = {}

-----------------------------------------------------------------------------
(* webhook.go *)

\* Seeded fault: the whole body is read.
limited_Not(b) == b

\* io.LimitReader: a longer body is cut, without an error.
limited(b) ==
  IF b.len > MaxWebhookBodyBytes THEN [b EXCEPT !.len = MaxWebhookBodyBytes] ELSE b

\* Seeded fault: a body that just fits is too long as well.
tooLong_AtLimit(b) == b.len >= MaxWebhookBodyBytes

\* Fiber has the whole body in hand and looks at its length.
tooLong(b) == b.len > MaxWebhookBodyBytes

\* What the entry point of d goes on with.
read(d) == IF Entry[d] = "fiber" THEN request[d].body ELSE limited(request[d].body)

\* Seeded fault: no check for an empty secret.
Verify_AnySecret(b, sig, k) == sig # None /\ sig = Sign(b, k)

Verify(b, sig, k) == sig # None /\ k # Empty /\ sig = Sign(b, k)

\* ParseEvent succeeds: a whole JSON document with an `event` member.  What was
\* altered on the way may well be JSON still.
parses(b) == b.len = Size[b.event] /\ b.event \notin Unnamed

\* Seeded fault: Data is the slice of the body it was found in.
dataOf_Aliased(d, b) ==
  [at |-> IF Entry[d] = "fiber" THEN d ELSE None, bytes |-> b]

\* json.RawMessage copies the bytes it is given: Data has storage of its own.
dataOf(d, b) == [at |-> None, bytes |-> b]

\* The bytes that *Event.Data reads as now.
bytesOf(data) == IF data.at = None THEN data.bytes ELSE request[data.at].body

Event(d, b) == [type |-> b.event, data |-> dataOf(d, b)]

-----------------------------------------------------------------------------
(* The handler of slot d. *)

respond(d, code) ==
  /\ stage' = [stage EXCEPT ![d] = "answering"]
  /\ status' = [status EXCEPT ![d] = code]

\* ReadAll meets the end of a body that was cut, unless the limit comes first.
readFails(d) == request[d].cut /\ request[d].body.len < MaxWebhookBodyBytes

\* The body is read: an error, or for fiber its length, ends it here.
ReadBody(d) ==
  /\ stage[d] = "arrived"
  /\ IF IF Entry[d] = "fiber" THEN tooLong(request[d].body) ELSE readFails(d)
     THEN respond(d, 400)
     ELSE stage' = [stage EXCEPT ![d] = "verifying"] /\ UNCHANGED status
  /\ UNCHANGED <<secret, request, given, done, acked>>

\* Verify, ParseEvent and the call of fn.
Dispatch(d) ==
  /\ stage[d] = "verifying"
  /\ IF Verify(read(d), request[d].sig, secret) /\ parses(read(d))
     THEN /\ stage' = [stage EXCEPT ![d] = "handling"]
          /\ given' = given \cup {Event(d, read(d))}
          /\ UNCHANGED status
     ELSE respond(d, 400) /\ UNCHANGED given
  /\ UNCHANGED <<secret, request, done, acked>>

Errors == {"nil", "ErrInvalidSignature", "other"}

\* Seeded fault: a signature error of fn is answered like net/http users do.
statusOf_Unauthorized(err) ==
  CASE err = "nil" -> 200 [] err = "ErrInvalidSignature" -> 401 [] err = "other" -> 500

\* Seeded fault: fn's error is logged and forgotten.
statusOf_Swallowed(err) == 200

statusOf(err) ==
  CASE err = "nil" -> 200 [] err = "ErrInvalidSignature" -> 400 [] err = "other" -> 500

FnReturns(d, err) ==
  /\ stage[d] = "handling"
  /\ done' = IF err = "nil" THEN done \cup {request[d].body.event} ELSE done
  /\ respond(d, statusOf(err))
  /\ UNCHANGED <<secret, request, given, acked>>

-----------------------------------------------------------------------------
(* Paystack, the network and the server: external. *)

Free(d) ==
  /\ stage' = [stage EXCEPT ![d] = "free"]
  /\ status' = [status EXCEPT ![d] = 0]

\* A post arrives.  Paystack repeats an event, even while it is being
\* handled, until it knows that it was.  Fiber never runs a handler for a
\* body that was cut.
Arrive(d, p) ==
  /\ stage[d] = "free"
  /\ p.body.event \notin acked
  /\ Entry[d] = "fiber" => ~p.cut
  /\ stage' = [stage EXCEPT ![d] = "arrived"]
  /\ request' = [request EXCEPT ![d] = p]
  /\ UNCHANGED <<secret, status, given, done, acked>>

\* The status reaches whoever posted.
Answer(d) ==
  /\ stage[d] = "answering"
  /\ acked' = IF status[d] = 200 THEN acked \cup {request[d].body.event} ELSE acked
  /\ Free(d)
  /\ UNCHANGED <<secret, request, given, done>>

\* The connection is gone before the status is, or fn panicked.
AnswerLost(d) ==
  /\ stage[d] \in {"handling", "answering"}
  /\ Free(d)
  /\ UNCHANGED <<secret, request, given, done, acked>>

\* The process dies, between any two steps; what fn made durable remains.
Crash ==
  /\ stage' = [d \in Slots |-> "free"]
  /\ status' = [d \in Slots |-> 0]
  /\ given' = {}
  /\ UNCHANGED <<secret, request, done, acked>>

Next ==
  \/ \E d \in Slots :
       \/ \E p \in Posts : Arrive(d, p)
       \/ ReadBody(d) \/ Dispatch(d)
       \/ \E err \in Errors : FnReturns(d, err)
       \/ Answer(d) \/ AnswerLost(d)
  \/ Crash

Spec == Init /\ [][Next]_vars

(***************************************************************************)
(* Handlers and fn run and end, and the server answers.  Of Paystack, the  *)
(* network, the host and fn: however often a post is lost, the process     *)
(* dies or fn fails, an event that keeps being posted gets through, and an *)
(* event that keeps being handled is handled without error once.           *)
(***************************************************************************)
Serving(e, d) == request[d] = Genuine(e)

\* The events the handlers are there for.
Deliverable == {e \in Events \ Unnamed : Size[e] <= MaxWebhookBodyBytes}

Fairness ==
  /\ \A d \in Slots :
       /\ WF_vars(ReadBody(d)) /\ WF_vars(Dispatch(d))
       /\ WF_vars(\E err \in Errors : FnReturns(d, err))
       /\ WF_vars(Answer(d) \/ AnswerLost(d))
  /\ \A e \in Deliverable :
       /\ SF_vars(\E d \in Slots : Arrive(d, Genuine(e)))
       /\ SF_vars(\E d \in Slots : Serving(e, d) /\ ReadBody(d))
       /\ SF_vars(\E d \in Slots : Serving(e, d) /\ Dispatch(d))
       /\ SF_vars(\E d \in Slots : Serving(e, d) /\ FnReturns(d, "nil"))

FairSpec == Spec /\ Fairness

-----------------------------------------------------------------------------
(* What must hold. *)

\* The types, and which handlers have a status to send.
TypeOK ==
  /\ secret \in {Secret, Empty}
  /\ stage \in [Slots -> {"free", "arrived", "verifying", "handling", "answering"}]
  /\ request \in [Slots -> Posts \cup {None}]
  /\ status \in [Slots -> {0, 200, 400, 500}]
  /\ \A d \in Slots :
       /\ status[d] # 0 <=> stage[d] = "answering"
       /\ stage[d] # "free" => request[d] # None
  /\ given \subseteq
       [type : Events, data : [at : Slots \cup {None}, bytes : Body]]
  /\ done \subseteq Events /\ acked \subseteq Events

(***************************************************************************)
(* An event that fn has been given is one that Paystack reported, whole,   *)
(* and stays so for as long as the application keeps it: nothing truncated *)
(* or altered gets past Verify, nothing at all when the handlers have an   *)
(* empty secret, under which anybody can sign, and no later post in the    *)
(* same slot shows through the Data of an earlier one (webhook.go 53-56,   *)
(* 68, 82-91, paystackfiber/webhook.go 18-28).                             *)
(***************************************************************************)
GivenIsGenuine ==
  \A ev \in given : bytesOf(ev.data) = Whole(ev.type) /\ ev.type \notin Unnamed

(***************************************************************************)
(* Paystack stops repeating an event only when fn has returned nil for it, *)
(* in some process, for some post: a crash, a lost answer, a failing fn or *)
(* a post that was cut or altered never loses an event                     *)
(* (paystackgin/webhook.go 41-48 and its twins).                           *)
(***************************************************************************)
AckMeansHandled == acked \subseteq done

(***************************************************************************)
(* With the secret, every event that fits is handled in the end, whichever *)
(* slots its posts land in: no entry point turns a genuine event away for  *)
(* good, one of exactly MaxWebhookBodyBytes included (webhook.go line 100, *)
(* paystackfiber/webhook.go line 19).                                      *)
(***************************************************************************)
EventHandled == secret = Secret => \A e \in Deliverable : <>(e \in done)

(***************************************************************************)
(* "Oversized body is rejected before HMAC is computed" (ARCHITECTURE.md   *)
(* line 330).  Verify computes an HMAC as soon as there is a signature.    *)
(***************************************************************************)
OversizedNotHashed ==
  \A d \in Slots :
    stage[d] = "verifying" /\ request[d].sig # None =>
      request[d].body.len <= MaxWebhookBodyBytes

(***************************************************************************)
(* The handlers deliver at least once: fn is given only events that fit,   *)
(* an event is done only after fn was given it in the same process, and    *)
(* acknowledged only after that, whatever runs, fails or dies in between   *)
(* (webhook.go 53-111, paystackgin/webhook.go 27-50 and its twins).        *)
(***************************************************************************)
takenTypes == {ev.type : ev \in given}

AtLeastOnce == INSTANCE Delivery WITH Wanted <- Deliverable, taken <- takenTypes

ImplementsDelivery == AtLeastOnce!Spec

\* What the acknowledgement rests on: whose body fits, who is in fn, and who
\* is told 200.
HandlerInv ==
  /\ \A d \in Slots :
       /\ stage[d] = "verifying" /\ Entry[d] = "fiber" => ~tooLong(request[d].body)
       /\ stage[d] = "handling" => request[d].body.event \in takenTypes
       /\ status[d] = 200 => request[d].body.event \in done
  /\ \A ev \in given : ev.data.at = None /\ ev.type \in Deliverable
  /\ done \subseteq Deliverable

WebhookInv == TypeOK /\ HandlerInv /\ GivenIsGenuine /\ AckMeansHandled
=============================================================================
