--------------------------- MODULE Webhook_proofs ---------------------------
(***************************************************************************)
(* Proofs about Webhook, for any events, any limit, any number of servers' *)
(* slots behind any of the entry points, and any requests that arrive,     *)
(* longer than the event they report included.                             *)
(***************************************************************************)
EXTENDS Webhook, TLAPS

-----------------------------------------------------------------------------
(* What gets past Verify. *)

\* Lemma: what is in a slot is about some event.
LEMMA PostType ==
  ASSUME NEW d \in Slots, request[d] \in Posts
  PROVE  request[d].body.event \in Events
<1>1. request[d] \in Post
  BY PostsAssumption
<1> QED
  BY <1>1 DEF Post, Body

\* Lemma: a body that Verify and ParseEvent accept is, to the last byte, one
\* that Paystack signed, and with an empty secret there is none (webhook.go
\* lines 67-108).
LEMMA AcceptedIsGenuine ==
  ASSUME NEW d \in Slots, request[d] \in Posts, secret \in {Secret, Empty},
         Verify(read(d), request[d].sig, secret), parses(read(d))
  PROVE  /\ read(d) = Whole(request[d].body.event)
         /\ request[d].body.event \in Events \ Unnamed
<1>1. request[d].sig.body = read(d) /\ request[d].sig.secret # Empty
  BY DEF Verify, Sign
<1>2. request[d].sig = Sign(Whole(request[d].body.event), Secret)
  BY <1>1, PostsAssumption DEF Verify
<1>3. read(d) = Whole(request[d].body.event)
  BY <1>1, <1>2 DEF Sign
<1>4. read(d).event = request[d].body.event
  BY <1>3 DEF Whole
<1> QED
  BY <1>3, <1>4, PostType DEF parses

\* Lemma: what fn is given is a copy of that body.
LEMMA GivenEvent ==
  ASSUME NEW d \in Slots, request[d] \in Posts, secret \in {Secret, Empty},
         Verify(read(d), request[d].sig, secret), parses(read(d))
  PROVE  /\ Event(d, read(d)) = [type |-> request[d].body.event,
                                 data |-> [at |-> None, bytes |-> Whole(request[d].body.event)]]
         /\ request[d].body.event \in Events \ Unnamed
         /\ Whole(request[d].body.event) \in Body
<1>1. read(d) = Whole(request[d].body.event) /\ request[d].body.event \in Events \ Unnamed
  BY AcceptedIsGenuine
<1>2. Event(d, read(d)) = [type |-> request[d].body.event,
                           data |-> [at |-> None, bytes |-> Whole(request[d].body.event)]]
  BY <1>1 DEF Event, dataOf, Whole
<1>3. Whole(request[d].body.event) \in Body
  BY <1>1, WebhookAssumption DEF Whole, Body
<1> QED
  BY <1>1, <1>2, <1>3

\* Lemma: what gets that far fits, a body of exactly the limit included.
LEMMA AcceptedFits ==
  ASSUME NEW d \in Slots, request[d] \in Posts, secret \in {Secret, Empty},
         Entry[d] = "fiber" => ~tooLong(request[d].body),
         Verify(read(d), request[d].sig, secret), parses(read(d))
  PROVE  request[d].body.event \in Deliverable
<1> DEFINE b == request[d].body
           e == request[d].body.event
<1>1. read(d) = Whole(e) /\ e \in Events \ Unnamed
  BY AcceptedIsGenuine
<1>2. b \in Body
  BY PostsAssumption DEF Post
<1>3. /\ Size[e] \in Nat /\ MaxWebhookBodyBytes \in Nat /\ b.len \in Nat
      /\ read(d).len = Size[e]
  BY <1>1, <1>2, WebhookAssumption DEF Whole, Body
<1>4. CASE Entry[d] = "fiber"
  BY <1>1, <1>3, <1>4 DEF read, tooLong, Deliverable
<1>5. CASE Entry[d] # "fiber"
  <2>1. limited(b).len <= MaxWebhookBodyBytes
    BY <1>2, <1>3 DEF limited, Body
  <2> QED
    BY <1>1, <1>3, <1>5, <2>1 DEF read, Deliverable
<1> QED
  BY <1>4, <1>5

-----------------------------------------------------------------------------
(* The inductive invariant. *)

\* Lemma: it holds before anything has arrived.
LEMMA WebhookInit == Init => WebhookInv
  BY DEF Init, WebhookInv, TypeOK, HandlerInv, GivenIsGenuine, AckMeansHandled

\* Lemma: every step keeps the types, and a status only where one is due.
LEMMA WebhookTypeStep == TypeOK /\ [Next]_vars => TypeOK'
<1> SUFFICES ASSUME TypeOK, [Next]_vars PROVE TypeOK'
  OBVIOUS
<1> USE DEF TypeOK
<1>1. ASSUME NEW d \in Slots, NEW p \in Posts, Arrive(d, p) PROVE TypeOK'
  <2>1. p # None
    BY PostsAssumption
  <2> QED
    BY <1>1, <2>1 DEF Arrive
<1>2. ASSUME NEW d \in Slots, ReadBody(d) PROVE TypeOK'
  BY <1>2 DEF ReadBody, respond
<1>3. ASSUME NEW d \in Slots, Dispatch(d) PROVE TypeOK'
  <2>1. request[d] \in Posts /\ secret \in {Secret, Empty}
    BY <1>3 DEF Dispatch
  <2>2. CASE Verify(read(d), request[d].sig, secret) /\ parses(read(d))
    <3>1. Event(d, read(d)) \in
            [type : Events, data : [at : Slots \cup {None}, bytes : Body]]
      BY <2>1, <2>2, GivenEvent
    <3> QED
      BY <1>3, <2>2, <3>1 DEF Dispatch
  <2>3. CASE ~(Verify(read(d), request[d].sig, secret) /\ parses(read(d)))
    BY <1>3, <2>3 DEF Dispatch, respond
  <2> QED
    BY <2>2, <2>3
<1>4. ASSUME NEW d \in Slots, NEW err \in Errors, FnReturns(d, err) PROVE TypeOK'
  <2>1. request[d].body.event \in Events
    BY <1>4, PostType DEF FnReturns
  <2>2. statusOf(err) \in {200, 400, 500}
    BY DEF statusOf, Errors
  <2> QED
    BY <1>4, <2>1, <2>2 DEF FnReturns, respond
<1>5. ASSUME NEW d \in Slots, Answer(d) PROVE TypeOK'
  BY <1>5, PostType DEF Answer, Free
<1>6. ASSUME NEW d \in Slots, AnswerLost(d) PROVE TypeOK'
  BY <1>6 DEF AnswerLost, Free
<1>7. CASE Crash
  BY <1>7 DEF Crash
<1>8. CASE UNCHANGED vars
  BY <1>8 DEF vars
<1> QED
  BY <1>1, <1>2, <1>3, <1>4, <1>5, <1>6, <1>7, <1>8 DEF Next

\* Lemma: every step keeps what the acknowledgement rests on.
LEMMA HandlerStep == TypeOK /\ HandlerInv /\ [Next]_vars => HandlerInv'
<1> SUFFICES ASSUME TypeOK, HandlerInv, [Next]_vars PROVE HandlerInv'
  OBVIOUS
<1> USE DEF TypeOK, HandlerInv
<1>1. ASSUME NEW d \in Slots, NEW p \in Posts, Arrive(d, p) PROVE HandlerInv'
  BY <1>1 DEF Arrive, takenTypes
<1>2. ASSUME NEW d \in Slots, ReadBody(d) PROVE HandlerInv'
  BY <1>2 DEF ReadBody, respond, takenTypes
<1>3. ASSUME NEW d \in Slots, Dispatch(d) PROVE HandlerInv'
  <2>1. request[d] \in Posts /\ secret \in {Secret, Empty}
    BY <1>3 DEF Dispatch
  <2>2. CASE Verify(read(d), request[d].sig, secret) /\ parses(read(d))
    <3>1. /\ Event(d, read(d)).type = request[d].body.event
          /\ Event(d, read(d)).data.at = None
      BY <2>1, <2>2, GivenEvent
    <3>2. request[d].body.event \in Deliverable
      BY <1>3, <2>1, <2>2, AcceptedFits DEF Dispatch
    <3>3. takenTypes' = takenTypes \cup {request[d].body.event}
      BY <1>3, <2>2, <3>1 DEF Dispatch, takenTypes
    <3> QED
      BY <1>3, <2>2, <3>1, <3>2, <3>3 DEF Dispatch
  <2>3. CASE ~(Verify(read(d), request[d].sig, secret) /\ parses(read(d)))
    BY <1>3, <2>3 DEF Dispatch, respond, takenTypes
  <2> QED
    BY <2>2, <2>3
<1>4. ASSUME NEW d \in Slots, NEW err \in Errors, FnReturns(d, err) PROVE HandlerInv'
  <2>1. statusOf(err) = 200 => err = "nil"
    BY DEF statusOf, Errors
  <2>2. takenTypes \subseteq Deliverable
    BY DEF takenTypes
  <2> QED
    BY <1>4, <2>1, <2>2 DEF FnReturns, respond, takenTypes
<1>5. ASSUME NEW d \in Slots, Answer(d) \/ AnswerLost(d) PROVE HandlerInv'
  BY <1>5 DEF Answer, AnswerLost, Free, takenTypes
<1>6. CASE Crash
  BY <1>6 DEF Crash
<1>7. CASE UNCHANGED vars
  BY <1>7 DEF vars, takenTypes
<1> QED
  BY <1>1, <1>2, <1>3, <1>4, <1>5, <1>6, <1>7 DEF Next

\* Lemma: every step keeps the events fn was given as they were: only
\* Dispatch adds one, and none looks into a slot that a post overwrites.
LEMMA GivenStep ==
  TypeOK /\ HandlerInv /\ GivenIsGenuine /\ [Next]_vars => GivenIsGenuine'
<1> SUFFICES ASSUME TypeOK, HandlerInv, GivenIsGenuine, [Next]_vars
             PROVE  GivenIsGenuine'
  OBVIOUS
<1> DEFINE Good(ev) == /\ ev.data.at = None /\ ev.data.bytes = Whole(ev.type)
                       /\ ev.type \notin Unnamed
<1>1. \A ev \in given : Good(ev)
  BY DEF HandlerInv, GivenIsGenuine, bytesOf
<1>2. SUFFICES \A ev \in given' : Good(ev)
  BY DEF GivenIsGenuine, bytesOf
<1>3. ASSUME NEW d \in Slots, Dispatch(d) PROVE \A ev \in given' : Good(ev)
  <2>1. request[d] \in Posts /\ secret \in {Secret, Empty}
    BY <1>3 DEF Dispatch, TypeOK
  <2>2. CASE Verify(read(d), request[d].sig, secret) /\ parses(read(d))
    <3>1. Good(Event(d, read(d)))
      BY <2>1, <2>2, GivenEvent
    <3> QED
      BY <1>1, <1>3, <2>2, <3>1 DEF Dispatch
  <2>3. CASE ~(Verify(read(d), request[d].sig, secret) /\ parses(read(d)))
    BY <1>1, <1>3, <2>3 DEF Dispatch
  <2> QED
    BY <2>2, <2>3
<1>4. given' \subseteq given \/ \E d \in Slots : Dispatch(d)
  BY DEF Next, Arrive, ReadBody, FnReturns, Answer, AnswerLost, Crash, vars
<1> QED
  BY <1>1, <1>3, <1>4

\* Lemma: every step leaves Paystack with acknowledgements of handled events
\* only: Answer reports what FnReturns has recorded.
LEMMA AckStep ==
  TypeOK /\ HandlerInv /\ AckMeansHandled /\ [Next]_vars => AckMeansHandled'
  BY DEF TypeOK, HandlerInv, AckMeansHandled, Next, Arrive, ReadBody, Dispatch,
         FnReturns, Answer, AnswerLost, Crash, vars

\* Theorem: the inductive invariant of the webhook handlers.
THEOREM WebhookCorrect == Spec => []WebhookInv
<1>1. WebhookInv /\ [Next]_vars => WebhookInv'
  BY WebhookTypeStep, HandlerStep, GivenStep, AckStep DEF WebhookInv
<1> QED
  BY <1>1, WebhookInit, PTL DEF Spec

\* Theorem: the handlers keep their types.
THEOREM WebhookTypeCorrect == Spec => []TypeOK
<1>1. WebhookInv => TypeOK
  BY DEF WebhookInv
<1> QED
  BY <1>1, WebhookCorrect, PTL

\* Theorem: what fn was given is what Paystack signed, for as long as the
\* application holds on to it.
THEOREM GivenStaysGenuine == Spec => []GivenIsGenuine
<1>1. WebhookInv => GivenIsGenuine
  BY DEF WebhookInv
<1> QED
  BY <1>1, WebhookCorrect, PTL

\* Theorem: Paystack stops repeating only events that fn has handled.
THEOREM AcknowledgedIsHandled == Spec => []AckMeansHandled
<1>1. WebhookInv => AckMeansHandled
  BY DEF WebhookInv
<1> QED
  BY <1>1, WebhookCorrect, PTL

-----------------------------------------------------------------------------
(* The handlers implement Delivery. *)

\* Lemma: a step of the handlers is one of Delivery's, or none.
LEMMA DeliveryStep ==
  WebhookInv /\ [Next]_vars => [AtLeastOnce!Next]_(AtLeastOnce!deliveryVars)
<1> SUFFICES ASSUME WebhookInv, [Next]_vars
             PROVE  AtLeastOnce!Next \/ UNCHANGED AtLeastOnce!deliveryVars
  OBVIOUS
<1> USE DEF WebhookInv, AtLeastOnce!deliveryVars
<1>1. ASSUME NEW d \in Slots, Dispatch(d)
      PROVE  AtLeastOnce!Next \/ UNCHANGED AtLeastOnce!deliveryVars
  <2>1. /\ request[d] \in Posts /\ secret \in {Secret, Empty}
        /\ Entry[d] = "fiber" => ~tooLong(request[d].body)
    BY <1>1 DEF Dispatch, TypeOK, HandlerInv
  <2>2. CASE Verify(read(d), request[d].sig, secret) /\ parses(read(d))
    <3>1. Event(d, read(d)).type = request[d].body.event
      BY <2>1, <2>2, GivenEvent
    <3>2. request[d].body.event \in Deliverable
      BY <2>1, <2>2, AcceptedFits
    <3>3. AtLeastOnce!Take(request[d].body.event)
      BY <1>1, <2>2, <3>1 DEF Dispatch, takenTypes, AtLeastOnce!Take
    <3> QED
      BY <3>2, <3>3 DEF AtLeastOnce!Next
  <2>3. CASE ~(Verify(read(d), request[d].sig, secret) /\ parses(read(d)))
    BY <1>1, <2>3 DEF Dispatch, takenTypes
  <2> QED
    BY <2>2, <2>3
<1>2. ASSUME NEW d \in Slots, NEW err \in Errors, FnReturns(d, err)
      PROVE  AtLeastOnce!Next \/ UNCHANGED AtLeastOnce!deliveryVars
  <2>1. takenTypes' = takenTypes /\ acked' = acked
    BY <1>2 DEF FnReturns, takenTypes
  <2>2. CASE err = "nil"
    <3>1. request[d].body.event \in takenTypes
      BY <1>2 DEF FnReturns, HandlerInv
    <3>2. request[d].body.event \in Deliverable
      BY <3>1 DEF HandlerInv, takenTypes
    <3>3. AtLeastOnce!Finish(request[d].body.event)
      BY <1>2, <2>1, <2>2, <3>1 DEF FnReturns, AtLeastOnce!Finish
    <3> QED
      BY <3>2, <3>3 DEF AtLeastOnce!Next
  <2>3. CASE err # "nil"
    BY <1>2, <2>1, <2>3 DEF FnReturns
  <2> QED
    BY <2>2, <2>3
<1>3. ASSUME NEW d \in Slots, Answer(d)
      PROVE  AtLeastOnce!Next \/ UNCHANGED AtLeastOnce!deliveryVars
  <2>1. takenTypes' = takenTypes /\ done' = done
    BY <1>3 DEF Answer, takenTypes
  <2>2. CASE status[d] = 200
    <3>1. request[d].body.event \in done /\ request[d].body.event \in Deliverable
      BY <2>2 DEF HandlerInv
    <3>2. AtLeastOnce!Acknowledge(request[d].body.event)
      BY <1>3, <2>1, <2>2, <3>1 DEF Answer, AtLeastOnce!Acknowledge
    <3> QED
      BY <3>1, <3>2 DEF AtLeastOnce!Next
  <2>3. CASE status[d] # 200
    BY <1>3, <2>1, <2>3 DEF Answer
  <2> QED
    BY <2>2, <2>3
<1>4. CASE Crash
  BY <1>4 DEF Crash, takenTypes, AtLeastOnce!Forget, AtLeastOnce!Next
<1>5. ASSUME NEW d \in Slots, (\E p \in Posts : Arrive(d, p)) \/ ReadBody(d) \/ AnswerLost(d)
      PROVE  UNCHANGED AtLeastOnce!deliveryVars
  BY <1>5 DEF Arrive, ReadBody, AnswerLost, takenTypes
<1>6. CASE UNCHANGED vars
  BY <1>6 DEF vars, takenTypes
<1> QED
  BY <1>1, <1>2, <1>3, <1>4, <1>5, <1>6 DEF Next

\* Theorem: delivery at least once, for any events, slots and posts: what fn
\* is given fits, an event is done only when fn was given it in the process
\* that lives, and acknowledged only when it is done (webhook.go 100-111,
\* paystackgin/webhook.go 27-50 and its twins).
THEOREM DeliversAtLeastOnce == Spec => ImplementsDelivery
<1>1. Init => AtLeastOnce!Init
  BY DEF Init, AtLeastOnce!Init, takenTypes
<1> QED
  BY <1>1, DeliveryStep, WebhookCorrect, PTL DEF Spec, ImplementsDelivery, AtLeastOnce!Spec
=============================================================================
