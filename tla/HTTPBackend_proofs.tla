------------------------- MODULE HTTPBackend_proofs -------------------------
(***************************************************************************)
(* Proofs about HTTPBackend, for any set of calls, keys, requests and      *)
(* responses and any number of connections.                                *)
(***************************************************************************)
EXTENDS HTTPBackend, Services_proofs

-----------------------------------------------------------------------------
(* The operators of the request builder. *)

\* Lemma: every outcome of Call is a result, and nil comes only from a
\* response that is not HTML and that an out could decode (backend.go lines
\* 86-110).
LEMMA OutcomeResult ==
  ASSUME NEW out \in BOOLEAN, NEW s \in Response
  PROVE  /\ outcome(out, s) \in Results
         /\ outcome(out, s).kind = "nil" => ~isHTML(s.ctype, s.body) /\ (out => decodes(s))
<1>1. errorCode(s) \in ErrorCodes
  BY DEF errorCode, codeForStatus, ErrorCodes
<1>2. s.status \in Int
  BY DEF Response
<1>3. CASE s.status >= 400
  BY <1>1, <1>2, <1>3 DEF outcome, Result, Results
<1>4. CASE ~(s.status >= 400)
  <2>1. s.status < 400
    BY <1>2, <1>4
  <2>2. CASE isHTML(s.ctype, s.body)
    BY <1>4, <2>1, <2>2 DEF outcome, Result, Results, ErrorCodes
  <2>3. CASE ~isHTML(s.ctype, s.body)
    BY <1>2, <1>4, <2>1, <2>3 DEF outcome, Result, Results, Nil, ErrorCodes
  <2> QED
    BY <2>2, <2>3
<1> QED
  BY <1>3, <1>4

\* Lemma: the header is the caller's key when that is a key, and is absent
\* otherwise (backend.go lines 135-137, 192-202).
LEMMA HeaderIsKey ==
  ASSUME NEW r \in Requests
  PROVE  /\ idempotencyHeader(r) \in CallerKeys
         /\ r.key \in Keys => idempotencyHeader(r) = r.key
         /\ r.key \notin Keys => idempotencyHeader(r) = NoKey
  BY BackendAssumption
  DEF idempotencyHeader, extractIdempotencyKey, Request, CallerKeys

-----------------------------------------------------------------------------
(* Type correctness. *)

\* Lemma: the variables start out with their types.
LEMMA TypeInit == Init => TypeOK
  BY BackendAssumption DEF Init, TypeOK, Stages, Results, Pending, Result

\* Lemma: a step of one call's goroutine or connection keeps the types.
LEMMA TypeCallStep ==
  ASSUME TypeOK, NEW c \in Calls,
         \/ \E r \in Requests : Start(c, r)
         \/ Connect(c) \/ Proceed(c)
         \/ Reconnect(c) \/ Break(c) \/ Cut(c) \/ Expire(c) \/ CloseRaw(c)
  PROVE  TypeOK'
<1> USE DEF TypeOK, Stages
<1>1. ASSUME NEW r \in Requests, Start(c, r) PROVE TypeOK'
  BY <1>1, BackendAssumption DEF Start, Results, Result, Raw, Request
<1>2. Raw \in Results /\ Result("response", "none") \in Results
  BY DEF Raw, Result, Results
<1>3. ASSUME DoFails(c), pc[c] \in {"connecting", "sending", "awaiting"} PROVE TypeOK'
  BY <1>2, <1>3 DEF DoFails
<1>4. CASE Connect(c)
  BY <1>3, <1>4 DEF Connect, AcquireIdle, Dial, DialFails
<1>5. CASE Transmit(c)
  <2>1. req[c] \in Requests /\ verb[c] \in Verbs
    BY <1>5, BackendAssumption DEF Transmit, Request, Verbs
  <2>2. [call |-> c, n |-> attempt[c] + 1, verb |-> verb[c],
         key |-> idempotencyHeader(req[c])] \in Copy
    BY <2>1, HeaderIsKey DEF Copy
  <2> QED
    BY <1>5, <2>2 DEF Transmit
<1>6. CASE Deliver(c)
  BY <1>2, <1>6 DEF Deliver
<1>7. CASE ReadBody(c)
  <2>1. req[c] \in Request /\ resp[c] \in Response
    BY <1>7, BackendAssumption DEF ReadBody
  <2>2. outcome(req[c].out, resp[c]) \in Results
    BY <2>1, OutcomeResult DEF Request
  <2> QED
    BY <1>7, <2>2 DEF ReadBody
<1>8. CASE ReadFails(c)
  BY <1>2, <1>8 DEF ReadFails
<1>9. CASE Drain(c) \/ CloseRaw(c)
  BY <1>9 DEF Drain, CloseRaw, Release
<1>10. CASE Reconnect(c)
  BY <1>10 DEF Reconnect
<1>11. CASE Break(c)
  BY <1>3, <1>11 DEF Break
<1>12. CASE Cut(c)
  BY <1>12 DEF Cut
<1>13. CASE Expire(c)
  BY <1>3, <1>12, <1>13 DEF Expire
<1>14. CASE Follow(c)
  <2>1. hops'[c] \in 0..MaxHops /\ verb'[c] \in {req[c].verb, "GET"}
    BY <1>14, BackendAssumption DEF Follow, methodAfter
  <2>2. verb'[c] \in Verbs
    BY <1>14, BackendAssumption DEF Follow, methodAfter, Verbs, Request
  <2>3. /\ pc' = [pc EXCEPT ![c] = "connecting"] /\ resp' = [resp EXCEPT ![c] = None]
        /\ conn' = [conn EXCEPT ![c] = "none"] /\ idle' \in Nat
        /\ UNCHANGED <<req, attempt, result, wire, ledger>> /\ req[c] # None
    BY <1>14 DEF Follow, Release
  <2>4. /\ verb' \in [Calls -> Verbs \cup {None}] /\ hops' \in [Calls -> 0..MaxHops]
        /\ \A d \in Calls \ {c} : verb'[d] = verb[d]
    BY <1>14, <2>1, <2>2 DEF Follow
  <2> QED
    BY <2>1, <2>3, <2>4
<1>15. CASE TooManyRedirects(c)
  BY <1>2, <1>15 DEF TooManyRedirects, Release
<1> QED
  BY <1>1, <1>4, <1>5, <1>6, <1>7, <1>8, <1>9, <1>10, <1>11, <1>12, <1>13, <1>14, <1>15
  DEF Proceed

\* Lemma: a step of the network, of Paystack or of the process does too.
LEMMA TypeOtherStep ==
  ASSUME TypeOK,
         \/ \E m \in wire : Lose(m) \/ \E s \in Responses : Serve(m, s)
         \/ IdleClosed \/ Crash
  PROVE  TypeOK'
<1> USE DEF TypeOK, Stages
<1>1. ASSUME NEW m \in wire, Lose(m) PROVE TypeOK'
  BY <1>1 DEF Lose
<1>2. ASSUME NEW m \in wire, NEW s \in Responses, Serve(m, s) PROVE TypeOK'
  <2>1. m \in Copy /\ m.call \in Calls
    BY DEF Copy
  <2>2. resp' \in [Calls -> Responses \cup {None}]
    BY <1>2, <2>1 DEF Serve
  <2>3. \A c \in Calls : resp[c] # None => resp'[c] # None
    BY <1>2, <2>1, BackendAssumption DEF Serve
  <2>4. ledger' \subseteq Copy /\ wire' \subseteq Copy
    BY <1>2, <2>1 DEF Serve
  <2> QED
    BY <1>2, <2>2, <2>3, <2>4 DEF Serve
<1>3. CASE IdleClosed
  BY <1>3 DEF IdleClosed
<1>4. CASE Crash
  BY <1>4 DEF Crash, Active
<1> QED
  BY <1>1, <1>2, <1>3, <1>4

\* Lemma: every step keeps the types.
LEMMA TypeStep == TypeOK /\ [Next]_vars => TypeOK'
<1> SUFFICES ASSUME TypeOK, [Next]_vars PROVE TypeOK'
  OBVIOUS
<1>1. CASE UNCHANGED vars
  BY <1>1 DEF vars, TypeOK
<1>2. CASE Next
  BY <1>1, <1>2, TypeCallStep, TypeOtherStep DEF Next
<1> QED
  BY <1>1, <1>2

\* Theorem: every variable keeps its type; in particular the pool never goes
\* negative and a body is only read where a response has arrived.
THEOREM TypeCorrect == Spec => []TypeOK
  BY TypeInit, TypeStep, PTL DEF Spec

-----------------------------------------------------------------------------
(* Connections. *)

\* Theorem: no call that is over holds a connection (backend.go line 79).
THEOREM ConnectionsReleased == Spec => []NoConnLeak
<1>1. Init => NoConnLeak
  BY DEF Init, NoConnLeak
<1>2. TypeOK /\ NoConnLeak /\ [Next]_vars => NoConnLeak'
  <2> SUFFICES ASSUME TypeOK, NoConnLeak, [Next]_vars PROVE NoConnLeak'
    OBVIOUS
  <2> USE DEF TypeOK, Stages, NoConnLeak
  <2>1. CASE UNCHANGED vars
    BY <2>1 DEF vars
  <2>2. ASSUME NEW c \in Calls, NEW r \in Requests, Start(c, r) PROVE NoConnLeak'
    BY <2>2 DEF Start
  <2>3. ASSUME NEW c \in Calls, DoFails(c) PROVE NoConnLeak'
    BY <2>3 DEF DoFails
  <2>4. ASSUME NEW c \in Calls, Connect(c) PROVE NoConnLeak'
    BY <2>3, <2>4 DEF Connect, AcquireIdle, Dial, DialFails
  <2>5. ASSUME NEW c \in Calls, Proceed(c) PROVE NoConnLeak'
    BY <2>5 DEF Proceed, Transmit, Follow, TooManyRedirects, Deliver, ReadBody, ReadFails,
       Drain, Release
  <2>6. ASSUME NEW c \in Calls, Reconnect(c) \/ Break(c) PROVE NoConnLeak'
    BY <2>3, <2>6 DEF Reconnect, Break
  <2>7. ASSUME NEW c \in Calls, Cut(c) PROVE NoConnLeak'
    BY <2>7 DEF Cut
  <2>8. ASSUME NEW c \in Calls, Expire(c) PROVE NoConnLeak'
    BY <2>3, <2>7, <2>8 DEF Expire
  <2>9. ASSUME NEW c \in Calls, CloseRaw(c) PROVE NoConnLeak'
    BY <2>9 DEF CloseRaw, Release
  <2>10. ASSUME NEW m \in wire, Lose(m) \/ \E s \in Responses : Serve(m, s)
         PROVE  NoConnLeak'
    BY <2>10 DEF Lose, Serve
  <2>11. CASE IdleClosed \/ Crash
    BY <2>11 DEF IdleClosed, Crash
  <2> QED
    BY <2>1, <2>2, <2>4, <2>5, <2>6, <2>7, <2>8, <2>9, <2>10, <2>11 DEF Next
<1> QED
  BY <1>1, <1>2, TypeCorrect, PTL DEF Spec

-----------------------------------------------------------------------------
(* What one call is told, whatever Paystack does. *)

\* ResultInv without its clause on acknowledgements, which needs the ledger.
LocalResultInv ==
  \A c \in Calls :
    /\ pc[c] \in {"idle", "connecting", "sending", "awaiting", "reading"} =>
         result[c] = Pending
    /\ pc[c] \in {"idle", "connecting", "sending"} => resp[c] = None
    /\ result[c].kind = "nil" =>
         /\ req[c] # None /\ resp[c] # None
         /\ ~isHTML(resp[c].ctype, resp[c].body)
         /\ req[c].out => decodes(resp[c])

\* Lemma: no step fixes a result early, or to nil for a response that Call
\* refuses (backend.go lines 80-110).
LEMMA LocalResultStep == TypeOK /\ LocalResultInv /\ [Next]_vars => LocalResultInv'
<1> SUFFICES ASSUME TypeOK, LocalResultInv, [Next]_vars PROVE LocalResultInv'
  OBVIOUS
<1> USE DEF TypeOK, Stages, LocalResultInv
<1>0. Pending.kind # "nil" /\ Raw.kind # "nil" /\ Result("panic", "none").kind # "nil"
      /\ Result("response", "none").kind # "nil"
  BY DEF Pending, Raw, Result
<1>1. CASE UNCHANGED vars
  BY <1>1 DEF vars
<1>2. ASSUME NEW c \in Calls, NEW r \in Requests, Start(c, r) PROVE LocalResultInv'
  BY <1>0, <1>2, BackendAssumption DEF Start
<1>3. ASSUME NEW c \in Calls, DoFails(c) PROVE LocalResultInv'
  BY <1>0, <1>3 DEF DoFails
<1>4. ASSUME NEW c \in Calls, Connect(c) PROVE LocalResultInv'
  BY <1>3, <1>4 DEF Connect, AcquireIdle, Dial, DialFails
<1>5. ASSUME NEW c \in Calls, Transmit(c) PROVE LocalResultInv'
  BY <1>5 DEF Transmit
<1>6. ASSUME NEW c \in Calls, Deliver(c) PROVE LocalResultInv'
  BY <1>0, <1>6 DEF Deliver
<1>7. ASSUME NEW c \in Calls, ReadBody(c) PROVE LocalResultInv'
  <2>1. req[c] \in Request /\ resp[c] \in Response /\ req[c] # None /\ resp[c] # None
    BY <1>7, BackendAssumption DEF ReadBody
  <2>2. outcome(req[c].out, resp[c]).kind = "nil" =>
          ~isHTML(resp[c].ctype, resp[c].body) /\ (req[c].out => decodes(resp[c]))
    BY <2>1, OutcomeResult DEF Request
  <2> QED
    BY <1>7, <2>1, <2>2 DEF ReadBody
<1>8. ASSUME NEW c \in Calls, ReadFails(c) PROVE LocalResultInv'
  BY <1>0, <1>8 DEF ReadFails
<1>9. ASSUME NEW c \in Calls, Drain(c) \/ CloseRaw(c) PROVE LocalResultInv'
  BY <1>9 DEF Drain, CloseRaw
<1>10. ASSUME NEW c \in Calls, Reconnect(c) PROVE LocalResultInv'
  BY <1>0, <1>10 DEF Reconnect
<1>11. ASSUME NEW c \in Calls, Cut(c) PROVE LocalResultInv'
  BY <1>11 DEF Cut
<1>12. ASSUME NEW c \in Calls, Break(c) \/ Expire(c) PROVE LocalResultInv'
  BY <1>3, <1>11, <1>12 DEF Break, Expire
<1>13. ASSUME NEW m \in wire, Lose(m) PROVE LocalResultInv'
  BY <1>13 DEF Lose
<1>14. ASSUME NEW m \in wire, NEW s \in Responses, Serve(m, s) PROVE LocalResultInv'
  BY <1>0, <1>14 DEF Serve, Copy
<1>15. CASE IdleClosed \/ Crash
  BY <1>15 DEF IdleClosed, Crash
<1>16. ASSUME NEW c \in Calls, Follow(c) PROVE LocalResultInv'
  BY <1>0, <1>16 DEF Follow
<1>17. ASSUME NEW c \in Calls, TooManyRedirects(c) PROVE LocalResultInv'
  BY <1>0, <1>17 DEF TooManyRedirects
<1> QED
  BY <1>1, <1>2, <1>4, <1>5, <1>6, <1>7, <1>8, <1>9, <1>10, <1>11, <1>12, <1>13, <1>14,
     <1>15, <1>16, <1>17 DEF Next, Proceed

\* Theorem: a result is fixed when the body was read, never earlier, and nil
\* only for a response that Call lets through.
THEOREM LocalResults == Spec => []LocalResultInv
<1>1. Init => LocalResultInv
  BY DEF Init, LocalResultInv, Pending, Result
<1> QED
  BY <1>1, LocalResultStep, TypeCorrect, PTL DEF Spec

-----------------------------------------------------------------------------
(* Copies of requests and their effects. *)

\* A step that neither makes a call, nor follows a redirect, nor writes a
\* request, nor touches the wire or the ledger, nor puts a response on a
\* connection, and sends only a replayable request back to connect.
Quiet ==
  /\ UNCHANGED <<req, verb, hops, attempt, wire, ledger>>
  /\ \A c \in Calls :
       /\ pc'[c] \in {"connecting", "sending"} =>
            pc[c] \in {"connecting", "sending"} \/ isReplayable(verb[c], req[c])
       /\ pc'[c] = "awaiting" => pc[c] = "awaiting"
       /\ resp'[c] = resp[c] \/ resp'[c] = None

\* Lemma: every step starts a call, writes a copy, follows a redirect, loses a
\* copy, serves one or is quiet.
LEMMA StepKinds ==
  ASSUME TypeOK, [Next]_vars
  PROVE  \/ \E c \in Calls, r \in Requests : Start(c, r)
         \/ \E c \in Calls : Transmit(c) \/ Follow(c)
         \/ \E m \in wire : Lose(m)
         \/ \E m \in wire, s \in Responses : Serve(m, s)
         \/ Quiet
<1> USE DEF TypeOK, Stages, Quiet
<1>1. CASE UNCHANGED vars
  BY <1>1 DEF vars
<1>2. ASSUME NEW c \in Calls, DoFails(c) PROVE Quiet
  BY <1>2 DEF DoFails
<1>3. ASSUME NEW c \in Calls, Connect(c) PROVE Quiet
  BY <1>2, <1>3 DEF Connect, AcquireIdle, Dial, DialFails
<1>4. ASSUME NEW c \in Calls, Proceed(c), ~Transmit(c), ~Follow(c) PROVE Quiet
  BY <1>4 DEF Proceed, TooManyRedirects, Deliver, ReadBody, ReadFails, Drain, Release
<1>5. ASSUME NEW c \in Calls, Reconnect(c) PROVE Quiet
  BY <1>5 DEF Reconnect
<1>6. ASSUME NEW c \in Calls, Cut(c) PROVE Quiet
  BY <1>6 DEF Cut
<1>7. ASSUME NEW c \in Calls, Break(c) \/ Expire(c) PROVE Quiet
  BY <1>2, <1>6, <1>7 DEF Break, Expire
<1>8. ASSUME NEW c \in Calls, CloseRaw(c) PROVE Quiet
  BY <1>8 DEF CloseRaw, Release
<1>9. CASE IdleClosed \/ Crash
  BY <1>9 DEF IdleClosed, Crash
<1> QED
  BY <1>1, <1>3, <1>4, <1>5, <1>6, <1>7, <1>8, <1>9 DEF Next

\* Lemma: no step breaks the link between copies and the calls they are of.
LEMMA CopiesStep == TypeOK /\ CopiesInv /\ [Next]_vars => CopiesInv'
<1> SUFFICES ASSUME TypeOK, CopiesInv, [Next]_vars PROVE CopiesInv'
  OBVIOUS
<1> USE DEF TypeOK, CopiesInv
<1>0. \A m \in wire \cup ledger : m \in Copy /\ m.call \in Calls /\ m.n \in Nat
  BY DEF Copy
<1>1. ASSUME NEW c \in Calls, NEW r \in Requests, Start(c, r) PROVE CopiesInv'
  BY <1>0, <1>1 DEF Start
<1>2. ASSUME NEW c \in Calls, Transmit(c) PROVE CopiesInv'
  <2> DEFINE m == [call |-> c, n |-> attempt[c] + 1, verb |-> verb[c],
                   key |-> idempotencyHeader(req[c])]
  <2>1. m \notin ledger
    BY <1>0
  <2>2. /\ wire' = wire \cup {m} /\ UNCHANGED <<req, verb, ledger>>
        /\ attempt'[c] = attempt[c] + 1
    BY <1>2 DEF Transmit
  <2>3. \A d \in Calls : attempt'[d] >= attempt[d]
    BY <1>2 DEF Transmit
  <2>4. attempt' \in [Calls -> Nat]
    BY <1>2 DEF Transmit
  <2>5. req[c] # None
    BY <1>2 DEF Transmit
  <2>6. \A x \in wire' \cup ledger' :
          /\ req'[x.call] # None /\ x.n \in 1..attempt'[x.call]
          /\ x.key = idempotencyHeader(req'[x.call])
          /\ isWriteMethod(verb'[x.call]) => x.verb = verb'[x.call]
    <3> SUFFICES ASSUME NEW x \in wire' \cup ledger'
                 PROVE  /\ req'[x.call] # None
                        /\ x.n \in 1..attempt'[x.call]
                        /\ x.key = idempotencyHeader(req'[x.call])
                        /\ isWriteMethod(verb'[x.call]) => x.verb = verb'[x.call]
      OBVIOUS
    <3>1. CASE x = m
      BY <2>2, <2>4, <2>5, <3>1
    <3>2. CASE x \in wire \cup ledger
      BY <1>0, <2>2, <2>3, <2>4, <3>2
    <3> QED
      BY <2>2, <3>1, <3>2
  <2> QED
    BY <2>1, <2>2, <2>6
<1>3. ASSUME NEW m \in wire, Lose(m) PROVE CopiesInv'
  BY <1>3 DEF Lose
<1>4. ASSUME NEW m \in wire, NEW s \in Responses, Serve(m, s) PROVE CopiesInv'
  BY <1>4 DEF Serve
<1>5. CASE Quiet
  BY <1>5 DEF Quiet
<1>6. ASSUME NEW c \in Calls, Follow(c) PROVE CopiesInv'
  <2>1. isWriteMethod(verb'[c]) => verb'[c] = verb[c]
    BY <1>6 DEF Follow, methodAfter, isWriteMethod
  <2>2. UNCHANGED <<req, attempt, wire, ledger>> /\ \A d \in Calls \ {c} : verb'[d] = verb[d]
    BY <1>6 DEF Follow
  <2> QED
    BY <1>0, <2>1, <2>2
<1> QED
  BY <1>1, <1>2, <1>3, <1>4, <1>5, <1>6, StepKinds

\* Lemma: no step writes a request that may not be replayed a second time.
LEMMA SentStep == TypeOK /\ SentInv /\ [Next]_vars => SentInv'
<1> SUFFICES ASSUME TypeOK, SentInv, [Next]_vars PROVE SentInv'
  OBVIOUS
<1> USE DEF TypeOK, SentInv
<1>1. ASSUME NEW c \in Calls, NEW r \in Requests, Start(c, r) PROVE SentInv'
  BY <1>1 DEF Start
<1>2. ASSUME NEW c \in Calls, Transmit(c) PROVE SentInv'
  BY <1>2 DEF Transmit
<1>3. ASSUME NEW m \in wire, Lose(m) \/ \E s \in Responses : Serve(m, s) PROVE SentInv'
  BY <1>3 DEF Lose, Serve
<1>4. CASE Quiet
  BY <1>4 DEF Quiet
<1>5. ASSUME NEW c \in Calls, Follow(c) PROVE SentInv'
  <2>1. isReplayable(verb[c], req[c]) => isReplayable(verb'[c], req[c])
    BY <1>5 DEF Follow, methodAfter, isReplayable
  <2> QED
    BY <1>5, <2>1 DEF Follow
<1> QED
  BY <1>1, <1>2, <1>3, <1>4, <1>5, StepKinds

\* Lemma: no step lets a second copy of a write without a key come to life.
LEMMA SingleStep ==
  TypeOK /\ CopiesInv /\ LocalResultInv /\ SingleInv /\ [Next]_vars => SingleInv'
<1> SUFFICES ASSUME TypeOK, CopiesInv, LocalResultInv, SingleInv, [Next]_vars
             PROVE  SingleInv'
  OBVIOUS
<1>0. \A m \in wire \cup ledger : m \in Copy /\ m.call \in Calls /\ req[m.call] # None
  BY DEF TypeOK, CopiesInv, Copy
<1>1. ASSUME NEW c \in Calls, NEW r \in Requests, Start(c, r) PROVE SingleInv'
  <2>1. WriteCopies(c) = {} /\ resp[c] = None
    BY <1>0, <1>1 DEF WriteCopies, Start, TypeOK, LocalResultInv
  <2>2. \A d \in Calls : WriteCopies(d)' = WriteCopies(d)
    BY <1>1 DEF Start, WriteCopies
  <2>3. UNCHANGED resp /\ \A d \in Calls \ {c} : req'[d] = req[d] /\ pc'[d] = pc[d] /\ verb'[d] = verb[d]
    BY <1>1 DEF Start, TypeOK
  <2> QED
    BY <2>1, <2>2, <2>3 DEF SingleInv
<1>2. ASSUME NEW c \in Calls, Transmit(c) PROVE SingleInv'
  <2> DEFINE m == [call |-> c, n |-> attempt[c] + 1, verb |-> verb[c],
                   key |-> idempotencyHeader(req[c])]
  <2>1. wire' = wire \cup {m} /\ UNCHANGED <<req, verb, resp, ledger>>
    BY <1>2 DEF Transmit
  <2>2. \A d \in Calls \ {c} : pc'[d] = pc[d] /\ WriteCopies(d)' = WriteCopies(d)
    BY <1>2, <2>1 DEF Transmit, TypeOK, WriteCopies
  <2>3. pc[c] = "sending" /\ pc'[c] = "awaiting" /\ resp[c] = None
    BY <1>2 DEF Transmit, TypeOK, LocalResultInv
  <2>4. CASE isWriteMethod(verb[c])
    <3>1. req[c].key \notin Keys /\ req[c] # None => WriteCopies(c)' = {m}
      BY <2>1, <2>3, <2>4 DEF WriteCopies, SingleInv
    <3> QED
      BY <2>1, <2>2, <2>3, <3>1 DEF SingleInv
  <2>5. CASE ~isWriteMethod(verb[c])
    <3>1. WriteCopies(c)' = WriteCopies(c)
      BY <2>1, <2>5 DEF WriteCopies
    <3> QED
      BY <2>1, <2>2, <2>3, <2>5, <3>1 DEF SingleInv
  <2> QED
    BY <2>4, <2>5
<1>3. ASSUME NEW m \in wire, Lose(m) PROVE SingleInv'
  <2>1. \A d \in Calls : WriteCopies(d)' \subseteq WriteCopies(d)
    BY <1>3 DEF Lose, WriteCopies
  <2> QED
    BY <1>3, <2>1 DEF Lose, SingleInv
<1>4. ASSUME NEW m \in wire, NEW s \in Responses, Serve(m, s) PROVE SingleInv'
  <2>1. \A d \in Calls : WriteCopies(d)' \subseteq WriteCopies(d)
    BY <1>4 DEF Serve, WriteCopies
  <2>2. \A d \in Calls \ {m.call} : resp'[d] = resp[d]
    BY <1>4 DEF Serve, TypeOK
  <2>3. UNCHANGED <<pc, req, verb>>
    BY <1>4 DEF Serve
  <2>4. ASSUME req[m.call].key \notin Keys, isWriteMethod(verb[m.call]), resp'[m.call] # resp[m.call],
               KeepsMethod(resp'[m.call])
        PROVE  WriteCopies(m.call)' = {}
    <3>1. resp'[m.call] = s
      BY <1>0, <1>4, <2>4 DEF Serve, TypeOK
    <3>2. m.verb = verb[m.call] /\ m \in WriteCopies(m.call)
      BY <2>4 DEF CopiesInv, WriteCopies
    <3>3. WriteCopies(m.call) = {m}
      BY <1>0, <2>4, <3>2 DEF SingleInv
    <3>4. m \notin wire' \cup ledger'
      BY <1>4, <2>4, <3>1 DEF Serve, CopiesInv
    <3> QED
      BY <2>1, <1>0, <3>3, <3>4 DEF WriteCopies
  <2> QED
    BY <1>0, <2>1, <2>2, <2>3, <2>4 DEF SingleInv
<1>5. CASE Quiet
  <2>1. \A d \in Calls : WriteCopies(d)' = WriteCopies(d)
    BY <1>5 DEF Quiet, WriteCopies
  <2>2. \A d \in Calls : req[d] # None => req[d] \in Requests
    BY DEF TypeOK
  <2>3. \A d \in Calls :
          req[d] # None /\ req[d].key \notin Keys /\ isWriteMethod(verb[d]) =>
            ~isReplayable(verb[d], req[d])
    BY <2>2, HeaderIsKey DEF isReplayable, isWriteMethod
  <2> QED
    BY <1>5, <2>1, <2>3 DEF Quiet, SingleInv
<1>6. ASSUME NEW c \in Calls, Follow(c) PROVE SingleInv'
  <2>1. \A d \in Calls : WriteCopies(d)' = WriteCopies(d)
    BY <1>6 DEF Follow, WriteCopies
  <2>2. UNCHANGED req /\ resp'[c] = None /\ resp[c] # None
    BY <1>6 DEF Follow, TypeOK
  <2>3. \A d \in Calls \ {c} : pc'[d] = pc[d] /\ verb'[d] = verb[d] /\ resp'[d] = resp[d]
    BY <1>6 DEF Follow, TypeOK
  <2>4. isWriteMethod(verb'[c]) => verb'[c] = verb[c] /\ KeepsMethod(resp[c])
    BY <1>6 DEF Follow, methodAfter, TypeOK, isWriteMethod
  <2> QED
    BY <2>1, <2>2, <2>3, <2>4 DEF SingleInv
<1> QED
  BY <1>1, <1>2, <1>3, <1>4, <1>5, <1>6, StepKinds

\* Theorem: copies belong to their calls and carry their headers, and what the
\* transport may not replay is written once (backend.go line 135) and lives once.
THEOREM CopiesAndSent == Spec => [](CopiesInv /\ SentInv /\ SingleInv)
<1>1. Init => CopiesInv /\ SentInv /\ SingleInv
  BY DEF Init, CopiesInv, SentInv, SingleInv
<1> QED
  BY <1>1, CopiesStep, SentStep, SingleStep, TypeCorrect, LocalResults, PTL DEF Spec

\* Theorem: a write without a key is written once for each request that the
\* server's redirects ask for.
THEOREM KeylessWrittenOnce == Spec => []KeylessSentOnce
<1>1. TypeOK /\ SentInv => KeylessSentOnce
  <2> SUFFICES ASSUME TypeOK, SentInv, NEW c \in Calls,
                      req[c] # None, isWriteMethod(verb[c]), req[c].key \notin Keys
               PROVE  attempt[c] <= hops[c] + 1
    BY DEF KeylessSentOnce
  <2>1. req[c] \in Requests
    BY DEF TypeOK
  <2>2. ~isReplayable(verb[c], req[c])
    BY <2>1, HeaderIsKey DEF isReplayable, isWriteMethod
  <2> QED
    BY <2>2 DEF SentInv
<1> QED
  BY <1>1, CopiesAndSent, TypeCorrect, PTL

-----------------------------------------------------------------------------
(* At most one effect per intent. *)

\* Lemma: what a call is about does not change once it was made.
LEMMA IntentStable ==
  ASSUME TypeOK, [Next]_vars, NEW c \in Calls, req[c] # None
  PROVE  req'[c] = req[c] /\ Intent(c)' = Intent(c)
<1>1. req'[c] = req[c]
  <2>1. ASSUME NEW d \in Calls, NEW r \in Requests, Start(d, r) PROVE req'[c] = req[c]
    BY <2>1 DEF Start, TypeOK
  <2>2. ASSUME NEW d \in Calls, Transmit(d) \/ Follow(d) PROVE req'[c] = req[c]
    BY <2>2 DEF Transmit, Follow
  <2>3. ASSUME NEW m \in wire, Lose(m) \/ \E s \in Responses : Serve(m, s)
        PROVE  req'[c] = req[c]
    BY <2>3 DEF Lose, Serve
  <2>4. CASE Quiet
    BY <2>4 DEF Quiet
  <2> QED
    BY <2>1, <2>2, <2>3, <2>4, StepKinds
<1> QED
  BY <1>1 DEF Intent

\* Lemma: two copies of writes about the same intent are the same copy, or
\* carry the same key in their header, by which Paystack knows the one from
\* the other.
LEMMA SameIntentCopies ==
  ASSUME TypeOK, CopiesInv, SingleInv,
         NEW m \in wire \cup ledger, NEW e \in wire \cup ledger,
         isWriteMethod(m.verb), isWriteMethod(e.verb), Intent(m.call) = Intent(e.call)
  PROVE  m = e \/ (m.key \in Keys /\ m.key = e.key)
<1> DEFINE c == m.call
           d == e.call
<1>1. m \in Copy /\ e \in Copy /\ c \in Calls /\ d \in Calls
  BY DEF TypeOK, Copy
<1>2. req[c] \in Requests /\ req[d] \in Requests /\ req[c] # None /\ req[d] # None
  BY <1>1 DEF TypeOK, CopiesInv
<1>3. m.key = idempotencyHeader(req[c]) /\ e.key = idempotencyHeader(req[d])
  BY DEF CopiesInv
<1>4. CASE req[c].key \in Keys
  <2>1. req[d].key = req[c].key
    BY <1>2, <1>4 DEF Intent, CopiesInv
  <2> QED
    BY <1>2, <1>3, <1>4, <2>1, HeaderIsKey
<1>5. CASE req[c].key \notin Keys
  <2>1. c = d
    BY <1>2, <1>5 DEF Intent, CopiesInv
  <2>2. m \in WriteCopies(c) /\ e \in WriteCopies(c)
    BY <2>1 DEF WriteCopies
  <2> QED
    BY <1>1, <1>2, <1>5, <2>2 DEF SingleInv
<1> QED
  BY <1>4, <1>5

\* Lemma: no step lets a second effect of an intent in.
LEMMA AtMostOnceStep ==
  TypeOK /\ CopiesInv /\ SingleInv /\ AtMostOnce /\ [Next]_vars => AtMostOnce'
<1> SUFFICES ASSUME TypeOK, CopiesInv, SingleInv, AtMostOnce, [Next]_vars
             PROVE  AtMostOnce'
  OBVIOUS
<1>1. \A e \in ledger : e.call \in Calls /\ Intent(e.call)' = Intent(e.call)
  BY IntentStable DEF TypeOK, CopiesInv, Copy
<1>2. CASE UNCHANGED ledger
  BY <1>1, <1>2 DEF AtMostOnce
<1>3. ASSUME NEW m \in wire, NEW s \in Responses, Serve(m, s), ledger' # ledger
      PROVE  AtMostOnce'
  <2>1. ledger' = ledger \cup {m} /\ ~Known(m) /\ isWriteMethod(m.verb)
    BY <1>3 DEF Serve
  <2>2. m.call \in Calls /\ Intent(m.call)' = Intent(m.call)
    BY IntentStable DEF TypeOK, CopiesInv, Copy
  <2>3. \A e \in ledger : Intent(e.call) # Intent(m.call)
    <3> SUFFICES ASSUME NEW e \in ledger, Intent(e.call) = Intent(m.call) PROVE FALSE
      OBVIOUS
    <3>1. m = e \/ (m.key \in Keys /\ m.key = e.key)
      BY <2>1, SameIntentCopies DEF CopiesInv
    <3> QED
      BY <2>1, <3>1 DEF Known, CopiesInv
  <2> QED
    BY <1>1, <2>1, <2>2, <2>3 DEF AtMostOnce
<1> QED
  BY <1>2, <1>3, StepKinds DEF Start, Transmit, Follow, Lose, Quiet

\* Theorem: at most one effect per intent, through retries by the caller and
\* by the transport, losses, late arrivals and crashes.
THEOREM AtMostOncePayment == Spec => []AtMostOnce
<1>1. Init => AtMostOnce
  BY DEF Init, AtMostOnce
<1> QED
  BY <1>1, AtMostOnceStep, TypeCorrect, CopiesAndSent, PTL DEF Spec

-----------------------------------------------------------------------------
(* What the caller is told. *)

AcknowledgedInv ==
  \A c \in Calls :
    resp[c] # None /\ Acknowledges(resp[c]) /\ isWriteMethod(verb[c]) => CarriedOut(c)

\* Lemma: ResultInv is a part about calls alone and a part about the ledger.
LEMMA ResultInvParts == ResultInv <=> LocalResultInv /\ AcknowledgedInv
  BY DEF ResultInv, LocalResultInv, AcknowledgedInv

\* Lemma: an intent once carried out stays so.
LEMMA CarriedOutStable ==
  ASSUME TypeOK, CopiesInv, [Next]_vars, NEW c \in Calls, req[c] # None, CarriedOut(c)
  PROVE  CarriedOut(c)'
<1>1. ledger \subseteq ledger'
  BY StepKinds DEF Start, Transmit, Follow, Lose, Serve, Quiet
<1>2. \A e \in ledger : Intent(e.call)' = Intent(e.call)
  BY IntentStable DEF TypeOK, CopiesInv, Copy
<1> QED
  BY <1>1, <1>2, IntentStable DEF CarriedOut

\* Lemma: only an answered copy puts a response on a connection.
LEMMA RespKinds ==
  ASSUME TypeOK, [Next]_vars,
         ~ \E m \in wire, s \in Responses : Serve(m, s)
  PROVE  \A c \in Calls : resp'[c] = resp[c] \/ resp'[c] = None
  BY StepKinds DEF TypeOK, Start, Transmit, Follow, Lose, Quiet

\* Lemma: a call that sends a write has sent nothing else since it was made.
LEMMA VerbStable ==
  ASSUME TypeOK, [Next]_vars, NEW c \in Calls, req[c] # None, isWriteMethod(verb'[c])
  PROVE  verb'[c] = verb[c]
<1> USE DEF TypeOK
<1>1. ASSUME NEW d \in Calls, NEW r \in Requests, Start(d, r) PROVE verb'[c] = verb[c]
  BY <1>1 DEF Start
<1>2. ASSUME NEW d \in Calls, Transmit(d) \/ Follow(d) PROVE verb'[c] = verb[c]
  BY <1>2 DEF Transmit, Follow, methodAfter, isWriteMethod
<1>3. ASSUME NEW m \in wire, Lose(m) \/ \E s \in Responses : Serve(m, s)
      PROVE  verb'[c] = verb[c]
  BY <1>3 DEF Lose, Serve
<1>4. CASE Quiet
  BY <1>4 DEF Quiet
<1> QED
  BY <1>1, <1>2, <1>3, <1>4, StepKinds

\* Lemma: no step puts an acknowledgement on a connection without an effect.
LEMMA AcknowledgedStep ==
  TypeOK /\ CopiesInv /\ LocalResultInv /\ AcknowledgedInv /\ [Next]_vars => AcknowledgedInv'
<1> SUFFICES ASSUME TypeOK, CopiesInv, LocalResultInv, AcknowledgedInv, [Next]_vars,
                    NEW c \in Calls, resp'[c] # None, Acknowledges(resp'[c]),
                    isWriteMethod(verb'[c])
             PROVE  CarriedOut(c)'
  BY DEF AcknowledgedInv
<1>1. CASE resp'[c] = resp[c] /\ req[c] # None
  <2>1. CarriedOut(c)
    BY <1>1, VerbStable DEF AcknowledgedInv
  <2> QED
    BY <1>1, <2>1, CarriedOutStable
<1>2. CASE resp'[c] = resp[c] /\ req[c] = None
  BY <1>2 DEF TypeOK, LocalResultInv
<1>3. ASSUME NEW m \in wire, NEW s \in Responses, Serve(m, s), resp'[c] # resp[c]
      PROVE  CarriedOut(c)'
  <2>1. m.call = c /\ resp'[c] = s /\ m \in Copy
    BY <1>3 DEF Serve, TypeOK
  <2>2. /\ req' = req /\ req[c] # None /\ req[c] \in Requests
        /\ isWriteMethod(m.verb)
    BY <1>3, <2>1 DEF Serve, CopiesInv, TypeOK
  <2>3. CASE ledger' = ledger \cup {m}
    BY <2>1, <2>2, <2>3 DEF CarriedOut, Intent
  <2>4. CASE Known(m) /\ ledger' = ledger
    <3>1. PICK e \in ledger : e.key = m.key
      BY <2>4 DEF Known
    <3>2. e.call \in Calls /\ req[e.call] \in Requests /\ req[e.call] # None
      BY DEF TypeOK, CopiesInv, Copy
    <3>3. req[c].key = m.key /\ req[e.call].key = m.key /\ m.key \in Keys
      BY <2>1, <2>2, <2>4, <3>1, <3>2, HeaderIsKey, BackendAssumption DEF Known, CopiesInv
    <3>4. Intent(e.call) = Intent(c)
      BY <2>2, <3>2, <3>3 DEF Intent
    <3> QED
      BY <2>2, <2>4, <3>4 DEF CarriedOut, Intent
  <2> QED
    BY <1>3, <2>1, <2>2, <2>3, <2>4 DEF Serve
<1> QED
  BY <1>1, <1>2, <1>3, RespKinds

\* Theorem: results are fixed after the body was read, never earlier, and an
\* acknowledgement stands for an effect.
THEOREM ResultsCorrect == Spec => []ResultInv
<1>1. Init => AcknowledgedInv
  BY DEF Init, AcknowledgedInv
<1>2. Spec => [](LocalResultInv /\ AcknowledgedInv)
  BY <1>1, AcknowledgedStep, TypeCorrect, LocalResults, CopiesAndSent, PTL DEF Spec
<1> QED
  BY <1>2, ResultInvParts, PTL

\* Lemma: the body of such a nil is Paystack's envelope with a true status:
\* with an out nothing else decodes, without one nothing else was read.
LEMMA NilIsEnvelope ==
  ASSUME TypeOK, ResultInv, NEW c \in Calls, result[c].kind = "nil",
         resp[c].body \notin {"declined", "bare"}, ~Unread(c)
  PROVE  resp[c] # None /\ resp[c].ctype # "html" /\ resp[c].body = "ok"
<1>1. /\ resp[c] # None /\ req[c] # None
      /\ resp[c].ctype # "html" /\ resp[c].body # "html"
      /\ req[c].out => resp[c].body \in {"ok", "declined", "bare"}
  BY DEF ResultInv, isHTML, decodes
<1>2. resp[c].body \in Bodies
  BY <1>1, BackendAssumption DEF TypeOK, Response
<1> QED
  BY <1>1, <1>2 DEF Unread, Bodies

\* Theorem: a write that returns nil after a 2xx was carried out, unless its
\* JSON said otherwise or nobody read it: of all else that is not Paystack's
\* true envelope, HTML or undecodable, Call returns an error.
THEOREM NilIsCharged == Spec => []NilMeansCharged
<1>1. TypeOK /\ ResultInv => NilMeansCharged
  <2> SUFFICES ASSUME TypeOK, ResultInv, NEW c \in Calls,
                      result[c].kind = "nil", isWriteMethod(verb[c]),
                      Success(resp[c].status),
                      resp[c].body \notin {"declined", "bare"}, ~Unread(c)
               PROVE  CarriedOut(c)
    BY DEF NilMeansCharged
  <2> QED
    BY NilIsEnvelope DEF ResultInv, Acknowledges
<1> QED
  BY <1>1, TypeCorrect, ResultsCorrect, PTL

\* Theorem: the conjunction that is inductive, and that TLC checks as well.
THEOREM BackendCorrect == Spec => []BackendInv
  BY TypeCorrect, CopiesAndSent, ResultsCorrect, ConnectionsReleased, AtMostOncePayment, PTL
  DEF BackendInv

\* Theorem: what Call has decided to return is what it returns.
THEOREM ResultsStable == Spec => ResultStable
<1>1. TypeOK /\ ResultInv /\ [Next]_vars =>
        [\A c \in Calls : result[c] # Pending => result'[c] = result[c]]_vars
  <2> SUFFICES ASSUME TypeOK, ResultInv, Next, NEW c \in Calls, result[c] # Pending
               PROVE  result'[c] = result[c]
    BY DEF vars
  <2> USE DEF TypeOK, ResultInv
  <2>1. ASSUME NEW d \in Calls, DoFails(d),
               pc[d] \in {"connecting", "sending", "awaiting"}
        PROVE  result'[c] = result[c]
    BY <2>1 DEF DoFails
  <2>2. ASSUME NEW d \in Calls, NEW r \in Requests, Start(d, r) PROVE result'[c] = result[c]
    BY <2>2 DEF Start
  <2>3. ASSUME NEW d \in Calls, Connect(d) \/ Proceed(d) PROVE result'[c] = result[c]
    BY <2>1, <2>3 DEF Connect, AcquireIdle, Dial, DialFails, Proceed, Transmit, Follow,
       TooManyRedirects, Deliver, ReadBody, ReadFails, Drain
  <2>4. ASSUME NEW d \in Calls, Reconnect(d) \/ Break(d) \/ Cut(d) \/ Expire(d) \/ CloseRaw(d)
        PROVE  result'[c] = result[c]
    BY <2>1, <2>4 DEF Reconnect, Break, Cut, Expire, CloseRaw
  <2>5. ASSUME NEW m \in wire, Lose(m) \/ \E s \in Responses : Serve(m, s)
        PROVE  result'[c] = result[c]
    BY <2>5 DEF Lose, Serve
  <2>6. CASE IdleClosed \/ Crash \/ (Finished /\ UNCHANGED vars)
    BY <2>6 DEF IdleClosed, Crash, vars
  <2> QED
    BY <2>2, <2>3, <2>4, <2>5, <2>6 DEF Next
<1> QED
  BY <1>1, TypeCorrect, ResultsCorrect, PTL DEF Spec, ResultStable

-----------------------------------------------------------------------------
(* Refinement. *)

\* Lemma: every call is about something the contract knows.
LEMMA IntentType ==
  ASSUME NEW c \in Calls
  PROVE  Intent(c) \in ({"key"} \X Keys) \cup ({"call"} \X Calls)
  BY DEF Intent

\* Lemma: the phase of a call, by where the call is.
LEMMA PhaseCases ==
  ASSUME NEW c \in Calls
  PROVE  /\ pc[c] = "idle" => ContractPhase(c) = "new"
         /\ pc[c] \in Active => ContractPhase(c) = "open"
         /\ pc[c] \in {"returned", "crashed"} =>
              ContractPhase(c) = IF Accepted(c) THEN "accepted" ELSE "unknown"
  BY DEF ContractPhase, Active

\* Lemma: in a state where nothing has started, the contract is at its start.
LEMMA ContractInit == Init => Contract!Init
<1> SUFFICES ASSUME Init PROVE Contract!Init
  OBVIOUS
<1>1. \A c \in Calls : ContractPhase(c) = "new"
  BY PhaseCases DEF Init
<1>2. [c \in Calls |-> Intent(c)] \in [Calls -> ({"key"} \X Keys) \cup ({"call"} \X Calls)]
  BY IntentType
<1> QED
  BY <1>1, <1>2 DEF Init, Contract!Init

\* Lemma: the phase of a call after a step, by where the call is then.
LEMMA PhaseCasesNext ==
  ASSUME NEW c \in Calls
  PROVE  /\ pc'[c] = "idle" => ContractPhase(c)' = "new"
         /\ pc'[c] \in Active => ContractPhase(c)' = "open"
         /\ pc'[c] \in {"returned", "crashed"} =>
              ContractPhase(c)' = IF Accepted(c)' THEN "accepted" ELSE "unknown"
  BY DEF ContractPhase, Active

\* Lemma: a call that a step leaves alone keeps its phase.
LEMMA PhaseFrame ==
  ASSUME NEW c \in Calls, verb'[c] = verb[c], pc'[c] = pc[c], result'[c] = result[c],
         resp'[c] = resp[c]
  PROVE  ContractPhase(c)' = ContractPhase(c)
  BY DEF ContractPhase, Accepted

\* Lemma: a step that moves no phase is a stuttering step of the contract.
LEMMA ContractStutter ==
  ASSUME req' = req, ledger' = ledger,
         \A c \in Calls : ContractPhase(c)' = ContractPhase(c)
  PROVE  UNCHANGED Contract!contractVars
  BY DEF Contract!contractVars, Intent

\* Lemma: a step that ends one call, with its acceptance backed by an effect,
\* is a step of the contract.
LEMMA ContractEnd ==
  ASSUME TypeOK, NEW c \in Calls, req' = req, ledger' = ledger,
         pc[c] \in Active, pc'[c] \in {"returned", "crashed"},
         Accepted(c)' => CarriedOut(c),
         \A d \in Calls \ {c} : ContractPhase(d)' = ContractPhase(d)
  PROVE  Contract!Next
<1>1. ContractPhase(c) = "open"
  BY PhaseCases
<1>2. UNCHANGED [d \in Calls |-> Intent(d)]
  BY DEF Intent
<1>3. CASE Accepted(c)'
  <2>1. ContractPhase(c)' = "accepted"
    BY <1>3, PhaseCasesNext
  <2>2. Contract!CarriedOut(c)
    BY <1>3 DEF CarriedOut, Contract!CarriedOut, TypeOK, Copy
  <2>3. Contract!Accept(c)
    BY <1>1, <1>2, <2>1, <2>2 DEF Contract!Accept
  <2> QED
    BY <2>3 DEF Contract!Next
<1>4. CASE ~Accepted(c)'
  <2>1. ContractPhase(c)' = "unknown"
    BY <1>4, PhaseCasesNext
  <2>2. Contract!GiveUp({c})
    BY <1>1, <1>2, <2>1 DEF Contract!GiveUp
  <2> QED
    BY <2>2 DEF Contract!Next
<1> QED
  BY <1>3, <1>4

\* Lemma: every step is a step of the contract, or leaves its variables alone.
LEMMA ContractStep ==
  BackendInv /\ [Next]_vars => [Contract!Next]_(Contract!contractVars)
<1> SUFFICES ASSUME BackendInv, [Next]_vars
             PROVE  Contract!Next \/ UNCHANGED Contract!contractVars
  OBVIOUS
<1> USE DEF BackendInv
<1>0. \A c \in Calls :
        Accepted(c)' /\ verb' = verb /\ resp' = resp /\ result' = result => CarriedOut(c)
  <2> SUFFICES ASSUME NEW c \in Calls, Accepted(c)',
                      verb' = verb, resp' = resp, result' = result
               PROVE  CarriedOut(c)
    OBVIOUS
  <2>1. result[c] = Nil /\ Acknowledges(resp[c]) /\ isWriteMethod(verb[c])
    BY DEF Accepted, Acknowledges, isWriteMethod
  <2>2. resp[c] # None
    BY <2>1 DEF ResultInv, Nil, Result
  <2> QED
    BY <2>1, <2>2 DEF ResultInv
<1>1. ASSUME NEW c \in Calls, DoFails(c), pc[c] \in {"connecting", "sending", "awaiting"}
      PROVE  Contract!Next
  <2>1. result'[c] = Raw /\ Raw # Nil
    BY <1>1 DEF DoFails, TypeOK, Raw, Nil, Result
  <2>2. ~Accepted(c)'
    BY <2>1 DEF Accepted
  <2>3. \A d \in Calls \ {c} : ContractPhase(d)' = ContractPhase(d)
    BY <1>1, PhaseFrame DEF DoFails, TypeOK
  <2> QED
    BY <1>1, <2>2, <2>3, ContractEnd DEF DoFails, Active, TypeOK
<1>2. ASSUME NEW c \in Calls, Drain(c) \/ CloseRaw(c) PROVE Contract!Next
  <2>1. \A d \in Calls \ {c} : ContractPhase(d)' = ContractPhase(d)
    BY <1>2, PhaseFrame DEF Drain, CloseRaw, TypeOK
  <2> QED
    BY <1>0, <1>2, <2>1, ContractEnd DEF Drain, CloseRaw, Active, TypeOK
<1>3. ASSUME NEW c \in Calls, NEW r \in Requests, Start(c, r) PROVE Contract!Next
  <2>1. ContractPhase(c) = "new"
    BY <1>3, PhaseCases DEF Start
  <2>2. pc'[c] = "connecting" \/ (pc'[c] = "returned" /\ result'[c] # Nil)
    BY <1>3 DEF Start, TypeOK, Raw, Nil, Result
  <2>3. ContractPhase(c)' \in {"open", "unknown"}
    BY <2>2, PhaseCasesNext DEF Accepted, Active
  <2>4. \A d \in Calls \ {c} : ContractPhase(d)' = ContractPhase(d) /\ Intent(d)' = Intent(d)
    BY <1>3, PhaseFrame DEF Start, TypeOK, Intent
  <2>5. Intent(c)' \in ({"key"} \X Keys) \cup ({"call"} \X Calls)
    BY DEF Intent
  <2>6. Contract!Begin(c)
    BY <1>3, <2>1, <2>3, <2>4, <2>5 DEF Contract!Begin, Start
  <2> QED
    BY <2>6 DEF Contract!Next
<1>9. ASSUME NEW c \in Calls, TooManyRedirects(c) PROVE Contract!Next
  <2>1. result'[c] = Raw /\ Raw # Nil
    BY <1>9 DEF TooManyRedirects, TypeOK, Raw, Nil, Result
  <2>2. ~Accepted(c)'
    BY <2>1 DEF Accepted
  <2>3. \A d \in Calls \ {c} : ContractPhase(d)' = ContractPhase(d)
    BY <1>9, PhaseFrame DEF TooManyRedirects, TypeOK
  <2> QED
    BY <1>9, <2>2, <2>3, ContractEnd DEF TooManyRedirects, Active, TypeOK
<1>4. ASSUME NEW m \in wire, NEW s \in Responses, Serve(m, s)
      PROVE  Contract!Next \/ UNCHANGED Contract!contractVars
  <2>1. m.call \in Calls /\ m \notin ledger /\ req[m.call] # None
    BY DEF TypeOK, CopiesInv, Copy
  <2>2. \A d \in Calls : pc[d] \in {"returned", "crashed"} => resp'[d] = resp[d]
    BY <1>4, <2>1 DEF Serve, TypeOK
  <2>3. \A d \in Calls : ContractPhase(d)' = ContractPhase(d)
    BY <1>4, <2>2, PhaseFrame, PhaseCases, PhaseCasesNext DEF Serve, TypeOK, Stages, Active
  <2>4. CASE ledger' = ledger
    BY <1>4, <2>3, <2>4, ContractStutter DEF Serve
  <2>5. CASE ledger' # ledger
    <3>1. ledger' = ledger \cup {m} /\ ~Known(m) /\ isWriteMethod(m.verb)
      BY <1>4, <2>5 DEF Serve
    <3>2. \A e \in ledger : Intent(e.call) # Intent(m.call)
      BY <3>1, <2>1, SameIntentCopies DEF Known, CopiesInv
    <3>3. ~Contract!CarriedOut(m.call)
      BY <2>1, <3>2 DEF Contract!CarriedOut, TypeOK, Copy
    <3>4. ContractPhase(m.call) # "new"
      BY <2>1, PhaseCases DEF TypeOK, Stages, Active
    <3>5. Contract!Charge(m.call)
      BY <1>4, <2>1, <2>3, <3>1, <3>3, <3>4 DEF Contract!Charge, Serve, Intent
    <3> QED
      BY <2>1, <3>5 DEF Contract!Next
  <2> QED
    BY <2>4, <2>5
<1>5. CASE Crash
  <2> DEFINE S == {c \in Calls : pc[c] \in Active}
  <2>1. S \in (SUBSET Calls) \ {{}}
    BY <1>5 DEF Crash
  <2>2. \A c \in S : ContractPhase(c) = "open"
    BY PhaseCases
  <2>3. \A c \in S : pc'[c] = "crashed"
    BY <1>5 DEF Crash
  <2>4. \A c \in S : ContractPhase(c)' = "unknown"
    BY <2>3, PhaseCasesNext DEF Accepted
  <2>5. \A c \in Calls \ S : ContractPhase(c)' = ContractPhase(c)
    BY <1>5, PhaseFrame DEF Crash
  <2>6. Contract!GiveUp(S)
    BY <1>5, <2>2, <2>4, <2>5 DEF Contract!GiveUp, Crash, Intent
  <2> QED
    BY <2>1, <2>6 DEF Contract!Next
<1>6. ASSUME NEW c \in Calls,
             \/ AcquireIdle(c) \/ Dial(c) \/ Transmit(c) \/ Deliver(c) \/ ReadBody(c)
             \/ ReadFails(c) \/ Reconnect(c) \/ Cut(c) \/ Follow(c)
      PROVE  UNCHANGED Contract!contractVars
  <2> USE DEF AcquireIdle, Dial, Transmit, Deliver, ReadBody, ReadFails, Reconnect, Cut, Follow
  <2>1. pc[c] \in Active /\ pc'[c] \in Active /\ req' = req /\ ledger' = ledger
    BY <1>6 DEF Active, TypeOK
  <2>2. \A d \in Calls \ {c} : /\ pc'[d] = pc[d] /\ result'[d] = result[d]
                               /\ resp'[d] = resp[d] /\ verb'[d] = verb[d]
    BY <1>6 DEF TypeOK
  <2>3. \A d \in Calls : ContractPhase(d)' = ContractPhase(d)
    BY <2>1, <2>2, PhaseFrame, PhaseCases, PhaseCasesNext
  <2> QED
    BY <2>1, <2>3, ContractStutter
<1>7. CASE IdleClosed \/ (\E m \in wire : Lose(m)) \/ UNCHANGED vars
  <2>1. \A d \in Calls : ContractPhase(d)' = ContractPhase(d)
    BY <1>7, PhaseFrame DEF IdleClosed, Lose, vars
  <2> QED
    BY <1>7, <2>1, ContractStutter DEF IdleClosed, Lose, vars
<1>8. ASSUME NEW c \in Calls, Connect(c) \/ Break(c) \/ Expire(c)
      PROVE  Contract!Next \/ UNCHANGED Contract!contractVars
  BY <1>1, <1>6, <1>8 DEF Connect, DialFails, Break, Expire
<1> QED
  BY <1>2, <1>3, <1>4, <1>5, <1>6, <1>7, <1>8, <1>9 DEF Next, Proceed

\* Theorem: HTTPBackend over net/http implements the payment contract.
THEOREM Refinement == Spec => ImplementsContract
  BY ContractInit, ContractStep, BackendCorrect, PTL DEF Spec, ImplementsContract, Contract!Spec

-----------------------------------------------------------------------------
(* The services' requests. *)

(***************************************************************************)
(* The assumptions on Requests are no restriction: whatever arguments a    *)
(* method of a service is given, what it asks of the backend satisfies     *)
(* them, so that the theorems above hold of every use of the services      *)
(* (transaction.go, charge.go, customer.go, plan.go, subscription.go,      *)
(* transfer.go, refund.go).                                                *)
(***************************************************************************)
THEOREM ServicesMakeRequests ==
  ASSUME NEW sm \in Methods, NEW raw \in BOOLEAN, NEW r \in RequestsOf(Endpoint(sm), raw)
  PROVE  r \in Request /\ (r.key # NoKey => r.params \in {"ptr", "bad"})
  <1> DEFINE e == Endpoint(sm)
  <1>1. e.verb \in Verbs /\ e.arg \in {"none", "plain", "List", "Params"}
    BY EveryRowGiven DEF Given, Verbs
  <1>2. (e.out # "none") \in BOOLEAN
    OBVIOUS
  <1> HIDE DEF e
  <1>3. r \in RequestsOf(e, raw)
    BY DEF e
  <1>4. CASE e.arg = "none" \/ e.arg = "plain"
    BY <1>1, <1>2, <1>3, <1>4 DEF RequestsOf, Request, CallerKeys
  <1>5. CASE e.arg = "List"
    BY <1>1, <1>2, <1>3, <1>5 DEF RequestsOf, Request, CallerKeys
  <1>6. CASE e.arg = "Params"
    BY <1>1, <1>2, <1>3, <1>6 DEF RequestsOf, Request, CallerKeys
  <1> QED
    BY <1>1, <1>4, <1>5, <1>6

(***************************************************************************)
(* "Params.IdempotencyKey is forwarded as a header on every write", but    *)
(* for the one write that takes no Params: through any other, a caller can *)
(* send any key, and it is the key that the header carries (README.md 38,  *)
(* customer.go 124, backend.go 135-137 and 192-202).                       *)
(***************************************************************************)
THEOREM WritesCarryKeys ==
  ASSUME NEW sm \in Methods, isWriteMethod(Endpoint(sm).verb),
         sm # <<"customer", "DeactivateAuthorization">>, NEW k \in Keys
  PROVE  \E r \in RequestsOf(Endpoint(sm), FALSE) :
           r.params = "ptr" /\ ~panics(r) /\ idempotencyHeader(r) = k
  <1> DEFINE e == Endpoint(sm)
             r == [verb |-> e.verb, params |-> "ptr", key |-> k, out |-> e.out # "none", raw |-> FALSE]
  <1>1. e.arg = "Params"
    BY EveryRowGiven DEF Given, isWriteMethod
  <1>2. k \in CallerKeys /\ k # NoKey /\ k # EmptyKey
    BY BackendAssumption DEF CallerKeys
  <1>3. r \in RequestsOf(e, FALSE)
    BY <1>1, <1>2 DEF RequestsOf
  <1>4. r.params = "ptr" /\ ~panics(r) /\ idempotencyHeader(r) = k
    BY <1>2 DEF panics, idempotencyHeader, extractIdempotencyKey
  <1> QED
    BY <1>3, <1>4
=============================================================================
