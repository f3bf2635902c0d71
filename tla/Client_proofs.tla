--------------------------- MODULE Client_proofs ---------------------------
(***************************************************************************)
(* Proofs about module Client: its invariants, and that a MockBackend      *)
(* implements Recorder.                                                    *)
(***************************************************************************)
EXTENDS Client, LoopLemmas

\* All that the invariants say, in the one formula that is inductive.
IInv == TypeOK /\ MutexInv /\ RoutingInv /\ CallsReachOwnBackend

\* The innermost Middleware of a route is that of its tail.
LEMMA LastOfTail ==
  ASSUME NEW S, NEW s \in Seq(S), s # <<>>, Tail(s) # <<>>
  PROVE  Last(Tail(s)) = Last(s)
  BY DEF Last

\* On a route of one Middleware, that is the innermost.
LEMMA HeadIsLast ==
  ASSUME NEW S, NEW s \in Seq(S), s # <<>>, Tail(s) = <<>>
  PROVE  Head(s) = Last(s)
  <1>1. Len(s) \in Nat /\ Len(Tail(s)) = Len(s) - 1
    OBVIOUS
  <1>2. Len(Tail(s)) = 0
    BY EmptySeq
  <1>3. Len(s) = 1
    BY <1>1, <1>2
  <1> QED
    BY <1>3 DEF Last

\* The innermost Middleware is one of the route's.
LEMMA LastInSet ==
  ASSUME NEW S, NEW s \in Seq(S), s # <<>>
  PROVE  /\ Len(s) \in 1..Len(s)
         /\ Last(s) = s[Len(s)]
         /\ Last(s) \in S
  BY DEF Last

\* The invariant holds when nothing has begun.
LEMMA InitInv == Init => IInv
  <1> SUFFICES ASSUME Init PROVE IInv
    OBVIOUS
  <1> USE ClientAssumption DEF Init
  <1>1. TypeOK
    BY DEF TypeOK, Stages, Requests, Log, Answers
  <1>2. MutexInv
    BY DEF MutexInv, Methods, InUse, Inside
  <1>3. RoutingInv
    BY DEF RoutingInv, InUse, Inside
  <1>4. CallsReachOwnBackend
    BY DEF CallsReachOwnBackend
  <1> QED
    BY <1>1, <1>2, <1>3, <1>4 DEF IInv

\* Every step keeps the types.
LEMMA TypeOKStep == TypeOK /\ MutexInv /\ [Next]_vars => TypeOK'
  <1> SUFFICES ASSUME TypeOK, MutexInv, [Next]_vars PROVE TypeOK'
    OBVIOUS
  <1>a. Routes \subseteq Requests /\ <<>> \in Requests /\ <<>> \in Log
    BY DEF Requests, Log
  <1>b. {None, Void, Panic} \subseteq Answers /\ Requests \subseteq Answers /\ Log \subseteq Answers
    BY DEF Answers
  <1>c. Routes \subseteq Seq(Clients) /\ MaxUses \in Nat
    BY ClientAssumption
  <1>d. \A s \in Seq(Clients) : s # <<>> => Head(s) \in Clients /\ Tail(s) \in Seq(Clients)
    OBVIOUS
  <1>e. \A s \in Log, r \in Requests : Append(s, r) \in Log
    BY DEF Log
  <1>f. \A s \in Log : s # <<>> => s[Len(s)] \in Requests
    BY LastInSet DEF Log
  <1>g. \A s \in Log : [i \in 1..Len(s) |-> IF i <= Len(s) THEN s[i] ELSE None] = s
    BY DEF Log
  <1> USE <1>a, <1>b, <1>c, <1>d DEF TypeOK, Stages, request
  <1>1. ASSUME NEW k \in Clients, NEW key \in Keys, NEW options \in OptionsFor[k],
              New(k, key, options)
       PROVE  TypeOK'
    BY <1>1 DEF New
  <1>2. ASSUME NEW g \in Goroutines, NEW rt \in Routes, Arrive(g, rt)
       PROVE  TypeOK'
    BY <1>2 DEF Arrive
  <1>3. ASSUME NEW g \in Goroutines, NEW b \in Mocks,
              NEW method \in {"Calls", "LastCall", "Reset"}, Inspect(g, b, method)
       PROVE  TypeOK'
    BY <1>3 DEF Inspect
  <1>4. ASSUME NEW g \in Goroutines, Middleware(g) PROVE TypeOK'
    BY <1>4 DEF Middleware
  <1>5. ASSUME NEW g \in Goroutines, NoClient(g) PROVE TypeOK'
    BY <1>5 DEF NoClient, Answered
  <1>6. ASSUME NEW g \in Goroutines, CallService(g) PROVE TypeOK'
    BY <1>6 DEF CallService, ClientFrom
  <1>7. ASSUME NEW g \in Goroutines, CallLive(g) PROVE TypeOK'
    BY <1>7 DEF CallLive, Answered
  <1>8. ASSUME NEW g \in Goroutines, Lock(g) PROVE TypeOK'
    BY <1>8 DEF Lock
  <1>9. ASSUME NEW g \in Goroutines, ReadSlice(g) PROVE TypeOK'
    BY <1>9 DEF ReadSlice, MutexInv, InUse, Inside
  <1>10. ASSUME NEW g \in Goroutines, LastCall(g) PROVE TypeOK'
    <2>1. at[g] \in Mocks /\ reg[g] = calls[at[g]] /\ calls[at[g]] \in Log
      BY <1>10 DEF LastCall, MutexInv, InUse, Inside
    <2> QED
      BY <1>10, <1>f, <2>1 DEF LastCall, Returns
  <1>11. ASSUME NEW g \in Goroutines, CallsCopy(g) PROVE TypeOK'
    <2>1. at[g] \in Mocks /\ reg[g] = calls[at[g]] /\ calls[at[g]] \in Log
      BY <1>11 DEF CallsCopy, MutexInv, InUse, Inside
    <2>2. ret' = [ret EXCEPT ![g] = reg[g]]
      BY <1>11, <1>g, <2>1 DEF CallsCopy, Returns
    <2> QED
      BY <1>11, <2>1, <2>2 DEF CallsCopy, Returns
  <1>12. ASSUME NEW g \in Goroutines, Record(g) PROVE TypeOK'
    BY <1>12, <1>e DEF Record, Returns, record
  <1>13. ASSUME NEW g \in Goroutines, Reset(g) PROVE TypeOK'
    BY <1>13 DEF Reset, Returns
  <1>14. ASSUME NEW g \in Goroutines, Unlock(g) PROVE TypeOK'
    BY <1>14 DEF Unlock, Left, Answered
  <1>15. CASE UNCHANGED vars
    BY <1>15 DEF vars
  <1> QED
    BY <1>1, <1>2, <1>3, <1>4, <1>5, <1>6, <1>7, <1>8, <1>9, <1>10, <1>11, <1>12, <1>13, <1>14, <1>15 DEF Next, Proceed

\* Every step keeps each mutex with the goroutine that took it.
LEMMA MutexStep == TypeOK /\ MutexInv /\ [Next]_vars => MutexInv'
  <1> SUFFICES ASSUME TypeOK, MutexInv, [Next]_vars PROVE MutexInv'
    OBVIOUS
  <1> USE ClientAssumption DEF TypeOK, MutexInv, Methods, InUse, Inside, Stages, request
  <1>1. ASSUME NEW k \in Clients, NEW key \in Keys, NEW options \in OptionsFor[k],
              New(k, key, options)
       PROVE  MutexInv'
    BY <1>1 DEF New
  <1>2. ASSUME NEW g \in Goroutines, NEW rt \in Routes, Arrive(g, rt)
       PROVE  MutexInv'
    BY <1>2 DEF Arrive
  <1>3. ASSUME NEW g \in Goroutines, NEW b \in Mocks,
              NEW method \in {"Calls", "LastCall", "Reset"}, Inspect(g, b, method)
       PROVE  MutexInv'
    BY <1>3 DEF Inspect
  <1>4. ASSUME NEW g \in Goroutines, Middleware(g) PROVE MutexInv'
    BY <1>4 DEF Middleware
  <1>5. ASSUME NEW g \in Goroutines, NoClient(g) PROVE MutexInv'
    BY <1>5 DEF NoClient, Answered
  <1>6. ASSUME NEW g \in Goroutines, CallService(g) PROVE MutexInv'
    BY <1>6 DEF CallService, ClientFrom
  <1>7. ASSUME NEW g \in Goroutines, CallLive(g) PROVE MutexInv'
    BY <1>7 DEF CallLive, Answered
  <1>8. ASSUME NEW g \in Goroutines, Lock(g) PROVE MutexInv'
    BY <1>8 DEF Lock
  <1>9. ASSUME NEW g \in Goroutines, ReadSlice(g) PROVE MutexInv'
    BY <1>9 DEF ReadSlice
  <1>10. ASSUME NEW g \in Goroutines, LastCall(g) PROVE MutexInv'
    BY <1>10, LastInSet DEF LastCall, Returns
  <1>11. ASSUME NEW g \in Goroutines, CallsCopy(g) PROVE MutexInv'
    BY <1>11 DEF CallsCopy, Returns
  <1>12. ASSUME NEW g \in Goroutines, Record(g) PROVE MutexInv'
    BY <1>12 DEF Record, Returns, record
  <1>13. ASSUME NEW g \in Goroutines, Reset(g) PROVE MutexInv'
    BY <1>13 DEF Reset, Returns
  <1>14. ASSUME NEW g \in Goroutines, Unlock(g) PROVE MutexInv'
    BY <1>14 DEF Unlock, Left, Answered
  <1>15. CASE UNCHANGED vars
    BY <1>15 DEF vars
  <1> QED
    BY <1>1, <1>2, <1>3, <1>4, <1>5, <1>6, <1>7, <1>8, <1>9, <1>10, <1>11, <1>12, <1>13, <1>14, <1>15 DEF Next, Proceed

\* Every step keeps a request on its own way.
LEMMA RoutingStep == TypeOK /\ RoutingInv /\ [Next]_vars => RoutingInv'
  <1> SUFFICES ASSUME TypeOK, RoutingInv, [Next]_vars PROVE RoutingInv'
    OBVIOUS
  <1> USE ClientAssumption DEF TypeOK, RoutingInv, BackendOf, InUse, Inside, Stages, request
  <1>1. ASSUME NEW k \in Clients, NEW key \in Keys, NEW options \in OptionsFor[k],
              New(k, key, options)
       PROVE  RoutingInv'
    BY <1>1 DEF New
  <1>2. ASSUME NEW g \in Goroutines, NEW rt \in Routes, Arrive(g, rt)
       PROVE  RoutingInv'
    <2>1. rt \in Seq(Clients)
      OBVIOUS
    <2>2. rt # <<>> => Last(rt) \in Clients
      BY <2>1, LastInSet
    <2>3. rt # <<>> => BackendOf(rt) # None
      BY <1>2, <2>2 DEF Arrive
    <2> QED
      BY <1>2, <2>1, <2>3 DEF Arrive
  <1>3. ASSUME NEW g \in Goroutines, NEW b \in Mocks,
              NEW method \in {"Calls", "LastCall", "Reset"}, Inspect(g, b, method)
       PROVE  RoutingInv'
    BY <1>3 DEF Inspect
  <1>4. ASSUME NEW g \in Goroutines, Middleware(g) PROVE RoutingInv'
    <2>1. left[g] \in Seq(Clients) /\ left[g] # <<>> /\ route[g] # <<>>
      BY <1>4 DEF Middleware
    <2>2. Tail(left[g]) # <<>> => Last(Tail(left[g])) = Last(route[g])
      BY <1>4, <2>1, LastOfTail DEF Middleware
    <2>3. Tail(left[g]) = <<>> => Head(left[g]) = Last(route[g])
      BY <1>4, <2>1, HeadIsLast DEF Middleware
    <2>4. /\ pc' = pc /\ route' = route /\ client' = client /\ op' = op /\ at' = at /\ live' = live
          /\ left' = [left EXCEPT ![g] = Tail(left[g])]
          /\ ctx' = [ctx EXCEPT ![g] = Head(left[g])]
      BY <1>4 DEF Middleware
    <2> QED
      BY <2>1, <2>2, <2>3, <2>4
  <1>5. ASSUME NEW g \in Goroutines, NoClient(g) PROVE RoutingInv'
    BY <1>5 DEF NoClient, Answered, ClientFrom
  <1>6. ASSUME NEW g \in Goroutines, CallService(g) PROVE RoutingInv'
    BY <1>6 DEF CallService, ClientFrom
  <1>7. ASSUME NEW g \in Goroutines, CallLive(g) PROVE RoutingInv'
    BY <1>7 DEF CallLive, Answered, ClientFrom
  <1>8. ASSUME NEW g \in Goroutines, Lock(g) PROVE RoutingInv'
    BY <1>8 DEF Lock
  <1>9. ASSUME NEW g \in Goroutines, ReadSlice(g) PROVE RoutingInv'
    BY <1>9 DEF ReadSlice
  <1>10. ASSUME NEW g \in Goroutines, LastCall(g) PROVE RoutingInv'
    BY <1>10, LastInSet DEF LastCall, Returns
  <1>11. ASSUME NEW g \in Goroutines, CallsCopy(g) PROVE RoutingInv'
    BY <1>11 DEF CallsCopy, Returns
  <1>12. ASSUME NEW g \in Goroutines, Record(g) PROVE RoutingInv'
    BY <1>12 DEF Record, Returns, record
  <1>13. ASSUME NEW g \in Goroutines, Reset(g) PROVE RoutingInv'
    BY <1>13 DEF Reset, Returns
  <1>14. ASSUME NEW g \in Goroutines, Unlock(g) PROVE RoutingInv'
    BY <1>14 DEF Unlock, Left, Answered
  <1>15. CASE UNCHANGED vars
    BY <1>15 DEF vars
  <1> QED
    BY <1>1, <1>2, <1>3, <1>4, <1>5, <1>6, <1>7, <1>8, <1>9, <1>10, <1>11, <1>12, <1>13, <1>14, <1>15 DEF Next, Proceed

\* Every step keeps the calls where they belong.
LEMMA CallsStep == TypeOK /\ MutexInv /\ RoutingInv /\ CallsReachOwnBackend /\ [Next]_vars => CallsReachOwnBackend'
  <1> SUFFICES ASSUME TypeOK, MutexInv, RoutingInv, CallsReachOwnBackend, [Next]_vars PROVE CallsReachOwnBackend'
    OBVIOUS
  <1> USE ClientAssumption DEF TypeOK, MutexInv, RoutingInv, CallsReachOwnBackend, BackendOf, InUse, Inside, request
  <1>1. ASSUME NEW k \in Clients, NEW key \in Keys, NEW options \in OptionsFor[k],
              New(k, key, options)
       PROVE  CallsReachOwnBackend'
    BY <1>1 DEF New
  <1>2. ASSUME NEW g \in Goroutines, NEW rt \in Routes, Arrive(g, rt)
       PROVE  CallsReachOwnBackend'
    BY <1>2 DEF Arrive
  <1>3. ASSUME NEW g \in Goroutines, NEW b \in Mocks,
              NEW method \in {"Calls", "LastCall", "Reset"}, Inspect(g, b, method)
       PROVE  CallsReachOwnBackend'
    BY <1>3 DEF Inspect
  <1>4. ASSUME NEW g \in Goroutines, Middleware(g) PROVE CallsReachOwnBackend'
    BY <1>4 DEF Middleware
  <1>5. ASSUME NEW g \in Goroutines, NoClient(g) PROVE CallsReachOwnBackend'
    BY <1>5 DEF NoClient, Answered, ClientFrom
  <1>6. ASSUME NEW g \in Goroutines, CallService(g) PROVE CallsReachOwnBackend'
    BY <1>6 DEF CallService, ClientFrom
  <1>7. ASSUME NEW g \in Goroutines, CallLive(g) PROVE CallsReachOwnBackend'
    BY <1>7 DEF CallLive, Answered, ClientFrom
  <1>8. ASSUME NEW g \in Goroutines, Lock(g) PROVE CallsReachOwnBackend'
    BY <1>8 DEF Lock
  <1>9. ASSUME NEW g \in Goroutines, ReadSlice(g) PROVE CallsReachOwnBackend'
    BY <1>9 DEF ReadSlice
  <1>10. ASSUME NEW g \in Goroutines, LastCall(g) PROVE CallsReachOwnBackend'
    BY <1>10, LastInSet DEF LastCall, Returns
  <1>11. ASSUME NEW g \in Goroutines, CallsCopy(g) PROVE CallsReachOwnBackend'
    BY <1>11 DEF CallsCopy, Returns
  <1>12. ASSUME NEW g \in Goroutines, Record(g) PROVE CallsReachOwnBackend'
    BY <1>12 DEF Record, Returns, record
  <1>13. ASSUME NEW g \in Goroutines, Reset(g) PROVE CallsReachOwnBackend'
    BY <1>13 DEF Reset, Returns
  <1>14. ASSUME NEW g \in Goroutines, Unlock(g) PROVE CallsReachOwnBackend'
    BY <1>14 DEF Unlock, Left, Answered
  <1>15. CASE UNCHANGED vars
    BY <1>15 DEF vars
  <1> QED
    BY <1>1, <1>2, <1>3, <1>4, <1>5, <1>6, <1>7, <1>8, <1>9, <1>10, <1>11, <1>12, <1>13, <1>14, <1>15 DEF Next, Proceed

\* IInv holds in every reachable state.
LEMMA IInvHolds == Spec => []IInv
  <1>1. IInv /\ [Next]_vars => IInv'
    BY TypeOKStep, MutexStep, RoutingStep, CallsStep DEF IInv
  <1> QED
    BY InitInv, <1>1, PTL DEF Spec

(***************************************************************************)
(* Every variable has its type.  In particular Calls returns no empty      *)
(* records, although it makes the copy before it fills it (lines 85-91).   *)
(***************************************************************************)
THEOREM TypeCorrect == Spec => []TypeOK
  BY IInvHolds, PTL DEF IInv

(***************************************************************************)
(* A MockBackend's slice is used by the owner of its mutex only, and a     *)
(* request's context leads to the client of its innermost Middleware.      *)
(***************************************************************************)
THEOREM ClientSafe == Spec => []ClientInv
  BY IInvHolds, PTL DEF IInv, ClientInv

(***************************************************************************)
(* For any handlers, routes and clients: a mock records no other client's  *)
(* calls, and nothing goes live whose client has a mock.                   *)
(***************************************************************************)
THEOREM OwnBackend == Spec => []CallsReachOwnBackend
  BY IInvHolds, PTL DEF IInv

-----------------------------------------------------------------------------
(* A MockBackend implements Recorder.  useOf and answerOf are the values   *)
(* that the refinement mapping gives to use[g] and answer[g].              *)

useOf(g) ==
  IF InUse(g) THEN <<[op |-> op[g], mock |-> at[g], rec |-> record(g)]>> ELSE <<>>

answerOf(g) == IF pc[g] = "unlocking" THEN <<ret[g]>> ELSE <<>>

\* A step of g leaves the uses and the answers of the others alone.
LEMMA OthersKeep ==
  ASSUME TypeOK, NEW g \in Goroutines,
         \A x \in Goroutines \ {g} :
           pc'[x] = pc[x] /\ op'[x] = op[x] /\ at'[x] = at[x] /\ route'[x] = route[x] /\ ret'[x] = ret[x]
  PROVE  /\ [x \in Goroutines |-> useOf(x)]' =
              [[x \in Goroutines |-> useOf(x)] EXCEPT ![g] = useOf(g)']
         /\ [x \in Goroutines |-> answerOf(x)]' =
              [[x \in Goroutines |-> answerOf(x)] EXCEPT ![g] = answerOf(g)']
  <1>1. \A x \in Goroutines \ {g} : useOf(x)' = useOf(x)
    BY DEF useOf, InUse, Inside, record
  <1>2. \A x \in Goroutines \ {g} : answerOf(x)' = answerOf(x)
    BY DEF answerOf
  <1> QED
    BY <1>1, <1>2

\* The steps that Recorder does not see.
Silent(g) ==
  \/ \E rt \in Routes : Arrive(g, rt)
  \/ Middleware(g) \/ NoClient(g) \/ CallLive(g) \/ Lock(g) \/ ReadSlice(g)

\* These steps of a goroutine change nothing that Recorder sees.
LEMMA SilentStep ==
  ASSUME TypeOK, NEW g \in Goroutines, Silent(g)
  PROVE  UNCHANGED Recording!recorderVars
  <1>1. /\ calls' = calls
        /\ useOf(g)' = useOf(g)
        /\ answerOf(g)' = answerOf(g)
    <2> USE DEF TypeOK, useOf, answerOf, InUse, Inside, record, request
    <2>1. CASE \E rt \in Routes : Arrive(g, rt)
      BY <2>1 DEF Arrive
    <2>2. CASE Middleware(g)
      BY <2>2 DEF Middleware
    <2>3. CASE NoClient(g)
      BY <2>3 DEF NoClient, Answered
    <2>4. CASE CallLive(g)
      BY <2>4 DEF CallLive, Answered
    <2>5. CASE Lock(g)
      BY <2>5 DEF Lock
    <2>6. CASE ReadSlice(g)
      BY <2>6 DEF ReadSlice
    <2> QED
      BY <2>1, <2>2, <2>3, <2>4, <2>5, <2>6 DEF Silent
  <1>2. \A x \in Goroutines \ {g} :
          pc'[x] = pc[x] /\ op'[x] = op[x] /\ at'[x] = at[x] /\ route'[x] = route[x] /\ ret'[x] = ret[x]
    BY DEF Silent, TypeOK, Arrive, Middleware, NoClient, CallLive, Lock, ReadSlice, Answered, request
  <1>3. /\ [x \in Goroutines |-> useOf(x)]' = [x \in Goroutines |-> useOf(x)]
        /\ [x \in Goroutines |-> answerOf(x)]' = [x \in Goroutines |-> answerOf(x)]
    BY <1>1, <1>2, OthersKeep
  <1> QED
    BY <1>1, <1>3 DEF Recording!recorderVars, useOf, answerOf

\* A call of a method begins its use.
LEMMA BeginStep ==
  ASSUME TypeOK, RoutingInv, NEW g \in Goroutines,
         \/ CallService(g)
         \/ \E b \in Mocks, method \in {"Calls", "LastCall", "Reset"} : Inspect(g, b, method)
  PROVE  Recording!Begin(g)
  <1>1. /\ calls' = calls
        /\ useOf(g) = <<>> /\ answerOf(g) = <<>> /\ answerOf(g)' = <<>>
        /\ InUse(g)' /\ op'[g] \in Methods /\ at'[g] \in Mocks /\ route'[g] \in Requests
    BY DEF CallService, Inspect, TypeOK, Methods, useOf, answerOf, InUse, Inside, request
  <1>2. \A x \in Goroutines \ {g} :
          pc'[x] = pc[x] /\ op'[x] = op[x] /\ at'[x] = at[x] /\ route'[x] = route[x] /\ ret'[x] = ret[x]
    BY DEF CallService, Inspect, TypeOK, request
  <1> DEFINE u == [op |-> op'[g], mock |-> at'[g], rec |-> route'[g]]
  <1>3. u \in Recording!Uses /\ useOf(g)' = <<u>>
    BY <1>1 DEF Recording!Uses, Methods, useOf, record
  <1>4. /\ [x \in Goroutines |-> useOf(x)]' = [[x \in Goroutines |-> useOf(x)] EXCEPT ![g] = <<u>>]
        /\ [x \in Goroutines |-> answerOf(x)]' = [x \in Goroutines |-> answerOf(x)]
    BY <1>1, <1>2, <1>3, OthersKeep
  <1> HIDE DEF u
  <1> QED
    BY <1>1, <1>3, <1>4 DEF Recording!Begin, useOf, answerOf

\* The step in which a method decides what it returns has its whole effect.
LEMMA ActStep ==
  ASSUME TypeOK, MutexInv, NEW g \in Goroutines,
         LastCall(g) \/ CallsCopy(g) \/ Record(g) \/ Reset(g)
  PROVE  Recording!Act(g)
  <1> DEFINE u == [op |-> op[g], mock |-> at[g], rec |-> record(g)]
  <1>1. /\ useOf(g) = <<u>> /\ useOf(g)' = <<u>>
        /\ answerOf(g) = <<>> /\ answerOf(g)' = <<ret'[g]>>
        /\ at[g] \in Mocks /\ reg[g] = calls[at[g]] /\ calls[at[g]] \in Log
    BY DEF LastCall, CallsCopy, Record, Reset, Returns, TypeOK, MutexInv, useOf, answerOf,
           InUse, Inside, record, request
  <1>2. \A x \in Goroutines \ {g} :
          pc'[x] = pc[x] /\ op'[x] = op[x] /\ at'[x] = at[x] /\ route'[x] = route[x] /\ ret'[x] = ret[x]
    BY DEF LastCall, CallsCopy, Record, Reset, Returns, TypeOK, request
  <1>3. /\ calls' = [calls EXCEPT ![u.mock] = Recording!LogAfter(u, calls[u.mock])]
        /\ ret'[g] = Recording!AnswerTo(u, calls[u.mock])
    <2> USE <1>1 DEF TypeOK, Returns, request, Recording!LogAfter, Recording!AnswerTo
    <2>1. CASE LastCall(g)
      BY <2>1 DEF LastCall
    <2>2. CASE CallsCopy(g)
      <3>1. \A s \in Log : [i \in 1..Len(s) |-> IF i <= Len(s) THEN s[i] ELSE None] = s
        BY DEF Log
      <3>2. ret'[g] = calls[at[g]]
        BY <2>2, <3>1 DEF CallsCopy
      <3> QED
        BY <2>2, <3>2 DEF CallsCopy
    <2>3. CASE Record(g)
      BY <2>3 DEF Record
    <2>4. CASE Reset(g)
      BY <2>4 DEF Reset
    <2> QED
      BY <2>1, <2>2, <2>3, <2>4
  <1>4. /\ [x \in Goroutines |-> useOf(x)]' = [x \in Goroutines |-> useOf(x)]
        /\ [x \in Goroutines |-> answerOf(x)]' =
             [[x \in Goroutines |-> answerOf(x)] EXCEPT ![g] = <<Recording!AnswerTo(u, calls[u.mock])>>]
    BY <1>1, <1>2, <1>3, OthersKeep
  <1>5. [x \in Goroutines |-> useOf(x)][g] = <<u>> /\ [x \in Goroutines |-> answerOf(x)][g] = <<>>
    BY <1>1
  <1> HIDE DEF u
  <1> QED
    BY <1>3, <1>4, <1>5 DEF Recording!Act, useOf, answerOf

\* Unlock ends the use.
LEMMA EndStep ==
  ASSUME TypeOK, NEW g \in Goroutines, Unlock(g)
  PROVE  Recording!End(g)
  <1>1. /\ calls' = calls
        /\ useOf(g)' = <<>> /\ answerOf(g) # <<>> /\ answerOf(g)' = <<>>
    BY DEF Unlock, Left, Answered, TypeOK, useOf, answerOf, InUse, Inside
  <1>2. \A x \in Goroutines \ {g} :
          pc'[x] = pc[x] /\ op'[x] = op[x] /\ at'[x] = at[x] /\ route'[x] = route[x] /\ ret'[x] = ret[x]
    BY DEF Unlock, Left, Answered, TypeOK
  <1>3. /\ [x \in Goroutines |-> useOf(x)]' = [[x \in Goroutines |-> useOf(x)] EXCEPT ![g] = <<>>]
        /\ [x \in Goroutines |-> answerOf(x)]' = [[x \in Goroutines |-> answerOf(x)] EXCEPT ![g] = <<>>]
    BY <1>1, <1>2, OthersKeep
  <1> QED
    BY <1>1, <1>3 DEF Recording!End, useOf, answerOf

(***************************************************************************)
(* For any number of goroutines and mocks, what a MockBackend has recorded *)
(* and what it returns is what it would be if each use of it took effect   *)
(* at one moment (testutil/backend.go lines 47-50, 66-69, 84-108).         *)
(***************************************************************************)
THEOREM MockIsRecorder == Spec => ImplementsRecorder
  <1>1. Init => Recording!Init
    BY DEF Init, Recording!Init, InUse, Inside
  <1>2. IInv /\ [Next]_vars => [Recording!Next]_(Recording!recorderVars)
    <2> SUFFICES ASSUME IInv, [Next]_vars PROVE [Recording!Next]_(Recording!recorderVars)
      OBVIOUS
    <2> USE DEF IInv
    <2>1. ASSUME NEW g \in Goroutines, Silent(g) PROVE UNCHANGED Recording!recorderVars
      BY <2>1, SilentStep
    <2>2. ASSUME NEW g \in Goroutines,
                 \/ CallService(g)
                 \/ \E b \in Mocks, method \in {"Calls", "LastCall", "Reset"} : Inspect(g, b, method)
          PROVE  Recording!Begin(g)
      BY <2>2, BeginStep
    <2>3. ASSUME NEW g \in Goroutines, LastCall(g) \/ CallsCopy(g) \/ Record(g) \/ Reset(g)
          PROVE  Recording!Act(g)
      BY <2>3, ActStep
    <2>4. ASSUME NEW g \in Goroutines, Unlock(g) PROVE Recording!End(g)
      BY <2>4, EndStep
    <2>5. ASSUME NEW k \in Clients, NEW key \in Keys, NEW options \in OptionsFor[k],
                 New(k, key, options)
          PROVE  UNCHANGED Recording!recorderVars
      BY <2>5 DEF New, Recording!recorderVars, InUse, record
    <2>6. CASE UNCHANGED vars
      BY <2>6 DEF vars, Recording!recorderVars, InUse, record
    <2>7. CASE \E g \in Goroutines : Recording!Begin(g) \/ Recording!Act(g) \/ Recording!End(g)
      BY <2>7 DEF Recording!Next
    <2> HIDE DEF IInv
    <2> QED
      BY <2>1, <2>2, <2>3, <2>4, <2>5, <2>6, <2>7 DEF Next, Proceed, Silent
  <1> QED
    BY <1>1, <1>2, IInvHolds, PTL DEF Spec, ImplementsRecorder, Recording!Spec

-----------------------------------------------------------------------------
(* Options. *)

\* The last of the first n options of a kind.
LastUpTo(kind, options, n) ==
  LET places == {i \in 1..n : options[i].kind = kind}
  IN  IF places = {} THEN None
      ELSE options[CHOOSE i \in places : \A j \in places : j <= i].value

\* One option more: its value if it is of the kind, what there was otherwise.
LEMMA LastUpToStep ==
  ASSUME NEW kind, NEW options, NEW n \in Nat \ {0}
  PROVE  LastUpTo(kind, options, n) =
           IF options[n].kind = kind THEN options[n].value ELSE LastUpTo(kind, options, n - 1)
  <1> DEFINE places == {i \in 1..n : options[i].kind = kind}
  <1>1. CASE options[n].kind = kind
    <2>1. n \in places /\ \A j \in places : j <= n
      BY <1>1
    <2>2. (CHOOSE i \in places : \A j \in places : j <= i) = n
      BY <2>1
    <2> QED
      BY <1>1, <2>1, <2>2 DEF LastUpTo
  <1>2. CASE options[n].kind # kind
    <2> DEFINE fewer == {i \in 1..(n - 1) : options[i].kind = kind}
               last(set) == IF set = {} THEN None
                            ELSE options[CHOOSE i \in set : \A j \in set : j <= i].value
    <2>1. places = fewer
      BY <1>2
    <2>2. /\ LastUpTo(kind, options, n) = last(places)
          /\ LastUpTo(kind, options, n - 1) = last(fewer)
      BY Zenon DEF LastUpTo
    <2> HIDE DEF last, fewer, places
    <2> QED
      BY <1>2, <2>1, <2>2, Zenon
  <1> QED
    BY <1>1, <1>2

\* What there is of a kind, one of the options gave.
LEMMA LastOfIsGiven ==
  ASSUME NEW kind, NEW options, Len(options) \in Nat, DOMAIN options = 1..Len(options),
         LastOf(kind, options) # None
  PROVE  \E i \in DOMAIN options : options[i].kind = kind /\ LastOf(kind, options) = options[i].value
  <1> DEFINE places == {i \in DOMAIN options : options[i].kind = kind}
             last == CHOOSE i \in places : \A j \in places : j <= i
  <1>1. places # {} /\ LastOf(kind, options) = options[last].value
    BY Zenon DEF LastOf
  <1>2. places \in SUBSET (0..Len(options))
    OBVIOUS
  <1>3. last \in places
    <2> HIDE DEF places
    <2> QED
      BY <1>1, <1>2, GreatestNumber
  <1> QED
    BY <1>1, <1>3

\* The loop of New: when all options are applied, each field of clientOptions
\* has what the last option of its kind gave it.
LEMMA LoopOfNew ==
  ASSUME NEW options, Len(options) \in Nat, DOMAIN options = 1..Len(options),
         \A i \in DOMAIN options : options[i].kind \in Kinds
  PROVE  applied(options) = [kind \in Kinds |-> LastOf(kind, options)]
  <1> DEFINE n == Len(options)
             so(i) == [kind \in Kinds |-> LastUpTo(kind, options, i)]
             whole == [i \in 0..n |-> so(i)]
  <1>1. so(0) = noOptions
    BY DEF LastUpTo, noOptions
  <1>2. \A i \in 1..n : so(i) = apply(so(i - 1), options[i])
    <2> SUFFICES ASSUME NEW i \in 1..n PROVE so(i) = apply(so(i - 1), options[i])
      OBVIOUS
    <2>1. \A kind \in Kinds :
            LastUpTo(kind, options, i) =
              IF options[i].kind = kind THEN options[i].value ELSE LastUpTo(kind, options, i - 1)
      BY LastUpToStep
    <2> QED
      BY <2>1 DEF apply
  <1>3. whole = [i \in 0..n |-> IF i = 0 THEN noOptions ELSE apply(whole[i - 1], options[i])]
    <2> SUFFICES ASSUME NEW i \in 0..n
                 PROVE  so(i) = IF i = 0 THEN noOptions ELSE apply(whole[i - 1], options[i])
      BY Zenon
    <2>1. CASE i = 0
      BY <1>1, <2>1
    <2>2. CASE i # 0
      <3>1. i \in 1..n /\ i - 1 \in 0..n
        BY <2>2
      <3> QED
        BY <1>2, <2>2, <3>1
    <2> QED
      BY <2>1, <2>2
  <1>4. PICK f : /\ f = [i \in 0..n |-> IF i = 0 THEN noOptions ELSE apply(f[i - 1], options[i])]
                 /\ applied(options) = f[n]
    <2> HIDE DEF so, whole
    <2> DEFINE after == CHOOSE f : f = [i \in 0..Len(options) |->
                          IF i = 0 THEN noOptions ELSE apply(f[i - 1], options[i])]
    <2>1. after = [i \in 0..n |-> IF i = 0 THEN noOptions ELSE apply(after[i - 1], options[i])]
      BY <1>3
    <2>2. applied(options) = after[n]
      BY DEF applied
    <2> HIDE DEF after
    <2> QED
      BY <2>1, <2>2
  <1> DEFINE Wrong == {i \in 0..n : f[i] # so(i)}
  <1>5. Wrong = {}
    <2> SUFFICES ASSUME Wrong # {} PROVE FALSE
      OBVIOUS
    <2>1. PICK m \in Wrong : \A k \in Wrong : m <= k
      <3>1. Wrong \subseteq Nat
        OBVIOUS
      <3> HIDE DEF Wrong
      <3> QED
        BY <3>1, LeastNumber
    <2> HIDE DEF so
    <2>2. m # 0
      BY <1>1, <1>4, <2>1
    <2>3. m \in 1..n /\ m - 1 \in 0..n /\ f[m - 1] = so(m - 1)
      BY <2>1, <2>2
    <2>4. f[m] = apply(f[m - 1], options[m])
      BY <1>4, <2>2, <2>3
    <2> QED
      BY <1>2, <2>1, <2>3, <2>4
  <1>6. f[n] = so(n)
    <2>1. n \in 0..n
      OBVIOUS
    <2> HIDE DEF so
    <2> QED
      BY <1>5, <2>1
  <1>7. \A kind \in Kinds : LastUpTo(kind, options, n) = LastOf(kind, options)
    BY DEF LastUpTo, LastOf
  <1> QED
    BY <1>4, <1>6, <1>7

\* What TrimRight leaves, and what it cuts off.
LEMMA Trimmed ==
  ASSUME NEW S, NEW url \in Seq(S)
  PROVE  /\ IsPrefix(TrimRight(url), url)
         /\ TrimRight(url) # <<>> => Last(TrimRight(url)) # "/"
         /\ \A i \in DOMAIN url : i > Len(TrimRight(url)) => url[i] = "/"
  <1> DEFINE T == {0} \cup {i \in DOMAIN url : url[i] # "/"}
             m == Max(T)
  <1>1. T \in SUBSET (0..Len(url)) /\ T # {} /\ Len(url) \in Nat
    OBVIOUS
  <1>2. m \in T /\ \A k \in T : m >= k
    <2>1. \E x \in T : \A k \in T : k <= x
      <3> HIDE DEF T
      <3> QED
        BY <1>1, GreatestNumber
    <2>2. \E x \in T : \A k \in T : x >= k
      BY <1>1, <2>1
    <2> HIDE DEF T
    <2> QED
      BY <2>2 DEF Max
  <1> HIDE DEF m
  <1>3. TrimRight(url) = SubSeq(url, 1, m)
    BY DEF TrimRight, m
  <1>4. /\ m \in 0..Len(url)
        /\ m # 0 => url[m] # "/"
        /\ \A i \in DOMAIN url : i > m => url[i] = "/"
    BY <1>1, <1>2
  <1>5. /\ Len(SubSeq(url, 1, m)) = m
        /\ \A i \in 1..m : SubSeq(url, 1, m)[i] = url[i]
        /\ SubSeq(url, 1, m) \in Seq(S)
    BY <1>4, SubSeqProperties
  <1>6. SubSeq(SubSeq(url, 1, m), 1, m) = SubSeq(url, 1, m)
    BY <1>5
  <1> QED
    BY <1>3, <1>4, <1>5, <1>6 DEF IsPrefix, Last

\* What New makes of a key and a list of options is what the comments say.
LEMMA NewStep ==
  ASSUME TypeOK, NEW k \in Clients, NEW key \in Keys, NEW options \in OptionsFor[k],
         New(k, key, options)
  PROVE  AsDocumented(client'[k], key, options)
  <1> DEFINE o == applied(options)
             b == NewHTTPBackend(o)
  <1>0. /\ Len(options) \in Nat /\ DOMAIN options = 1..Len(options)
        /\ \A i \in DOMAIN options : options[i].kind \in Kinds
    BY OptionsAssumption
  <1>1. /\ client'[k] = IF validKey(key) THEN newClient(o) ELSE ErrInvalidKey
        /\ key # "other" <=> validKey(key)
    BY OptionsAssumption DEF New, TypeOK, validKey
  <1>2. o = [kind \in Kinds |-> LastOf(kind, options)]
    BY <1>0, LoopOfNew
  <1>3. /\ o.backend = LastOf("backend", options) /\ o.httpClient = LastOf("httpClient", options)
        /\ o.baseURL = LastOf("baseURL", options) /\ o.logger = LastOf("logger", options)
        /\ o.leveled = LastOf("leveled", options)
    BY <1>2 DEF Kinds
  <1>4. b \notin Mocks
    BY BackendsDiffer
  <1>5. o.baseURL = None \/ \E S : o.baseURL \in Seq(S)
    <2>1. \A i \in DOMAIN options : options[i].kind = "baseURL" => \E S : options[i].value \in Seq(S)
      BY OptionsAssumption
    <2> QED
      BY <1>0, <1>3, <2>1, LastOfIsGiven
  <1> HIDE DEF o
  <1>6. /\ b.client = IF o.httpClient # None THEN o.httpClient ELSE "with timeout"
        /\ b.base = IF o.baseURL \notin {None, <<>>} THEN TrimRight(o.baseURL) ELSE DefaultBaseURL
        /\ logRequest(b) = IF o.leveled # None THEN o.leveled ELSE o.logger
    BY DEF NewHTTPBackend, logRequest
  <1> HIDE DEF b
  <1>7. CASE key = "other"
    BY <1>1, <1>7 DEF AsDocumented
  <1>8. CASE key # "other" /\ LastOf("backend", options) # None
    BY <1>1, <1>3, <1>8 DEF AsDocumented, newClient
  <1>9. CASE key # "other" /\ LastOf("backend", options) = None
    <2>1. client'[k] = b
      BY <1>1, <1>3, <1>9 DEF newClient, b
    <2>2. o.baseURL \notin {None, <<>>} =>
            /\ IsPrefix(b.base, o.baseURL)
            /\ b.base # <<>> => Last(b.base) # "/"
            /\ \A i \in DOMAIN o.baseURL : i > Len(b.base) => o.baseURL[i] = "/"
      BY <1>5, <1>6, Trimmed
    <2> QED
      BY <1>3, <1>4, <1>6, <1>9, <2>1, <2>2 DEF AsDocumented
  <1> QED
    BY <1>7, <1>8, <1>9

(***************************************************************************)
(* For any list of options, however long: a client is what the comments of *)
(* the options promise (paystack.go 29-73, client.go 36-46, backend.go     *)
(* 54-70).                                                                 *)
(***************************************************************************)
THEOREM ClientAsDocumented == Spec => OptionsAsDocumented
  <1>1. IInv /\ [Next]_vars =>
          [\A k \in Clients :
             client'[k] # client[k] =>
               \A key \in Keys : \A options \in OptionsFor[k] :
                 New(k, key, options) => AsDocumented(client'[k], key, options)]_vars
    BY NewStep DEF IInv
  <1> QED
    BY <1>1, IInvHolds, PTL DEF Spec, OptionsAsDocumented
=============================================================================
