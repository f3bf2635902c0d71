----------------------- MODULE RequestBuilder_proofs -----------------------
(***************************************************************************)
(* Proofs about module RequestBuilder, for any strings.                    *)
(***************************************************************************)
EXTENDS RequestBuilder, Services_proofs, LoopLemmas, FiniteSetTheorems

\* No encoder writes the idempotency key.
LEMMA KeyNotWritten ==
  ASSUME NEW set
  PROVE  /\ queryFields(set) = queryFields(set \ {"IdempotencyKey"})
         /\ bodyFields(set) = bodyFields(set \ {"IdempotencyKey"})
  BY DEF queryFields, bodyFields

\* The request of a call is that of the call without a key.
LEMMA CallStep ==
  ASSUME call \in CallSpec
  PROVE  KeyOnlyInHeader
  <1> DEFINE other == [call EXCEPT !.set = call.set \ {"IdempotencyKey"}]
  <1>1. /\ other.method = call.method /\ other.string = call.string
        /\ other.set = call.set \ {"IdempotencyKey"}
    BY DEF CallSpec
  <1> HIDE DEF other
  <1>2. /\ queryFields(call.set) = queryFields(other.set)
        /\ bodyFields(call.set) = bodyFields(other.set)
    BY <1>1, KeyNotWritten
  <1>3. /\ buildRequest(call).verb = buildRequest(other).verb
        /\ buildRequest(call).path = buildRequest(other).path
        /\ buildRequest(call).query = buildRequest(other).query
        /\ buildRequest(call).body = buildRequest(other).body
    BY <1>1, <1>2 DEF buildRequest
  <1> QED
    BY <1>3 DEF KeyOnlyInHeader, other

(***************************************************************************)
(* For any strings and any choice of fields: a retry under another key     *)
(* differs from the first request in its header only (params.go 3-9).      *)
(***************************************************************************)
THEOREM RetryIsSameRequest == Spec => []KeyOnlyInHeader
  <1>1. Init => call \in CallSpec
    BY DEF Init
  <1>2. call \in CallSpec /\ [Next]_call => (call \in CallSpec)'
    BY DEF Next
  <1>3. call \in CallSpec => KeyOnlyInHeader
    BY CallStep
  <1> QED
    BY <1>1, <1>2, <1>3, PTL DEF Spec

-----------------------------------------------------------------------------
(* Paths. *)

\* The path a call writes: its string in the hole, the literals elsewhere.
LEMMA PathOf ==
  ASSUME NEW e, NEW s, e.path \in Seq(Segments), Len(e.path) > 0
  PROVE  pathOf(e, s) =
           [i \in 1..Len(e.path) |-> IF e.path[i] = Hole THEN s ELSE <<e.path[i]>>]
  <1> DEFINE part == [i \in 1..Len(e.path) |-> IF e.path[i] = Hole THEN s ELSE <<e.path[i]>>]
             T == {s} \cup {<<a>> : a \in Segments}
  <1>1. /\ Len(e.path) \in Nat /\ DOMAIN e.path = 1..Len(e.path)
        /\ \A i \in 1..Len(e.path) : e.path[i] \in Segments
    OBVIOUS
  <1>2. part \in Seq(T) /\ Len(part) = Len(e.path) /\ part # <<>>
    BY <1>1
  <1>3. [i \in DOMAIN e.path |->
           IF e.path[i] = Hole THEN pathEscape(s) ELSE << <<e.path[i]>> >>]
        = [i \in 1..Len(part) |-> <<part[i]>>]
    BY <1>1, <1>2, Zenon DEF pathEscape
  <1> QED
    BY <1>2, <1>3, FlattenSingles DEF pathOf

\* An endpoint fits the requests of its own method.
LEMMA OwnFits ==
  ASSUME NEW sm \in Methods, NEW s
  PROVE  Matches(Endpoint(sm), Endpoint(sm).verb, pathOf(Endpoint(sm), s))
  <1> DEFINE e == Endpoint(sm)
  <1>1. e.path \in Seq(Segments) /\ Len(e.path) > 0
    BY EveryRow DEF Row
  <1> HIDE DEF e
  <1>2. pathOf(e, s) = [i \in 1..Len(e.path) |-> IF e.path[i] = Hole THEN s ELSE <<e.path[i]>>]
    BY <1>1, PathOf
  <1>3. Len(pathOf(e, s)) = Len(e.path) /\ DOMAIN pathOf(e, s) = 1..Len(e.path)
    BY <1>1, <1>2
  <1>4. \A i \in 1..Len(e.path) : e.path[i] = Hole \/ pathOf(e, s)[i] = <<e.path[i]>>
    BY <1>2
  <1> QED
    BY <1>3, <1>4 DEF Matches, e

\* Endpoints of different services, or apart, do not fit each other's requests.
LEMMA OthersDoNotFit ==
  ASSUME NEW sm \in Methods, NEW om \in Methods, NEW s,
         sm[1] # om[1] \/ Apart(Endpoint(sm), Endpoint(om))
  PROVE  ~Matches(Endpoint(om), Endpoint(sm).verb, pathOf(Endpoint(sm), s))
  <1> DEFINE e == Endpoint(sm)
             f == Endpoint(om)
  <1>1. /\ e.path \in Seq(Segments) /\ Len(e.path) > 0 /\ e.path[1] = sm[1] /\ sm[1] # Hole
        /\ f.path \in Seq(Segments) /\ Len(f.path) > 0 /\ f.path[1] = om[1] /\ om[1] # Hole
    BY EveryRow DEF Row
  <1>2. sm[1] # om[1] \/ Apart(e, f)
    OBVIOUS
  <1> HIDE DEF e, f
  <1>3. pathOf(e, s) = [i \in 1..Len(e.path) |-> IF e.path[i] = Hole THEN s ELSE <<e.path[i]>>]
    BY <1>1, PathOf
  <1> SUFFICES ASSUME Matches(f, e.verb, pathOf(e, s)) PROVE FALSE
    BY DEF e, f
  <1>4. /\ f.verb = e.verb /\ Len(f.path) = Len(e.path)
        /\ \A i \in 1..Len(e.path) :
             e.path[i] # Hole => f.path[i] = Hole \/ f.path[i] = e.path[i]
    <2>1. Len(e.path) \in Nat
      BY <1>1
    <2>2. /\ f.verb = e.verb /\ Len(f.path) = Len(pathOf(e, s))
          /\ \A i \in DOMAIN pathOf(e, s) : f.path[i] = Hole \/ pathOf(e, s)[i] = <<f.path[i]>>
      BY DEF Matches
    <2>3. Len(pathOf(e, s)) = Len(e.path) /\ DOMAIN pathOf(e, s) = 1..Len(e.path)
      BY <1>3, <2>1
    <2>4. \A i \in 1..Len(e.path) : e.path[i] # Hole => pathOf(e, s)[i] = <<e.path[i]>>
      BY <1>3
    <2> QED
      BY <2>2, <2>3, <2>4
  <1>5. CASE sm[1] # om[1]
    BY <1>1, <1>4, <1>5
  <1>6. CASE Apart(e, f)
    BY <1>1, <1>4, <1>6 DEF Apart, Second
  <1> QED
    BY <1>2, <1>5, <1>6

-----------------------------------------------------------------------------
(* Routing. *)

\* A path has finitely many literals, so that they can be counted.
LEMMA LiteralsFinite ==
  ASSUME NEW sm \in Methods
  PROVE  Cardinality(Literals(Endpoint(sm))) \in Nat
  <1>1. Literals(Endpoint(sm)) \subseteq 1..Len(Endpoint(sm).path)
    BY EveryRow DEF Row, Literals
  <1>2. Len(Endpoint(sm).path) \in Nat
    BY EveryRow DEF Row
  <1>3. IsFiniteSet(1..Len(Endpoint(sm).path))
    BY <1>2, FS_Interval
  <1> QED
    BY <1>1, <1>3, FS_Subset, FS_CardinalityType

\* The overlap: /transaction/totals has two literals, /transaction/{id} one.
LEMMA OverlapLiterals ==
  /\ Cardinality(Literals(Endpoint(<<"transaction", "Totals">>))) = 2
  /\ Cardinality(Literals(Endpoint(<<"transaction", "Fetch">>))) = 1
  <1>1. /\ Endpoint(<<"transaction", "Totals">>).path = <<"transaction", "totals">>
        /\ Endpoint(<<"transaction", "Fetch">>).path = <<"transaction", Hole>>
    BY DEF Endpoint, Client, TransactionService, Get
  <1>2. /\ Literals(Endpoint(<<"transaction", "Totals">>)) = {1} \cup {2}
        /\ Literals(Endpoint(<<"transaction", "Fetch">>)) = {1}
    BY <1>1, WordsAreNoHoles DEF Literals
  <1>3. IsFiniteSet({1}) /\ Cardinality({1}) = 1
    BY FS_Singleton
  <1> QED
    BY <1>2, <1>3, FS_AddElement

\* A number in the hole of Transaction.Fetch is not the word totals.
LEMMA FetchIsNoTotals ==
  ASSUME NEW s \in Numbers
  PROVE  LET fetch == Endpoint(<<"transaction", "Fetch">>)
         IN  ~Matches(Endpoint(<<"transaction", "Totals">>), fetch.verb, pathOf(fetch, s))
  <1> DEFINE e == Endpoint(<<"transaction", "Fetch">>)
             f == Endpoint(<<"transaction", "Totals">>)
  <1>1. e.path = <<"transaction", Hole>> /\ f.path = <<"transaction", "totals">>
    BY DEF Endpoint, Client, TransactionService, Get
  <1> HIDE DEF e, f
  <1>2. e.path \in Seq(Segments) /\ Len(e.path) = 2
    BY <1>1, WordsAreNoHoles
  <1>3. pathOf(e, s) = [i \in 1..2 |-> IF e.path[i] = Hole THEN s ELSE <<e.path[i]>>]
    BY <1>2, PathOf
  <1>4. 2 \in DOMAIN pathOf(e, s) /\ pathOf(e, s)[2] = s
    BY <1>1, <1>3
  <1>5. s # <<"totals">>
    BY StringsAssumption DEF Words
  <1>6. f.path[2] = "totals" /\ "totals" # Hole
    BY <1>1, WordsAreNoHoles
  <1> QED
    BY <1>4, <1>5, <1>6 DEF Matches, e, f

\* What StringsFor gives Transaction.Fetch.
LEMMA FetchTakesNumbers ==
  StringsFor(<<"transaction", "Fetch">>) = Numbers
  <1>1. Endpoint(<<"transaction", "Fetch">>).path = <<"transaction", Hole>>
    BY DEF Endpoint, Client, TransactionService, Get
  <1>2. ~ \A i \in DOMAIN Endpoint(<<"transaction", "Fetch">>).path :
            Endpoint(<<"transaction", "Fetch">>).path[i] # Hole
    BY <1>1
  <1> QED
    BY <1>2, Zenon DEF StringsFor

\* The endpoints that fit a call: its own and, for Totals, Fetch's.
LEMMA Fitting ==
  ASSUME NEW sm \in Methods, NEW s \in StringsFor(sm), NEW om \in Methods, om # sm,
         Matches(Endpoint(om), Endpoint(sm).verb, pathOf(Endpoint(sm), s))
  PROVE  sm = <<"transaction", "Totals">> /\ om = <<"transaction", "Fetch">>
  <1>1. sm[1] = om[1] /\ ~Apart(Endpoint(sm), Endpoint(om))
    BY OthersDoNotFit
  <1>2. sm[1] = "transaction" /\ {sm[2], om[2]} = Overlap /\ sm[2] # om[2]
    <2>1. sm = <<sm[1], sm[2]>> /\ om = <<om[1], om[2]>>
      BY MethodType
    <2> QED
      BY <1>1, <2>1, RowsApart
  <1>3. \/ sm = <<"transaction", "Totals">> /\ om = <<"transaction", "Fetch">>
        \/ sm = <<"transaction", "Fetch">> /\ om = <<"transaction", "Totals">>
    <2>1. sm = <<sm[1], sm[2]>> /\ om = <<om[1], om[2]>>
      BY MethodType
    <2>2. \/ sm[2] = "Totals" /\ om[2] = "Fetch"
          \/ sm[2] = "Fetch" /\ om[2] = "Totals"
      BY <1>2 DEF Overlap
    <2> QED
      BY <1>1, <1>2, <2>1, <2>2
  <1>4. ASSUME sm = <<"transaction", "Fetch">>, om = <<"transaction", "Totals">> PROVE FALSE
    BY <1>4, FetchTakesNumbers, FetchIsNoTotals
  <1> QED
    BY <1>3, <1>4

\* Of those, the router takes the call's own.
LEMMA CallIsRouted ==
  ASSUME NEW c \in CallSpec
  PROVE  Routes(buildRequest(c).verb, buildRequest(c).path) = {c.method}
  <1> DEFINE sm == c.method
             e == Endpoint(sm)
             fit == {om \in Methods : Matches(Endpoint(om), e.verb, pathOf(e, c.string))}
             size(om) == Cardinality(Literals(Endpoint(om)))
  <1>1. sm \in Methods /\ c.string \in StringsFor(sm)
    BY DEF CallSpec
  <1>2. sm \in fit
    BY <1>1, OwnFits
  <1>3. \A om \in fit : om # sm => /\ sm = <<"transaction", "Totals">>
                                   /\ om = <<"transaction", "Fetch">>
    BY <1>1, Fitting
  <1>4. size(sm) \in Nat
    BY <1>1, LiteralsFinite
  <1>5. \A om \in fit : om # sm => size(sm) = 2 /\ size(om) = 1
    BY <1>3, OverlapLiterals
  <1>6. /\ buildRequest(c).verb = e.verb
        /\ buildRequest(c).path = pathOf(e, c.string)
    BY DEF buildRequest
  <1>7. Routes(e.verb, pathOf(e, c.string)) =
          {om \in fit : \A other \in fit : size(other) <= size(om)}
    BY Zenon DEF Routes
  <1> HIDE DEF fit, size, sm, e
  <1>8. {om \in fit : \A other \in fit : size(other) <= size(om)} = {sm}
    BY <1>2, <1>4, <1>5
  <1> QED
    BY <1>6, <1>7, <1>8 DEF sm

(***************************************************************************)
(* Whatever string a caller passes, with any slashes in it, the request    *)
(* reaches the endpoint of the method it called and no other:              *)
(* url.PathEscape keeps it one segment, and no two rows of the request     *)
(* table fit one path, but for Totals, whose path is more specific than    *)
(* Fetch's, which takes only numbers (transaction.go 137-139, 155-160).    *)
(***************************************************************************)
THEOREM RequestReachesOwnEndpoint == Spec => []RouteIsOwn
  <1>1. Init => call \in CallSpec
    BY DEF Init
  <1>2. call \in CallSpec /\ [Next]_call => (call \in CallSpec)'
    BY DEF Next
  <1>3. call \in CallSpec => RouteIsOwn
    BY CallIsRouted DEF RouteIsOwn
  <1> QED
    BY <1>1, <1>2, <1>3, PTL DEF Spec

\* A method without a hole is given no string.
LEMMA NoHoleNoString ==
  ASSUME NEW sm, \A i \in DOMAIN Endpoint(sm).path : Endpoint(sm).path[i] # Hole
  PROVE  StringsFor(sm) = {<<>>}
  <1>1. Endpoint(<<"transaction", "Fetch">>).path = <<"transaction", Hole>>
    BY DEF Endpoint, Client, TransactionService, Get
  <1>2. sm # <<"transaction", "Fetch">>
    BY <1>1
  <1> QED
    BY <1>2, Zenon DEF StringsFor

(***************************************************************************)
(* No two calls are confused: from the verb and the path of a request one  *)
(* can tell which method was called, and with which string, so a charge,   *)
(* a customer or a transfer is never looked up or changed under another's  *)
(* reference (the url.PathEscape calls that RouteIsOwn lists).             *)
(***************************************************************************)
THEOREM RequestTellsCall ==
  ASSUME NEW c \in CallSpec, NEW d \in CallSpec,
         buildRequest(c).verb = buildRequest(d).verb,
         buildRequest(c).path = buildRequest(d).path
  PROVE  c.method = d.method /\ c.string = d.string
  <1>1. c.method = d.method
    <2>1. {c.method} = {d.method}
      BY CallIsRouted
    <2> QED
      BY <2>1
  <1> DEFINE sm == c.method
             e == Endpoint(sm)
  <1>2. /\ sm \in Methods
        /\ c.string \in StringsFor(sm) /\ d.string \in StringsFor(sm)
    BY <1>1 DEF CallSpec
  <1>3. pathOf(e, c.string) = pathOf(e, d.string)
    BY <1>1 DEF buildRequest
  <1>4. e.path \in Seq(Segments) /\ Len(e.path) > 0
    BY <1>2, EveryRow DEF Row
  <1>5. CASE \A i \in DOMAIN e.path : e.path[i] # Hole
    <2>1. StringsFor(sm) = {<<>>}
      BY <1>5, NoHoleNoString
    <2> QED
      BY <1>1, <1>2, <2>1, Zenon
  <1>6. ASSUME NEW i \in DOMAIN e.path, e.path[i] = Hole PROVE c.string = d.string
    <2> HIDE DEF e
    <2>1. i \in 1..Len(e.path)
      BY <1>4
    <2>2. pathOf(e, c.string)[i] = c.string /\ pathOf(e, d.string)[i] = d.string
      BY <1>4, <1>6, <2>1, PathOf
    <2> QED
      BY <1>3, <2>2
  <1> QED
    BY <1>1, <1>5, <1>6
=============================================================================
