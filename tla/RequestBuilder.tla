--------------------------- MODULE RequestBuilder ---------------------------
(***************************************************************************)
(* What a service method's arguments become on the wire: the path built    *)
(* with url.PathEscape, the query string that go-querystring makes of the  *)
(* params of a GET, the JSON body made of those of a write, the header     *)
(* made of the idempotency key.  (backend.go buildRequest, params.go)      *)
(*                                                                         *)
(* A path is a sequence of segments.  A segment, like a caller's string,   *)
(* is the sequence of its parts between slashes, so <<"a", "b">> is the    *)
(* one segment a%2Fb, and <<"a">> the plain segment a.                     *)
(***************************************************************************)
EXTENDS Services, SequencesExt

CONSTANTS
  Strings,    \* the strings a caller passes as a reference, code or id
  Numbers     \* the strings that are decimal numbers

ASSUME StringsAssumption ==
  /\ Numbers \subseteq Strings /\ <<>> \notin Strings
  /\ \A w \in Words : <<w>> \notin Numbers

VARIABLE call   \* the call being built: a member of CallSpec

-----------------------------------------------------------------------------
(* Fields of the params structs, by what Go's encoders see of their types. *)

ListFields   == {"PerPage", "Page", "From", "To", "filter"}
ParamsFields == {"IdempotencyKey", "Metadata"}

\* "own" stands for the fields an endpoint's struct declares itself.
fieldsOf(arg) ==
  CASE arg = "List"   -> ListFields \cup ParamsFields
    [] arg = "Params" -> ParamsFields \cup {"own"}
    [] arg = "plain"  -> {"own"}
    [] arg = "none"   -> {}

\* Of the fields that are set, those go-querystring writes.  Params is tagged
\* "-".  From and To are *Time: a struct around time.Time, none of whose
\* fields is exported, so the encoder descends into it and finds nothing.
queryFields(set) == set \cap {"PerPage", "Page", "filter"}

\* Seeded fault: the key is marshalled with the rest of Params.
bodyFields_WithKey(set) == set \cap {"own", "Metadata", "IdempotencyKey"}

\* Of the fields that are set, those encoding/json writes.
bodyFields(set) == set \cap {"own", "Metadata"}

-----------------------------------------------------------------------------
(* Paths. *)

\* Seeded fault: the string is pasted as it is, slashes included.
pathEscape_None(s) == [i \in DOMAIN s |-> <<s[i]>>]

\* url.PathEscape: whatever its parts, the string is one segment.
pathEscape(s) == <<s>>

\* The endpoint's path with the caller's string in it.
pathOf(e, s) ==
  FlattenSeq([i \in DOMAIN e.path |->
                IF e.path[i] = Hole THEN pathEscape(s) ELSE << <<e.path[i]>> >>])

\* buildRequest: reads carry their params in the URL, writes in the body.
buildRequest(c) ==
  LET e == Endpoint(c.method)
  IN  [verb   |-> e.verb,
       path   |-> pathOf(e, c.string),
       query  |-> IF isWriteMethod(e.verb) THEN {} ELSE queryFields(c.set),
       body   |-> IF isWriteMethod(e.verb) THEN bodyFields(c.set) ELSE {},
       header |-> "IdempotencyKey" \in c.set]

\* Paystack's router, external: the pattern that matches with most literals.
Matches(e, verb, path) ==
  /\ e.verb = verb /\ Len(e.path) = Len(path)
  /\ \A i \in DOMAIN path : e.path[i] = Hole \/ path[i] = <<e.path[i]>>

Literals(e) == {i \in DOMAIN e.path : e.path[i] # Hole}

Routes(verb, path) ==
  LET fit == {sm \in Methods : Matches(Endpoint(sm), verb, path)}
  IN  {sm \in fit : \A other \in fit :
         Cardinality(Literals(Endpoint(other))) <= Cardinality(Literals(Endpoint(sm)))}

-----------------------------------------------------------------------------
\* Transaction.Fetch takes an int64; the other holes take any string; <<>>
\* where a method takes none.
StringsFor(sm) ==
  CASE \A i \in DOMAIN Endpoint(sm).path : Endpoint(sm).path[i] # Hole -> {<<>>}
    [] sm = <<"transaction", "Fetch">> -> Numbers
    [] OTHER -> Strings

CallSpec ==
  UNION { [method : {sm}, string : StringsFor(sm), set : SUBSET fieldsOf(Endpoint(sm).arg)]
          : sm \in Methods }

Init == call \in CallSpec

\* The application makes its next call.
Next == call' \in CallSpec

Spec == Init /\ [][Next]_call

(***************************************************************************)
(* Whatever string a caller passes, the request reaches the endpoint of    *)
(* the method it called and no other (url.PathEscape in transaction.go     *)
(* 121, charge.go 142, customer.go 88 and 106, subscription.go 85 and 114, *)
(* transfer.go 91 and 100, plan.go 90 and 108, refund.go 73).              *)
(***************************************************************************)
RouteIsOwn ==
  LET r == buildRequest(call) IN Routes(r.verb, r.path) = {call.method}

(***************************************************************************)
(* A retry under another key, or under none, is byte for byte the same     *)
(* request but for its header (params.go lines 3-9).                       *)
(***************************************************************************)
KeyOnlyInHeader ==
  LET request == buildRequest(call)
      keyless == buildRequest([call EXCEPT !.set = @ \ {"IdempotencyKey"}])
  IN  /\ request.verb = keyless.verb /\ request.path = keyless.path
      /\ request.query = keyless.query /\ request.body = keyless.body

(***************************************************************************)
(* Every list parameter that is set reaches the query string: "nil leaves  *)
(* the parameter off the query string entirely" (params.go lines 16-17).   *)
(***************************************************************************)
FiltersReachQuery ==
  call.set \cap ListFields \subseteq buildRequest(call).query
=============================================================================
