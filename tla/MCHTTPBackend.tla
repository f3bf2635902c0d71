--------------------------- MODULE MCHTTPBackend ---------------------------
(***************************************************************************)
(* Small instances of HTTPBackend for TLC.                                 *)
(***************************************************************************)
EXTENDS HTTPBackend, TLC

CONSTANTS c1, c2, c3, k1

Two   == {c1, c2}
Three == {c1, c2, c3}
ThreeButFirst == Three \ {c1}
OneKey == {k1}

Symmetry2 == Permutations(Two)
Symmetry3 == Permutations(Three)

S(status, ctype, body) ==
  [status |-> status, ctype |-> ctype, body |-> body, location |-> FALSE]

\* A redirect.
To(status) == [S(status, "none", "garbage") EXCEPT !.location = TRUE]

\* One response per way through Call and ParseError.
AllResponses ==
  { S(200, "json", "ok"), S(200, "json", "declined"), S(200, "json", "bare"),
    S(200, "none", "garbage"), S(200, "html", "garbage"), S(200, "json", "html"),
    S(200, "json", "endless"),
    S(304, "none", "garbage"), S(429, "json", "ok"), S(503, "json", "ok") }

FewResponses == { S(200, "json", "ok"), S(200, "html", "garbage") }

\* A confirmation, and both kinds of redirect.
ConfirmOrRedirect == { S(200, "json", "ok"), To(303), To(307) }

SlowResponses == { S(200, "json", "ok"), S(503, "json", "endless") }

\* A response that is neither a success nor a failure, and that net/http does
\* not follow: 300 Multiple Choices; and a 303 without a Location.
Unfollowed == { S(300, "json", "ok"), S(303, "json", "ok") }

OnlyFirst == {c1}

\* A list call with every kind of params.
ListRequests == RequestsOf(TransactionService.List, FALSE)

\* A keyed transfer, a subscription toggle without a body to decode, an
\* authorization that cannot carry a key, and a read.
AllRequests ==
  { r \in RequestsOf(TransferService.Initiate, FALSE)
            \cup RequestsOf(SubscriptionService.Disable, FALSE) :
      r.key = EmptyKey => r.params = "ptr" /\ ~r.out }
    \cup RequestsOf(CustomerService.DeactivateAuthorization, FALSE)
    \cup RequestsOf(TransferService.Verify, FALSE)
    \cup RequestsOf(TransferService.Verify, TRUE)

\* To keep the instance small: a toggle with a key, with none and with an
\* empty one.
ToggleRequests ==
  { r \in RequestsOf(SubscriptionService.Disable, FALSE) : r.params = "ptr" }

\* For liveness: one write and the raw read, whose body the caller holds.
HoldingRequests ==
  { r \in RequestsOf(TransferService.Initiate, FALSE) :
      r.params = "ptr" /\ r.key = NoKey }
    \cup RequestsOf(TransferService.Verify, TRUE)
=============================================================================
