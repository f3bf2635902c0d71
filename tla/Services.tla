------------------------------ MODULE Services ------------------------------
(***************************************************************************)
(* The request table of the SDK: what each service method hands to         *)
(* Backend.Call.  A row records the verb, the path, what the params        *)
(* argument is and what happens to the decoded body.                       *)
(*                                                                         *)
(*   path  sequence of segments; Hole stands for the one caller-supplied   *)
(*         segment, which every method passes through url.PathEscape       *)
(*         (Transaction.Fetch formats an int64, so needs none)             *)
(*   arg   "none"    params is the untyped nil                             *)
(*         "Params"  a pointer to a struct that embeds Params              *)
(*         "List"    a pointer to a struct that embeds ListParams          *)
(*         "plain"   a struct value that embeds neither                    *)
(*   out   "Data" (&resp.Data), "List" (resp.Data, resp.Meta), "none" (nil)*)
(***************************************************************************)
EXTENDS Sequences

CONSTANT Hole   \* placeholder for the caller's path segment

\* The segments the SDK writes itself, in the paths of all seven services.
Words ==
  {"transaction", "charge", "customer", "plan", "subscription", "transfer", "refund",
   "initialize", "verify", "charge_authorization", "totals", "submit_pin", "submit_otp",
   "submit_phone", "submit_birthday", "set_risk_action", "deactivate_authorization",
   "enable", "disable", "manage", "link", "finalize_transfer"}

ASSUME HoleAssumption == Hole \notin Words

Verbs == {"GET", "POST", "PUT", "PATCH", "DELETE"}

\* backend.go isWriteMethod
isWriteMethod(verb) == verb \in {"POST", "PUT", "PATCH", "DELETE"}

Get(path, arg, out)  == [verb |-> "GET",  path |-> path, arg |-> arg, out |-> out]
Post(path, arg, out) == [verb |-> "POST", path |-> path, arg |-> arg, out |-> out]
Put(path, arg, out)  == [verb |-> "PUT",  path |-> path, arg |-> arg, out |-> out]

TransactionService ==
  [ Initialize          |-> Post(<<"transaction", "initialize">>, "Params", "Data"),
    Verify              |-> Get(<<"transaction", "verify", Hole>>, "none", "Data"),
    List                |-> Get(<<"transaction">>, "List", "List"),
    Fetch               |-> Get(<<"transaction", Hole>>, "none", "Data"),
    ChargeAuthorization |-> Post(<<"transaction", "charge_authorization">>, "Params", "Data"),
    Totals              |-> Get(<<"transaction", "totals">>, "List", "Data") ]

\* Every Submit* method goes through the helper post, which fixes the verb
\* and the ChargeResult envelope.
ChargeService ==
  LET post(path) == Post(path, "Params", "Data")
  IN  [ Create         |-> post(<<"charge">>),
        SubmitPin      |-> post(<<"charge", "submit_pin">>),
        SubmitOTP      |-> post(<<"charge", "submit_otp">>),
        SubmitPhone    |-> post(<<"charge", "submit_phone">>),
        SubmitBirthday |-> post(<<"charge", "submit_birthday">>),
        CheckPending   |-> Get(<<"charge", Hole>>, "none", "Data") ]

\* DeactivateAuthorization posts an anonymous struct: no Params, so no
\* idempotency key can be attached to it.
CustomerService ==
  [ Create                  |-> Post(<<"customer">>, "Params", "Data"),
    Fetch                   |-> Get(<<"customer", Hole>>, "none", "Data"),
    List                    |-> Get(<<"customer">>, "List", "List"),
    Update                  |-> Put(<<"customer", Hole>>, "Params", "Data"),
    SetRiskAction           |-> Post(<<"customer", "set_risk_action">>, "Params", "Data"),
    DeactivateAuthorization |->
      Post(<<"customer", "deactivate_authorization">>, "plain", "none") ]

PlanService ==
  [ Create |-> Post(<<"plan">>, "Params", "Data"),
    Fetch  |-> Get(<<"plan", Hole>>, "none", "Data"),
    List   |-> Get(<<"plan">>, "List", "List"),
    Update |-> Put(<<"plan", Hole>>, "Params", "none") ]

SubscriptionService ==
  [ Create             |-> Post(<<"subscription">>, "Params", "Data"),
    Fetch              |-> Get(<<"subscription", Hole>>, "none", "Data"),
    List               |-> Get(<<"subscription">>, "List", "List"),
    Enable             |-> Post(<<"subscription", "enable">>, "Params", "none"),
    Disable            |-> Post(<<"subscription", "disable">>, "Params", "none"),
    GenerateUpdateLink |->
      Get(<<"subscription", Hole, "manage", "link">>, "none", "Data") ]

TransferService ==
  [ Initiate |-> Post(<<"transfer">>, "Params", "Data"),
    Finalize |-> Post(<<"transfer", "finalize_transfer">>, "Params", "Data"),
    Fetch    |-> Get(<<"transfer", Hole>>, "none", "Data"),
    Verify   |-> Get(<<"transfer", "verify", Hole>>, "none", "Data"),
    List     |-> Get(<<"transfer">>, "List", "List") ]

RefundService ==
  [ Create |-> Post(<<"refund">>, "Params", "Data"),
    Fetch  |-> Get(<<"refund", Hole>>, "none", "Data"),
    List   |-> Get(<<"refund">>, "List", "List") ]

\* client.go: the services of one Client, all sharing its Backend.
Client ==
  [ transaction  |-> TransactionService,
    charge       |-> ChargeService,
    customer     |-> CustomerService,
    plan         |-> PlanService,
    subscription |-> SubscriptionService,
    transfer     |-> TransferService,
    refund       |-> RefundService ]

\* Every row of the table, tagged with the method it belongs to.
Methods ==
  UNION { { <<s, m>> : m \in DOMAIN Client[s] } : s \in DOMAIN Client }

Endpoint(sm) == Client[sm[1]][sm[2]]
=============================================================================
