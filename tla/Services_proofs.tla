--------------------------- MODULE Services_proofs ---------------------------
(***************************************************************************)
(* Lemmas about the request table: what its rows look like, and that no    *)
(* request fits two of them, one pair excepted.                            *)
(***************************************************************************)
EXTENDS Services, Integers, TLAPS

Segments == Words \cup {Hole}

\* A row of the table of service s.
Row(s, e) ==
  /\ e.path \in Seq(Segments)
  /\ Len(e.path) > 0 /\ e.path[1] = s

\* The segment after the service's name.
Second(e) == IF Len(e.path) > 1 THEN e.path[2] ELSE Hole

\* What tells the rows of one service from each other.
Looks(e, verb, length, second) ==
  e.verb = verb /\ Len(e.path) = length /\ Second(e) = second

\* No request fits both endpoints.
Apart(a, b) ==
  \/ a.verb # b.verb \/ Len(a.path) # Len(b.path)
  \/ Second(a) # Hole /\ Second(b) # Hole /\ Second(a) # Second(b)

\* GET /transaction/totals fits the path of Transaction.Fetch too.
Overlap == {"Fetch", "Totals"}

\* The words of the paths are segments and not the place of an argument.
LEMMA WordsAreNoHoles ==
  /\ "transaction" \in Segments /\ "transaction" # Hole
  /\ "charge" \in Segments /\ "charge" # Hole
  /\ "customer" \in Segments /\ "customer" # Hole
  /\ "plan" \in Segments /\ "plan" # Hole
  /\ "subscription" \in Segments /\ "subscription" # Hole
  /\ "transfer" \in Segments /\ "transfer" # Hole
  /\ "refund" \in Segments /\ "refund" # Hole
  /\ "initialize" \in Segments /\ "initialize" # Hole
  /\ "verify" \in Segments /\ "verify" # Hole
  /\ "charge_authorization" \in Segments /\ "charge_authorization" # Hole
  /\ "totals" \in Segments /\ "totals" # Hole
  /\ "submit_pin" \in Segments /\ "submit_pin" # Hole
  /\ "submit_otp" \in Segments /\ "submit_otp" # Hole
  /\ "submit_phone" \in Segments /\ "submit_phone" # Hole
  /\ "submit_birthday" \in Segments /\ "submit_birthday" # Hole
  /\ "set_risk_action" \in Segments /\ "set_risk_action" # Hole
  /\ "deactivate_authorization" \in Segments /\ "deactivate_authorization" # Hole
  /\ "enable" \in Segments /\ "enable" # Hole
  /\ "disable" \in Segments /\ "disable" # Hole
  /\ "manage" \in Segments /\ "manage" # Hole /\ "link" \in Segments /\ "link" # Hole
  /\ "finalize_transfer" \in Segments /\ "finalize_transfer" # Hole /\ Hole \in Segments
  BY HoleAssumption DEF Words, Segments

\* The shapes of path that the tables have.
LEMMA PathType ==
  /\ \A a \in Segments : <<a>> \in Seq(Segments)
  /\ \A a, b \in Segments : <<a, b>> \in Seq(Segments)
  /\ \A a, b, c \in Segments : <<a, b, c>> \in Seq(Segments)
  /\ \A a, b, c, d \in Segments : <<a, b, c, d>> \in Seq(Segments)
  OBVIOUS

-----------------------------------------------------------------------------
(* One lemma per service: its rows begin with its name, and any two of     *)
(* them are apart.                                                         *)

\* transaction.go, where Fetch and Totals are the one pair that is not apart.
LEMMA TransactionRows ==
  /\ \A m \in DOMAIN TransactionService : Row("transaction", TransactionService[m])
  /\ \A m, o \in DOMAIN TransactionService :
       m = o \/ Apart(TransactionService[m], TransactionService[o]) \/ {m, o} = Overlap
  <1>1. DOMAIN TransactionService =
          {"Initialize", "Verify", "List", "Fetch", "ChargeAuthorization", "Totals"}
    BY DEF TransactionService
  <1>2. /\ Looks(TransactionService["Initialize"], "POST", 2, "initialize")
        /\ Looks(TransactionService["Verify"], "GET", 3, "verify")
        /\ Looks(TransactionService["List"], "GET", 1, Hole)
        /\ Looks(TransactionService["Fetch"], "GET", 2, Hole)
        /\ Looks(TransactionService["ChargeAuthorization"], "POST", 2, "charge_authorization")
        /\ Looks(TransactionService["Totals"], "GET", 2, "totals")
    BY SMTT(30) DEF TransactionService, Get, Post, Put, Looks, Second
  <1>3. \A m \in DOMAIN TransactionService : Row("transaction", TransactionService[m])
    <2>1. /\ TransactionService["Initialize"].path \in Seq(Segments)
          /\ TransactionService["Verify"].path \in Seq(Segments)
          /\ TransactionService["List"].path \in Seq(Segments)
          /\ TransactionService["Fetch"].path \in Seq(Segments)
          /\ TransactionService["ChargeAuthorization"].path \in Seq(Segments)
          /\ TransactionService["Totals"].path \in Seq(Segments)
      BY PathType, WordsAreNoHoles DEF TransactionService, Get, Post, Put
    <2>2. /\ TransactionService["Initialize"].path[1] = "transaction"
          /\ TransactionService["Verify"].path[1] = "transaction"
          /\ TransactionService["List"].path[1] = "transaction"
          /\ TransactionService["Fetch"].path[1] = "transaction"
          /\ TransactionService["ChargeAuthorization"].path[1] = "transaction"
          /\ TransactionService["Totals"].path[1] = "transaction"
      BY DEF TransactionService, Get, Post, Put
    <2> QED
      BY <1>1, <1>2, <2>1, <2>2 DEF Row, Looks
  <1>4. /\ "charge_authorization" # Hole /\ "initialize" # Hole /\ "totals" # Hole
        /\ "verify" # Hole /\ 1 # 2 /\ 1 # 3 /\ 2 # 3
    BY WordsAreNoHoles
  <1>5. ASSUME NEW m \in DOMAIN TransactionService, NEW o \in DOMAIN TransactionService
        PROVE  m = o \/ Apart(TransactionService[m], TransactionService[o]) \/ {m, o} = Overlap
    BY <1>1, <1>2, <1>4, ZenonT(60) DEF Apart, Looks, Overlap
  <1> QED
    BY <1>3, <1>5

\* charge.go.
LEMMA ChargeRows ==
  /\ \A m \in DOMAIN ChargeService : Row("charge", ChargeService[m])
  /\ \A m, o \in DOMAIN ChargeService :
       m = o \/ Apart(ChargeService[m], ChargeService[o])
  <1>1. DOMAIN ChargeService =
          {"Create", "SubmitPin", "SubmitOTP", "SubmitPhone", "SubmitBirthday", "CheckPending"}
    BY DEF ChargeService
  <1>2. /\ Looks(ChargeService["Create"], "POST", 1, Hole)
        /\ Looks(ChargeService["SubmitPin"], "POST", 2, "submit_pin")
        /\ Looks(ChargeService["SubmitOTP"], "POST", 2, "submit_otp")
        /\ Looks(ChargeService["SubmitPhone"], "POST", 2, "submit_phone")
        /\ Looks(ChargeService["SubmitBirthday"], "POST", 2, "submit_birthday")
        /\ Looks(ChargeService["CheckPending"], "GET", 2, Hole)
    BY SMTT(30) DEF ChargeService, Get, Post, Put, Looks, Second
  <1>3. \A m \in DOMAIN ChargeService : Row("charge", ChargeService[m])
    <2>1. /\ ChargeService["Create"].path \in Seq(Segments)
          /\ ChargeService["SubmitPin"].path \in Seq(Segments)
          /\ ChargeService["SubmitOTP"].path \in Seq(Segments)
          /\ ChargeService["SubmitPhone"].path \in Seq(Segments)
          /\ ChargeService["SubmitBirthday"].path \in Seq(Segments)
          /\ ChargeService["CheckPending"].path \in Seq(Segments)
      BY PathType, WordsAreNoHoles DEF ChargeService, Get, Post, Put
    <2>2. /\ ChargeService["Create"].path[1] = "charge"
          /\ ChargeService["SubmitPin"].path[1] = "charge"
          /\ ChargeService["SubmitOTP"].path[1] = "charge"
          /\ ChargeService["SubmitPhone"].path[1] = "charge"
          /\ ChargeService["SubmitBirthday"].path[1] = "charge"
          /\ ChargeService["CheckPending"].path[1] = "charge"
      BY DEF ChargeService, Get, Post, Put
    <2> QED
      BY <1>1, <1>2, <2>1, <2>2 DEF Row, Looks
  <1>4. /\ "submit_birthday" # Hole /\ "submit_otp" # Hole /\ "submit_phone" # Hole
        /\ "submit_pin" # Hole /\ 1 # 2
    BY WordsAreNoHoles
  <1>5. ASSUME NEW m \in DOMAIN ChargeService, NEW o \in DOMAIN ChargeService
        PROVE  m = o \/ Apart(ChargeService[m], ChargeService[o])
    BY <1>1, <1>2, <1>4, ZenonT(60) DEF Apart, Looks
  <1> QED
    BY <1>3, <1>5

\* customer.go.
LEMMA CustomerRows ==
  /\ \A m \in DOMAIN CustomerService : Row("customer", CustomerService[m])
  /\ \A m, o \in DOMAIN CustomerService :
       m = o \/ Apart(CustomerService[m], CustomerService[o])
  <1>1. DOMAIN CustomerService =
          {"Create", "Fetch", "List", "Update", "SetRiskAction", "DeactivateAuthorization"}
    BY DEF CustomerService
  <1>2. /\ Looks(CustomerService["Create"], "POST", 1, Hole)
        /\ Looks(CustomerService["Fetch"], "GET", 2, Hole)
        /\ Looks(CustomerService["List"], "GET", 1, Hole)
        /\ Looks(CustomerService["Update"], "PUT", 2, Hole)
        /\ Looks(CustomerService["SetRiskAction"], "POST", 2, "set_risk_action")
        /\ Looks(CustomerService["DeactivateAuthorization"], "POST", 2, "deactivate_authorization")
    BY SMTT(30) DEF CustomerService, Get, Post, Put, Looks, Second
  <1>3. \A m \in DOMAIN CustomerService : Row("customer", CustomerService[m])
    <2>1. /\ CustomerService["Create"].path \in Seq(Segments)
          /\ CustomerService["Fetch"].path \in Seq(Segments)
          /\ CustomerService["List"].path \in Seq(Segments)
          /\ CustomerService["Update"].path \in Seq(Segments)
          /\ CustomerService["SetRiskAction"].path \in Seq(Segments)
          /\ CustomerService["DeactivateAuthorization"].path \in Seq(Segments)
      BY PathType, WordsAreNoHoles DEF CustomerService, Get, Post, Put
    <2>2. /\ CustomerService["Create"].path[1] = "customer"
          /\ CustomerService["Fetch"].path[1] = "customer"
          /\ CustomerService["List"].path[1] = "customer"
          /\ CustomerService["Update"].path[1] = "customer"
          /\ CustomerService["SetRiskAction"].path[1] = "customer"
          /\ CustomerService["DeactivateAuthorization"].path[1] = "customer"
      BY DEF CustomerService, Get, Post, Put
    <2> QED
      BY <1>1, <1>2, <2>1, <2>2 DEF Row, Looks
  <1>4. /\ "deactivate_authorization" # Hole /\ "set_risk_action" # Hole /\ 1 # 2
    BY WordsAreNoHoles
  <1>5. ASSUME NEW m \in DOMAIN CustomerService, NEW o \in DOMAIN CustomerService
        PROVE  m = o \/ Apart(CustomerService[m], CustomerService[o])
    BY <1>1, <1>2, <1>4, ZenonT(60) DEF Apart, Looks
  <1> QED
    BY <1>3, <1>5

\* plan.go.
LEMMA PlanRows ==
  /\ \A m \in DOMAIN PlanService : Row("plan", PlanService[m])
  /\ \A m, o \in DOMAIN PlanService :
       m = o \/ Apart(PlanService[m], PlanService[o])
  <1>1. DOMAIN PlanService =
          {"Create", "Fetch", "List", "Update"}
    BY DEF PlanService
  <1>2. /\ Looks(PlanService["Create"], "POST", 1, Hole)
        /\ Looks(PlanService["Fetch"], "GET", 2, Hole)
        /\ Looks(PlanService["List"], "GET", 1, Hole)
        /\ Looks(PlanService["Update"], "PUT", 2, Hole)
    BY SMTT(30) DEF PlanService, Get, Post, Put, Looks, Second
  <1>3. \A m \in DOMAIN PlanService : Row("plan", PlanService[m])
    <2>1. /\ PlanService["Create"].path \in Seq(Segments)
          /\ PlanService["Fetch"].path \in Seq(Segments)
          /\ PlanService["List"].path \in Seq(Segments)
          /\ PlanService["Update"].path \in Seq(Segments)
      BY PathType, WordsAreNoHoles DEF PlanService, Get, Post, Put
    <2>2. /\ PlanService["Create"].path[1] = "plan"
          /\ PlanService["Fetch"].path[1] = "plan"
          /\ PlanService["List"].path[1] = "plan"
          /\ PlanService["Update"].path[1] = "plan"
      BY DEF PlanService, Get, Post, Put
    <2> QED
      BY <1>1, <1>2, <2>1, <2>2 DEF Row, Looks
  <1>4. /\ 1 # 2
    BY WordsAreNoHoles
  <1>5. ASSUME NEW m \in DOMAIN PlanService, NEW o \in DOMAIN PlanService
        PROVE  m = o \/ Apart(PlanService[m], PlanService[o])
    BY <1>1, <1>2, <1>4, ZenonT(60) DEF Apart, Looks
  <1> QED
    BY <1>3, <1>5

\* subscription.go.
LEMMA SubscriptionRows ==
  /\ \A m \in DOMAIN SubscriptionService : Row("subscription", SubscriptionService[m])
  /\ \A m, o \in DOMAIN SubscriptionService :
       m = o \/ Apart(SubscriptionService[m], SubscriptionService[o])
  <1>1. DOMAIN SubscriptionService =
          {"Create", "Fetch", "List", "Enable", "Disable", "GenerateUpdateLink"}
    BY DEF SubscriptionService
  <1>2. /\ Looks(SubscriptionService["Create"], "POST", 1, Hole)
        /\ Looks(SubscriptionService["Fetch"], "GET", 2, Hole)
        /\ Looks(SubscriptionService["List"], "GET", 1, Hole)
        /\ Looks(SubscriptionService["Enable"], "POST", 2, "enable")
        /\ Looks(SubscriptionService["Disable"], "POST", 2, "disable")
        /\ Looks(SubscriptionService["GenerateUpdateLink"], "GET", 4, Hole)
    BY SMTT(30) DEF SubscriptionService, Get, Post, Put, Looks, Second
  <1>3. \A m \in DOMAIN SubscriptionService : Row("subscription", SubscriptionService[m])
    <2>1. /\ SubscriptionService["Create"].path \in Seq(Segments)
          /\ SubscriptionService["Fetch"].path \in Seq(Segments)
          /\ SubscriptionService["List"].path \in Seq(Segments)
          /\ SubscriptionService["Enable"].path \in Seq(Segments)
          /\ SubscriptionService["Disable"].path \in Seq(Segments)
          /\ SubscriptionService["GenerateUpdateLink"].path \in Seq(Segments)
      BY PathType, WordsAreNoHoles DEF SubscriptionService, Get, Post, Put
    <2>2. /\ SubscriptionService["Create"].path[1] = "subscription"
          /\ SubscriptionService["Fetch"].path[1] = "subscription"
          /\ SubscriptionService["List"].path[1] = "subscription"
          /\ SubscriptionService["Enable"].path[1] = "subscription"
          /\ SubscriptionService["Disable"].path[1] = "subscription"
          /\ SubscriptionService["GenerateUpdateLink"].path[1] = "subscription"
      BY DEF SubscriptionService, Get, Post, Put
    <2> QED
      BY <1>1, <1>2, <2>1, <2>2 DEF Row, Looks
  <1>4. /\ "disable" # Hole /\ "enable" # Hole /\ 1 # 2 /\ 1 # 4 /\ 2 # 4
    BY WordsAreNoHoles
  <1>5. ASSUME NEW m \in DOMAIN SubscriptionService, NEW o \in DOMAIN SubscriptionService
        PROVE  m = o \/ Apart(SubscriptionService[m], SubscriptionService[o])
    BY <1>1, <1>2, <1>4, ZenonT(60) DEF Apart, Looks
  <1> QED
    BY <1>3, <1>5

\* transfer.go.
LEMMA TransferRows ==
  /\ \A m \in DOMAIN TransferService : Row("transfer", TransferService[m])
  /\ \A m, o \in DOMAIN TransferService :
       m = o \/ Apart(TransferService[m], TransferService[o])
  <1>1. DOMAIN TransferService =
          {"Initiate", "Finalize", "Fetch", "Verify", "List"}
    BY DEF TransferService
  <1>2. /\ Looks(TransferService["Initiate"], "POST", 1, Hole)
        /\ Looks(TransferService["Finalize"], "POST", 2, "finalize_transfer")
        /\ Looks(TransferService["Fetch"], "GET", 2, Hole)
        /\ Looks(TransferService["Verify"], "GET", 3, "verify")
        /\ Looks(TransferService["List"], "GET", 1, Hole)
    BY SMTT(30) DEF TransferService, Get, Post, Put, Looks, Second
  <1>3. \A m \in DOMAIN TransferService : Row("transfer", TransferService[m])
    <2>1. /\ TransferService["Initiate"].path \in Seq(Segments)
          /\ TransferService["Finalize"].path \in Seq(Segments)
          /\ TransferService["Fetch"].path \in Seq(Segments)
          /\ TransferService["Verify"].path \in Seq(Segments)
          /\ TransferService["List"].path \in Seq(Segments)
      BY PathType, WordsAreNoHoles DEF TransferService, Get, Post, Put
    <2>2. /\ TransferService["Initiate"].path[1] = "transfer"
          /\ TransferService["Finalize"].path[1] = "transfer"
          /\ TransferService["Fetch"].path[1] = "transfer"
          /\ TransferService["Verify"].path[1] = "transfer"
          /\ TransferService["List"].path[1] = "transfer"
      BY DEF TransferService, Get, Post, Put
    <2> QED
      BY <1>1, <1>2, <2>1, <2>2 DEF Row, Looks
  <1>4. /\ "finalize_transfer" # Hole /\ "verify" # Hole /\ 1 # 2 /\ 1 # 3 /\ 2 # 3
    BY WordsAreNoHoles
  <1>5. ASSUME NEW m \in DOMAIN TransferService, NEW o \in DOMAIN TransferService
        PROVE  m = o \/ Apart(TransferService[m], TransferService[o])
    BY <1>1, <1>2, <1>4, ZenonT(60) DEF Apart, Looks
  <1> QED
    BY <1>3, <1>5

\* refund.go.
LEMMA RefundRows ==
  /\ \A m \in DOMAIN RefundService : Row("refund", RefundService[m])
  /\ \A m, o \in DOMAIN RefundService :
       m = o \/ Apart(RefundService[m], RefundService[o])
  <1>1. DOMAIN RefundService =
          {"Create", "Fetch", "List"}
    BY DEF RefundService
  <1>2. /\ Looks(RefundService["Create"], "POST", 1, Hole)
        /\ Looks(RefundService["Fetch"], "GET", 2, Hole)
        /\ Looks(RefundService["List"], "GET", 1, Hole)
    BY SMTT(30) DEF RefundService, Get, Post, Put, Looks, Second
  <1>3. \A m \in DOMAIN RefundService : Row("refund", RefundService[m])
    <2>1. /\ RefundService["Create"].path \in Seq(Segments)
          /\ RefundService["Fetch"].path \in Seq(Segments)
          /\ RefundService["List"].path \in Seq(Segments)
      BY PathType, WordsAreNoHoles DEF RefundService, Get, Post, Put
    <2>2. /\ RefundService["Create"].path[1] = "refund"
          /\ RefundService["Fetch"].path[1] = "refund"
          /\ RefundService["List"].path[1] = "refund"
      BY DEF RefundService, Get, Post, Put
    <2> QED
      BY <1>1, <1>2, <2>1, <2>2 DEF Row, Looks
  <1>4. /\ 1 # 2
    BY WordsAreNoHoles
  <1>5. ASSUME NEW m \in DOMAIN RefundService, NEW o \in DOMAIN RefundService
        PROVE  m = o \/ Apart(RefundService[m], RefundService[o])
    BY <1>1, <1>2, <1>4, ZenonT(60) DEF Apart, Looks
  <1> QED
    BY <1>3, <1>5

-----------------------------------------------------------------------------
(* The whole table. *)

\* The table of each service.
LEMMA Tables ==
  /\ DOMAIN Client = {"transaction", "charge", "customer", "plan", "subscription",
                      "transfer", "refund"}
  /\ Client["transaction"] = TransactionService /\ Client["charge"] = ChargeService
  /\ Client["customer"] = CustomerService /\ Client["plan"] = PlanService
  /\ Client["subscription"] = SubscriptionService /\ Client["transfer"] = TransferService
  /\ Client["refund"] = RefundService
  BY DEF Client

\* A method is the name of a service and of a row of its table.
LEMMA MethodType ==
  /\ \A sm \in Methods : /\ sm[1] \in DOMAIN Client /\ sm[2] \in DOMAIN Client[sm[1]]
                         /\ sm = <<sm[1], sm[2]>>
  /\ \A s \in DOMAIN Client : \A m \in DOMAIN Client[s] : <<s, m>> \in Methods
  BY DEF Methods

\* Every row begins with the name of its service, which no hole can be.
LEMMA EveryRow ==
  ASSUME NEW sm \in Methods
  PROVE  Row(sm[1], Endpoint(sm)) /\ sm[1] # Hole
  <1>1. sm[1] \in DOMAIN Client /\ sm[2] \in DOMAIN Client[sm[1]]
    BY MethodType
  <1>2. \A s \in DOMAIN Client : s # Hole /\ \A m \in DOMAIN Client[s] : Row(s, Client[s][m])
    BY Tables, WordsAreNoHoles, TransactionRows, ChargeRows, CustomerRows, PlanRows,
       SubscriptionRows, TransferRows, RefundRows
  <1> QED
    BY <1>1, <1>2 DEF Endpoint

\* Two rows of one service are apart, but for the overlap.
LEMMA RowsApart ==
  ASSUME NEW sm \in Methods, NEW om \in Methods, sm # om, sm[1] = om[1]
  PROVE  \/ Apart(Endpoint(sm), Endpoint(om))
         \/ sm[1] = "transaction" /\ {sm[2], om[2]} = Overlap
  <1>1. /\ sm[1] \in DOMAIN Client /\ sm[2] \in DOMAIN Client[sm[1]]
        /\ om[2] \in DOMAIN Client[sm[1]] /\ sm[2] # om[2]
    BY MethodType, Zenon
  <1>2. ASSUME NEW s \in DOMAIN Client, NEW m \in DOMAIN Client[s], NEW o \in DOMAIN Client[s]
        PROVE  m = o \/ Apart(Client[s][m], Client[s][o]) \/ (s = "transaction" /\ {m, o} = Overlap)
    BY Tables, TransactionRows, ChargeRows, CustomerRows, PlanRows,
       SubscriptionRows, TransferRows, RefundRows
  <1> QED
    BY <1>1, <1>2 DEF Endpoint

-----------------------------------------------------------------------------
(* What the methods are given. *)

\* A row has one of the verbs the SDK uses and one of the kinds of params; a
\* write that is not bare takes Params, which can carry a key.
Given(e, bare) ==
  /\ e.verb \in {"GET", "POST", "PUT"}
  /\ e.arg \in {"none", "plain", "List", "Params"}
  /\ e.verb # "GET" /\ ~bare => e.arg = "Params"

\* What each service's methods give to Call: a write takes Params.
LEMMA GivenRows ==
  /\ \A m \in DOMAIN TransactionService : Given(TransactionService[m], FALSE)
  /\ \A m \in DOMAIN ChargeService : Given(ChargeService[m], FALSE)
  /\ \A m \in DOMAIN CustomerService : Given(CustomerService[m], m = "DeactivateAuthorization")
  /\ \A m \in DOMAIN PlanService : Given(PlanService[m], FALSE)
  /\ \A m \in DOMAIN SubscriptionService : Given(SubscriptionService[m], FALSE)
  /\ \A m \in DOMAIN TransferService : Given(TransferService[m], FALSE)
  /\ \A m \in DOMAIN RefundService : Given(RefundService[m], FALSE)
  <1>1. \A m \in DOMAIN TransactionService : Given(TransactionService[m], FALSE)
    BY SMTT(30) DEF TransactionService, Get, Post, Put, Given
  <1>2. \A m \in DOMAIN ChargeService : Given(ChargeService[m], FALSE)
    BY SMTT(30) DEF ChargeService, Get, Post, Put, Given
  <1>3. \A m \in DOMAIN CustomerService : Given(CustomerService[m], m = "DeactivateAuthorization")
    BY SMTT(30) DEF CustomerService, Get, Post, Put, Given
  <1>4. \A m \in DOMAIN PlanService : Given(PlanService[m], FALSE)
    BY SMTT(30) DEF PlanService, Get, Post, Put, Given
  <1>5. \A m \in DOMAIN SubscriptionService : Given(SubscriptionService[m], FALSE)
    BY SMTT(30) DEF SubscriptionService, Get, Post, Put, Given
  <1>6. \A m \in DOMAIN TransferService : Given(TransferService[m], FALSE)
    BY SMTT(30) DEF TransferService, Get, Post, Put, Given
  <1>7. \A m \in DOMAIN RefundService : Given(RefundService[m], FALSE)
    BY SMTT(30) DEF RefundService, Get, Post, Put, Given
  <1> QED
    BY <1>1, <1>2, <1>3, <1>4, <1>5, <1>6, <1>7

\* The same of all methods, with the one exception that the table has.
LEMMA EveryRowGiven ==
  ASSUME NEW sm \in Methods
  PROVE  Given(Endpoint(sm), sm = <<"customer", "DeactivateAuthorization">>)
  <1>1. /\ sm[1] \in DOMAIN Client /\ sm[2] \in DOMAIN Client[sm[1]]
        /\ sm = <<sm[1], sm[2]>>
    BY MethodType
  <1>2. \A s \in DOMAIN Client : \A m \in DOMAIN Client[s] :
          Given(Client[s][m], s = "customer" /\ m = "DeactivateAuthorization")
    BY Tables, GivenRows DEF Given
  <1> QED
    BY <1>1, <1>2 DEF Endpoint, Given
=============================================================================
