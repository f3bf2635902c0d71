------------------------------ MODULE Delivery ------------------------------
(***************************************************************************)
(* What the webhook handlers promise an application and Paystack together: *)
(* delivery at least once.  An event is taken by the application, perhaps  *)
(* many times; it counts as done when the application has said so after    *)
(* taking it; it is acknowledged only when it is done.  A crash makes the  *)
(* application forget what it has taken, and nothing else.                 *)
(***************************************************************************)
CONSTANT Wanted   \* the events that the handlers are there for

VARIABLES
  taken,   \* events the application has taken since the process started
  done,    \* events the application has dealt with
  acked    \* events that will not be reported again

deliveryVars == <<taken, done, acked>>

Init == taken = {} /\ done = {} /\ acked = {}

Take(e) == taken' = taken \cup {e} /\ UNCHANGED <<done, acked>>

Finish(e) == e \in taken /\ done' = done \cup {e} /\ UNCHANGED <<taken, acked>>

Acknowledge(e) == e \in done /\ acked' = acked \cup {e} /\ UNCHANGED <<taken, done>>

Forget == taken' = {} /\ UNCHANGED <<done, acked>>

Next == Forget \/ \E e \in Wanted : Take(e) \/ Finish(e) \/ Acknowledge(e)

Spec == Init /\ [][Next]_deliveryVars
=============================================================================
