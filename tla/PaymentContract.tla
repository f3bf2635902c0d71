-------------------------- MODULE PaymentContract --------------------------
(***************************************************************************)
(* What a caller of the SDK is promised about the payments behind its      *)
(* calls, with no network, connection or response in sight.                *)
(*                                                                         *)
(* Every call carries an intent: its idempotency key when it has one,      *)
(* otherwise the call itself.  At any moment after a call begins, whether  *)
(* or not the caller still waits for it, Paystack may carry its intent     *)
(* out, but it does so once per intent.  A call that reports acceptance    *)
(* was carried out; every other outcome says nothing either way.           *)
(***************************************************************************)
CONSTANTS
  Calls,        \* the calls the application makes
  Intents       \* what a call may be about

VARIABLES
  phase,        \* phase[c]: "new", "open", "accepted" or "unknown"
  intent,       \* intent[c]: fixed when c begins, a member of Intents
  charged       \* the effects at Paystack: a set of records with field call

contractVars == <<phase, intent, charged>>

Init ==
  /\ phase = [c \in Calls |-> "new"]
  /\ intent \in [Calls -> Intents]
  /\ charged = {}

CarriedOut(c) == \E e \in charged : intent[e.call] = intent[c]

\* The call is made; it may fail on the spot, before anything is sent.
Begin(c) ==
  /\ phase[c] = "new"
  /\ \E p \in {"open", "unknown"} : phase' = [phase EXCEPT ![c] = p]
  /\ \E i \in Intents : intent' = [intent EXCEPT ![c] = i]
  /\ UNCHANGED charged

\* Paystack carries the call's intent out, possibly after the caller gave up.
Charge(c) ==
  /\ phase[c] # "new"
  /\ ~CarriedOut(c)
  /\ \E e \in charged' : e.call = c /\ charged' = charged \cup {e}
  /\ UNCHANGED <<phase, intent>>

\* The caller is told that its request was accepted.
Accept(c) ==
  /\ phase[c] = "open"
  /\ CarriedOut(c)
  /\ phase' = [phase EXCEPT ![c] = "accepted"]
  /\ UNCHANGED <<intent, charged>>

\* The callers in S learn nothing: an error, a panic, a crash, a read.
GiveUp(S) ==
  /\ \A c \in S : phase[c] = "open"
  /\ phase' = [c \in Calls |-> IF c \in S THEN "unknown" ELSE phase[c]]
  /\ UNCHANGED <<intent, charged>>

Next ==
  \/ \E c \in Calls : Begin(c) \/ Charge(c) \/ Accept(c)
  \/ \E S \in (SUBSET Calls) \ {{}} : GiveUp(S)

Spec == Init /\ [][Next]_contractVars
=============================================================================
