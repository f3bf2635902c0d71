------------------------------ MODULE Recorder ------------------------------
(***************************************************************************)
(* What internal/testutil promises of a backend that records: each use of  *)
(* it takes effect at one moment between its call and its return, whatever *)
(* else runs.                                                              *)
(***************************************************************************)
EXTENDS Sequences

CONSTANTS
  Goroutines, Mocks,
  Records,      \* what there is to record
  Panic,        \* the answer of LastCall to an empty record
  Void          \* the answer of what returns nothing

VARIABLES
  log,     \* the calls recorded by each mock
  use,     \* each goroutine's use in progress: <<[op, mock, rec]>> or <<>>
  answer   \* <<what its use will return>>, once that is decided

recorderVars == <<log, use, answer>>

Uses == [op : {"Call", "Calls", "LastCall", "Reset"}, mock : Mocks, rec : Records]

Init ==
  /\ log = [b \in Mocks |-> <<>>]
  /\ use = [g \in Goroutines |-> <<>>]
  /\ answer = [g \in Goroutines |-> <<>>]

Begin(g) ==
  /\ use[g] = <<>>
  /\ \E u \in Uses : use' = [use EXCEPT ![g] = <<u>>]
  /\ UNCHANGED <<log, answer>>

\* The log b after a use, and the answer to it.
LogAfter(u, b) ==
  CASE u.op = "Call"  -> Append(b, u.rec)
    [] u.op = "Reset" -> <<>>
    [] OTHER          -> b

AnswerTo(u, b) ==
  CASE u.op = "Calls" -> b
    [] u.op = "LastCall" /\ b # <<>> -> b[Len(b)]
    [] u.op = "LastCall" /\ b = <<>> -> Panic
    [] OTHER          -> Void

Act(g) ==
  /\ use[g] # <<>>
  /\ answer[g] = <<>>
  /\ LET u == use[g][1]
     IN  /\ log' = [log EXCEPT ![u.mock] = LogAfter(u, @)]
         /\ answer' = [answer EXCEPT ![g] = <<AnswerTo(u, log[u.mock])>>]
  /\ UNCHANGED use

End(g) ==
  /\ answer[g] # <<>>
  /\ use' = [use EXCEPT ![g] = <<>>]
  /\ answer' = [answer EXCEPT ![g] = <<>>]
  /\ UNCHANGED log

Next == \E g \in Goroutines : Begin(g) \/ Act(g) \/ End(g)

Spec == Init /\ [][Next]_recorderVars
=============================================================================
