----------------------------- MODULE MCWebhook -----------------------------
(***************************************************************************)
(* Small instances of Webhook for TLC: an event that fits, one that just   *)
(* fits, one that is a byte too long and one without a name; a slot of a   *)
(* server that reads each body afresh and one of fiber.                    *)
(***************************************************************************)
EXTENDS Webhook

CONSTANTS fits, edge, long, nameless, s1, s2

MCEvents  == {fits, edge, long, nameless}
MCSize    == [e \in MCEvents |-> IF e = long THEN 3 ELSE IF e = edge THEN 2 ELSE 1]
MCUnnamed == {nameless}
MCSlots   == {s1, s2}
MCEntry   == [d \in MCSlots |-> IF d = s1 THEN "gin" ELSE "fiber"]

Unsigned(e) == [Genuine(e) EXCEPT !.sig = None]
Altered(e)  == [Genuine(e) EXCEPT !.body.intact = FALSE]
Cut(e, len) == [Genuine(e) EXCEPT !.body.len = len, !.cut = TRUE]

\* An altered body, signed with the empty secret.
Unkeyed(e)  == [Altered(e) EXCEPT !.sig = Sign(Altered(e).body, Empty)]

MCBody == [event : MCEvents, len : 1..3, intact : BOOLEAN]
MCSig  == [body : MCBody, secret : {Secret, Empty}] \cup {None}

\* Bodies are cut before the limit, at it, and at it when there is no more to
\* come.
MCPosts ==
  {p \in [body : MCBody, sig : MCSig, cut : BOOLEAN] :
     \/ \E e \in MCEvents : p = Genuine(e)
     \/ p \in {Unsigned(fits), Altered(fits), Unkeyed(fits)}
     \/ p \in {Cut(edge, 1), Cut(edge, 2), Cut(long, 2)}}
=============================================================================
