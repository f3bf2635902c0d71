-------------------------- MODULE MCErrorReporting --------------------------
EXTENDS ErrorReporting

MCStatuses == {200, 300, 304, 400, 401, 404, 429, 503}

\* Around the product's limits for an 8-bit Duration with 4 ticks a second:
\* 31 seconds fit, 32 do not, 64 wrap to zero, 127 is the last int.
MCHeaders ==
  {[form |-> "absent", n |-> 0], [form |-> "junk", n |-> 0]}
    \cup [form : {"secs"}, n : {-1, 0, 1, 31, 32, 33, 64, 127, 128}]
    \cup [form : {"date"}, n : {-3, 0, 3}]

MCErrors ==
  {[form |-> "other", fields |-> NoFields], [form |-> "map", fields |-> NoFields]}
    \cup [form : {"map"}, fields : [{"email", "amount"} -> {"string", "number", "null"}]]
=============================================================================
