------------------------------ MODULE MCClient ------------------------------
EXTENDS Client, TLC

CONSTANTS g1, g2, tenant, other, m1, m2, aClient, aHost, aLogger, aLeveled

MCGoroutines == {g1, g2}
MCMocks == {m1, m2}
MCClients == {tenant, other}
MCKeys == {"sk_test_", "other"}

AllOptions ==
  { [kind |-> "backend", value |-> m1], [kind |-> "backend", value |-> None],
    [kind |-> "httpClient", value |-> aClient], [kind |-> "baseURL", value |-> <<aHost, "/", "/">>],
    [kind |-> "baseURL", value |-> <<>>], [kind |-> "logger", value |-> aLogger],
    [kind |-> "leveled", value |-> aLeveled] }

Overriding == { [kind |-> "backend", value |-> m1], [kind |-> "backend", value |-> None],
                [kind |-> "httpClient", value |-> aClient] }

\* Every list of up to two options for one client, and of three where a Backend
\* overrides; the other client has a mock.
MCOptionsFor ==
  tenant :> UNION {[1..n -> AllOptions] : n \in 0..2} \cup [1..3 -> Overriding]
    @@ other :> {<<[kind |-> "backend", value |-> m2], [kind |-> "httpClient", value |-> aClient]>>}

\* No Middleware, one, and a group's own inside the application's.
MCRoutes == {<<>>, <<tenant>>, <<tenant, other>>}
=============================================================================
