-------------------------- MODULE MCRequestBuilder --------------------------
EXTENDS RequestBuilder

\* An ordinary reference, a number, strings with slashes that spell the rest
\* of another endpoint's path, and strings equal to a literal segment.
MCStrings ==
  { <<"ref">>, <<"7">>, <<"verify", "ref">>, <<"sub", "manage", "link">>,
    <<"totals">>, <<"set_risk_action">>, <<"submit_pin">> }

MCNumbers == { <<"7">> }
=============================================================================
