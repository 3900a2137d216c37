------------------------------ MODULE MCService ------------------------------
(* A configuration for TLC: ddg is left out, a name is unknown and one comes    *)
(* twice, and of the providers after ddg only the middle one has a key.         *)
EXTENDS Service

SomeOrders == {<<"brave", "bing", "tavily", "brave", "serpapi">>}
SomeKeys == {{"tavily"}}
=============================================================================
