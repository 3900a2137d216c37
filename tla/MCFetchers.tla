----------------------------- MODULE MCFetchers -----------------------------
(* A chain of a solver that polls and one that does not, and a page each of    *)
(* them may refuse.                                                            *)
EXTENDS Fetchers

Solvers2 == <<"2captcha", "flaresolverr">>
Pages == {[signal |-> "generic", key |-> "none"], [signal |-> "recaptcha", key |-> "v3"]}
=============================================================================
