---------------------------- MODULE MCExecution ----------------------------
(* Three profiles: the first falls back to both others, the second to the   *)
(* third, which is tried twice then; the provider of the third is unknown.  *)
EXTENDS Execution

MCProviderOf == [main |-> "p", spare |-> "p", last |-> "gone"]
MCFallbacks == [main |-> <<"spare", "last">>, spare |-> <<"last">>, last |-> <<>>]
MCFallbackOn == [main |-> {"unavailable", "timeout", "error"}, spare |-> {"unavailable", "error"},
                 last |-> {"unavailable"}]
=============================================================================
