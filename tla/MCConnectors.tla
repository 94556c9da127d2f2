---------------------------- MODULE MCConnectors ----------------------------
(***************************************************************************)
(* A hub whose Protect connection is configured, with two cameras.         *)
(***************************************************************************)
EXTENDS Connectors

MCSettings == [enabled |-> TRUE, host |-> "good", key |-> "good"]

\* A change may disable the ingest, spoil the host or the key, remove the key,
\* or do several of these at once.
MCNewSettings == {
    [enabled |-> FALSE, host |-> "good", key |-> "good"],
    [enabled |-> TRUE,  host |-> "bad",  key |-> "good"],
    [enabled |-> TRUE,  host |-> "good", key |-> "bad"],
    [enabled |-> TRUE,  host |-> "good", key |-> "none"],
    [enabled |-> FALSE, host |-> "none", key |-> "bad"]}
=============================================================================
