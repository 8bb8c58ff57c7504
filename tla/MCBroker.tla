------------------------------ MODULE MCBroker ------------------------------
(* Small instances of Broker for TLC.                                       *)
EXTENDS Broker

CONSTANTS p1

\* Both calls come from p1, which is a consumer too.
OneCaller == [r \in Requests |-> p1]

=============================================================================
