------------------------------ MODULE MCLocal ------------------------------
(***************************************************************************)
(* Model checking of Local: who runs commands, and what they answer.       *)
(***************************************************************************)
EXTENDS Local

CONSTANTS r1, k1

Answers == {<<"start_ack", "stdout", "exit">>, <<"error">>}
Exits == {<<"start_ack", "exit">>}
=============================================================================
