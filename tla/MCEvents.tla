------------------------------ MODULE MCEvents ------------------------------
(***************************************************************************)
(* Model checking of Events and of Token in it: one event of each kind     *)
(* that does something, the message in two parts, and the bootstrap        *)
(* message beside another request.                                         *)
(***************************************************************************)
EXTENDS Events, TLC

CONSTANTS message, added, bootstrap, reply

EachKind == [e \in EventIds |-> IF e = message THEN "message" ELSE "bot_added"]
EachParts == [e \in EventIds |-> IF e = message THEN 2 ELSE 1]
BothModes == <<"local", "remote">>
=============================================================================
