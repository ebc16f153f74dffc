----------------------------- MODULE MCOutbound -----------------------------
(***************************************************************************)
(* Model checking of Outbound: the constants are in the configurations,    *)
(* with one connection (Outbound.cfg) or two and a caller of OpenRoot in   *)
(* one chat (OutboundChat.cfg).  Both check liveness, so symmetry is not   *)
(* used.                                                                   *)
(***************************************************************************)
EXTENDS Outbound
=============================================================================
