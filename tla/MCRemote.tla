------------------------------ MODULE MCRemote ------------------------------
(***************************************************************************)
(* Model checking of Remote: which root messages come in and what the      *)
(* client's replies hold.                                                  *)
(***************************************************************************)
EXTENDS Remote, TLC

CONSTANTS c1, c2, t1, t2

OneStart == {t1 :> c1}
TwoStarts == {t1 :> c1 @@ t2 :> c2, t1 :> c1 @@ t2 :> c1}

AnyMessage == {<<"stdin">>, <<"signal", "stdin">>, <<"interrupt">>, <<"stdin", "close">>,
               <<"error">>, <<"gap">>, <<"malformed", "stdin">>}
WithoutGaps == AnyMessage \ {<<"gap">>}
Typing == {<<"stdin">>, <<"signal">>}
NoMessage == {}
=============================================================================
