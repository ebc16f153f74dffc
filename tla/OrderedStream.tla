---------------------------- MODULE OrderedStream ---------------------------
(***************************************************************************)
(* What one direction of a connection promises to the layer above: the     *)
(* frames come out as they went in, each at most once and none before it   *)
(* was sent.  Nothing is promised about how many come out: there is no     *)
(* acknowledgement and no retransmission of a frame that is lost.          *)
(***************************************************************************)
EXTENDS Naturals, Sequences

VARIABLES
    accepted,   \* how many frames the sender has numbered
    output      \* the numbers of the frames handed up, in order

Init == accepted = 0 /\ output = << >>

Accept == accepted' = accepted + 1 /\ UNCHANGED output

\* One received message can complete a run of several frames.
HandUp ==
    \E upto \in (Len(output) + 1) .. accepted :
        /\ output' = [i \in 1 .. upto |-> i]
        /\ UNCHANGED accepted

Next == Accept \/ HandUp

Spec == Init /\ [][Next]_<<accepted, output>>
=============================================================================
