----------------------------- MODULE ReplyQueue -----------------------------
(***************************************************************************)
(* What the outbound manager promises to the session layer about the       *)
(* connections of a chat: frames are numbered while the connection is open *)
(* and no longer; Lark may post a frame that is numbered, at any time and  *)
(* in any order, also when the connection has gone; a connection goes once,*)
(* for one reason, and "drained" is the reason only when all of its frames *)
(* have been posted.  That a frame is posted at all, or a connection goes, *)
(* is not promised here.                                                   *)
(***************************************************************************)
EXTENDS Naturals

CONSTANT Conns

VARIABLES
    phase,      \* connection: "new", "open", "gone"
    numbered,   \* connection: how many frames were numbered
    inChat,     \* connection: the numbers of the frames that Lark has posted
    reason      \* connection: why it went, "none" before

Init ==
    /\ phase = [c \in Conns |-> "new"]
    /\ numbered = [c \in Conns |-> 0]
    /\ inChat = [c \in Conns |-> {}]
    /\ reason = [c \in Conns |-> "none"]

Opens(c) ==
    /\ phase[c] = "new"
    /\ phase' = [phase EXCEPT ![c] = "open"]
    /\ UNCHANGED <<numbered, inChat, reason>>

Numbers(c) ==
    /\ phase[c] = "open"
    /\ numbered' = [numbered EXCEPT ![c] = @ + 1]
    /\ UNCHANGED <<phase, inChat, reason>>

\* The frames of one message, which may be in the chat already.
Posts(c) ==
    \E message \in SUBSET (1 .. numbered[c]) :
        /\ inChat' = [inChat EXCEPT ![c] = @ \union message]
        /\ UNCHANGED <<phase, numbered, reason>>

Goes(c) ==
    \E why \in {"drained", "dropped", "removed"} :
        /\ phase[c] = "open"
        /\ why = "drained" => inChat[c] = 1 .. numbered[c]
        /\ phase' = [phase EXCEPT ![c] = "gone"]
        /\ reason' = [reason EXCEPT ![c] = why]
        /\ UNCHANGED <<numbered, inChat>>

Next == \E c \in Conns : Opens(c) \/ Numbers(c) \/ Posts(c) \/ Goes(c)

Spec == Init /\ [][Next]_<<phase, numbered, inChat, reason>>
=============================================================================
