------------------------------- MODULE Stream -------------------------------
(***************************************************************************)
(* One direction of one connection: the sender's Sequencer, the chat that  *)
(* carries the frames, and the receiver's RecvWindow with its gap timer.   *)
(*                                                                         *)
(* A chat can lose a frame (the websocket was down when it was posted),    *)
(* deliver it late, out of order (concurrent batches) or several times (a  *)
(* send that failed after the message was posted is repeated).             *)
(***************************************************************************)
EXTENDS RecvWindow, Sequences

CONSTANT Total   \* bound: how many frames the sender sends

ASSUME TotalAssumption == Total \in 1 .. MaxSeq

VARIABLES
    sender,      \* the Sequencer
    chat,        \* frames that were posted and can still arrive
    window,      \* the RecvWindow
    delivered,   \* history: the frames handed up, in order
    quiet        \* history: ticks since the window last made progress

vars == <<sender, chat, window, delivered, quiet>>

\* How many frames have been numbered.
Sent == IF sender.exhausted THEN MaxSeq ELSE sender.next - 1

Init ==
    /\ sender = NewSequencer
    /\ chat = {}
    /\ window = NewRecvWindow
    /\ delivered = << >>
    /\ quiet = 0

\* NextSeq gives the frame its number and the frame is posted.
SendFrame ==
    /\ Sent < Total
    /\ ~sender.exhausted
    /\ sender' = NextSeq(sender)
    /\ chat' = chat \union {sender.next}
    /\ UNCHANGED <<window, delivered, quiet>>

\* OfferAt of a frame that has come in.  The chat may deliver it again.  The
\* four results of OfferAt are the four actions that follow.
OfferTimedOut(seq) ==
    LET w == Initialised(window)
    IN  /\ seq \in chat
        /\ OfferResult(w, seq) = "gap_timeout"
        /\ window' = CheckGapTimeoutAt(w)
        /\ quiet' = 0
        /\ UNCHANGED <<sender, chat, delivered>>

OfferDuplicate(seq) ==
    LET w == Initialised(window)
    IN  /\ seq \in chat
        /\ OfferResult(w, seq) = "duplicate"
        /\ window' = CheckGapTimeoutAt(w)
        /\ UNCHANGED <<sender, chat, delivered, quiet>>

OfferBuffered(seq) ==
    LET w == Initialised(window)
    IN  /\ seq \in chat
        /\ OfferResult(w, seq) = "buffered"
        /\ window' = Buffered(CheckGapTimeoutAt(w), seq)
        /\ quiet' = IF window.gapOpen THEN quiet ELSE 0
        /\ UNCHANGED <<sender, chat, delivered>>

\* The frames first .. last as a sequence.
Run(first, last) == [i \in 1 .. last - first + 1 |-> first + i - 1]

OfferDelivered(seq) ==
    LET w == Initialised(window)
    IN  /\ seq \in chat
        /\ OfferResult(w, seq) = "delivered"
        /\ \E last \in Seqs :
              /\ Completes(CheckGapTimeoutAt(w), seq, last)
              /\ window' = Advanced(CheckGapTimeoutAt(w), last)
              /\ delivered' = delivered \o Run(seq, last)
        /\ quiet' = 0
        /\ UNCHANGED <<sender, chat>>

Offer(seq) ==
    \/ OfferTimedOut(seq)
    \/ OfferDuplicate(seq)
    \/ OfferBuffered(seq)
    \/ OfferDelivered(seq)

\* CheckGapTimeoutAt, called for every connection by the daemon's ticker.
Tick ==
    LET w == Initialised(window)
    IN  /\ window' = CheckGapTimeoutAt(w)
        /\ quiet' = IF GapExpired(w) THEN 0 ELSE quiet
        /\ UNCHANGED <<sender, chat, delivered>>

Lose(seq) ==
    /\ seq \in chat
    /\ chat' = chat \ {seq}
    /\ UNCHANGED <<sender, window, delivered, quiet>>

\* The history counter, like the age of the gap, stops at GapTimeout.
Later(age) == IF age < GapTimeout THEN age + 1 ELSE age

Elapse ==
    /\ window' = Aged(window)
    /\ quiet' = IF window.gapOpen THEN Later(quiet) ELSE quiet
    /\ UNCHANGED <<sender, chat, delivered>>

Next ==
    \/ SendFrame
    \/ \E seq \in Seqs : Offer(seq) \/ Lose(seq)
    \/ Tick
    \/ Elapse

Spec == Init /\ [][Next]_vars

\* time.Ticker of tickLoop fires for as long as the daemon runs.
FairSpec == Spec /\ WF_vars(Tick) /\ WF_vars(Elapse)

-----------------------------------------------------------------------------
TypeOK ==
    /\ sender \in Sequencer
    /\ chat \subseteq Seqs
    /\ window \in Window
    /\ delivered \in Seq(Seqs)
    /\ quiet \in 0 .. GapTimeout

\* Frames are handed up in the order they were numbered, none twice and none
\* left out, whatever the chat loses, repeats or reorders, also after a gap
\* timeout has thrown pending frames away: the window's deduplication and
\* reordering (OfferAt), the only ordering the protocol has.
InOrderOnce ==
    /\ Len(delivered) <= Sent
    /\ \A i \in 1 .. Len(delivered) : delivered[i] = i

\* The gap timer runs exactly while frames wait behind a missing one, so no
\* frame can wait with no timer to give it up, and no timer can fail a
\* connection that waits for nothing.
GapIffPending ==
    /\ window.gapOpen <=> window.pending # {}
    /\ \A seq \in window.pending : window.next < seq /\ seq <= Sent

\* A connection is failed for a gap only after GapTimeout ticks in which the
\* missing frame did not arrive: the timer starts again whenever the window
\* moves (the rule that TestRecvWindowResetsGapTimerWhenWindowMoves states).
GapTimerMeasuresQuiet == window.gapOpen => window.gapAge = quiet

\* A gap does not stay: it is filled or the ticker fails it, so frames never
\* wait for ever behind one that was lost.
GapResolved == window.gapOpen ~> ~window.gapOpen

\* The abstract stream this one implements.
Ordered == INSTANCE OrderedStream WITH accepted <- Sent, output <- delivered

ImplementsOrderedStream == Ordered!Spec
=============================================================================
