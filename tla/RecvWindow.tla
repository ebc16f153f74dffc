----------------------------- MODULE RecvWindow -----------------------------
(***************************************************************************)
(* The sequence numbers of EXEC OVER LARK/1, as operators on records:      *)
(* Sequencer and RecvWindow of internal/protocol/frame.go.                 *)
(*                                                                         *)
(* A frame is represented by its sequence number, because a number is      *)
(* given to one frame only and a repeated message carries the same frame.  *)
(* GapStartedAt is kept as the age of the gap, cut off at GapTimeout: the  *)
(* code only ever asks whether now is at least GapStartedAt + gapTimeout.  *)
(***************************************************************************)
EXTENDS Naturals

CONSTANTS
    MaxSeq,      \* math.MaxUint64, the largest sequence number
    GapTimeout   \* connection.sequence_gap_timeout in ticks, 0 for none

ASSUME RecvWindowAssumption == MaxSeq \in Nat \ {0} /\ GapTimeout \in Nat

Seqs == 1 .. MaxSeq

(***************************************************************************)
(* Sequencer.  The last number sets the exhausted flag instead of wrapping.*)
(***************************************************************************)
Sequencer == [next : Seqs, exhausted : BOOLEAN]

\* Mutant: the zero value of Sequencer is used as it is.
SequencerFromZero == [next |-> 0, exhausted |-> FALSE]

NewSequencer == [next |-> 1, exhausted |-> FALSE]

NextSeq(s) ==
    IF s.next = MaxSeq THEN [s EXCEPT !.exhausted = TRUE]
                       ELSE [s EXCEPT !.next = s.next + 1]

(***************************************************************************)
(* RecvWindow.                                                             *)
(***************************************************************************)
Window == [next : 0 .. MaxSeq, pending : SUBSET Seqs,
           gapOpen : BOOLEAN, gapAge : 0 .. GapTimeout]

NewRecvWindow == [next |-> 1, pending |-> {}, gapOpen |-> FALSE, gapAge |-> 0]

\* NextExpectedSeq++ on a uint64: the number after the last one is 0.
Succ(n) == IF n = MaxSeq THEN 0 ELSE n + 1

\* init() turns the zero value of NextExpectedSeq into 1 on the next call.
Initialised(w) == IF w.next = 0 THEN [w EXCEPT !.next = 1] ELSE w

closeGap(w) ==
    [next |-> w.next, pending |-> w.pending, gapOpen |-> FALSE, gapAge |-> 0]

GapExpired(w) ==
    /\ w.gapOpen
    /\ w.pending # {}
    /\ GapTimeout > 0
    /\ w.gapAge >= GapTimeout

\* Mutant: an expired gap is not looked for.
NoGapCheck(w) == w

\* Mutant: after the timeout the window goes on behind the missing number.
SkipsMissing(w) ==
    IF GapExpired(w) THEN closeGap([w EXCEPT !.pending = {}, !.next = w.next + 1])
    ELSE IF w.gapOpen /\ w.pending = {} THEN closeGap(w)
    ELSE w

\* The pending frames are given up, the number that was missing is still
\* the next one expected.
CheckGapTimeoutAt(w) ==
    IF GapExpired(w) THEN closeGap([w EXCEPT !.pending = {}])
    ELSE IF w.gapOpen /\ w.pending = {} THEN closeGap(w)
    ELSE w

\* Frames seq .. last are the consecutive run that seq completes.
Completes(w, seq, last) ==
    /\ last \in seq .. MaxSeq
    /\ (seq + 1) .. last \subseteq w.pending
    /\ last + 1 \notin w.pending

Buffered(w, seq) ==
    [w EXCEPT !.pending = w.pending \union {seq},
              !.gapOpen = TRUE,
              !.gapAge  = IF w.gapOpen THEN w.gapAge ELSE 0]

\* Mutant: the gap is not closed when the last pending frame is delivered.
LeavesGapOpen(w, last) ==
    [next    |-> Succ(last),
     pending |-> w.pending \ (1 .. last),
     gapOpen |-> w.gapOpen,
     gapAge  |-> 0]

\* Mutant: the timer of a gap that is left goes on from the old gap.
KeepsGapAge(w, last) ==
    LET rest == w.pending \ (1 .. last)
    IN  [next    |-> Succ(last),
         pending |-> rest,
         gapOpen |-> rest # {},
         gapAge  |-> IF rest = {} THEN 0 ELSE w.gapAge]

\* The frames up to last are delivered; a gap that is left counts from now.
Advanced(w, last) ==
    LET rest == w.pending \ (1 .. last)
    IN  [next    |-> Succ(last),
         pending |-> rest,
         gapOpen |-> rest # {},
         gapAge  |-> 0]

\* Mutant: only the pending frames are looked up for duplicates.
NoDeduplication(w, seq) ==
    IF GapExpired(w) THEN "gap_timeout"
    ELSE IF seq \in w.pending THEN "duplicate"
    ELSE IF seq > w.next THEN "buffered"
    ELSE "delivered"

\* What OfferAt(seq) does on an initialised window: "gap_timeout" comes with
\* an error, and nothing of the frame is kept.
OfferResult(w, seq) ==
    IF GapExpired(w) THEN "gap_timeout"
    ELSE IF seq < w.next \/ seq \in w.pending THEN "duplicate"
    ELSE IF seq > w.next THEN "buffered"
    ELSE "delivered"

\* One tick of the clock.
Aged(w) ==
    IF w.gapOpen /\ w.gapAge < GapTimeout
    THEN [w EXCEPT !.gapAge = w.gapAge + 1] ELSE w
=============================================================================
