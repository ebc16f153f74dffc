---------------------------- MODULE StreamProofs ----------------------------
(***************************************************************************)
(* Theorems about one direction of a connection, for every number of       *)
(* frames below the last sequence number, every timeout and every chat.    *)
(* NextExpectedSeq wraps after the last number while the Sequencer stops   *)
(* there, so the theorems are about streams that end before it:            *)
(* Total < MaxSeq.  InOrderOnce fails without: with Total = MaxSeq the     *)
(* window starts again at 1 and hands frame 1 up a second time.            *)
(***************************************************************************)
EXTENDS Stream, SequenceTheorems, TLAPS

\* What the window and the history know of each other.  The history is as long
\* as the window has advanced, and all that waits lies between the window and
\* the sender.
WindowBounds ==
    /\ ~sender.exhausted
    /\ sender.next <= Total + 1
    /\ window.next \in 1 .. sender.next
    /\ chat \subseteq 1 .. sender.next - 1
    /\ window.pending \subseteq window.next + 1 .. sender.next - 1

HistoryMatches ==
    /\ Len(delivered) = window.next - 1
    /\ \A i \in 1 .. Len(delivered) : delivered[i] = i

GapMatches ==
    /\ window.gapOpen <=> window.pending # {}
    /\ window.gapOpen => window.gapAge = quiet

IInv == TypeOK /\ WindowBounds /\ HistoryMatches /\ GapMatches

-----------------------------------------------------------------------------
(***************************************************************************)
(* Lemmas about the window's operators.                                    *)
(***************************************************************************)

\* A run of numbers appended to the history that ends where the run begins.
LEMMA AppendRun ==
    ASSUME NEW d \in Seq(Seqs), NEW a \in Seqs, NEW b \in Seqs, a <= b,
           Len(d) = a - 1, \A i \in 1 .. a - 1 : d[i] = i
    PROVE  /\ d \o Run(a, b) \in Seq(Seqs)
           /\ Len(d \o Run(a, b)) = b
           /\ \A i \in 1 .. b : (d \o Run(a, b))[i] = i
<1> USE RecvWindowAssumption
<1>0. a \in Nat \ {0} /\ b \in Nat /\ a .. b \subseteq Seqs
  BY DEF Seqs
<1> DEFINE n == b - a + 1
           run == Run(a, b)
           e == d \o run
<1>1. n \in Nat
  BY <1>0
<1>2. \A i \in 1 .. n : a + i - 1 \in Seqs
  BY <1>0
<1>3. run \in Seq(Seqs) /\ Len(run) = n
  BY <1>1, <1>2 DEF Run
<1>4. \A i \in 1 .. n : run[i] = a + i - 1
  BY DEF Run
<1> HIDE DEF run
<1>6. /\ e \in Seq(Seqs)
      /\ Len(e) = Len(d) + Len(run)
      /\ \A i \in 1 .. Len(d) + Len(run) :
           e[i] = IF i <= Len(d) THEN d[i] ELSE run[i - Len(d)]
  BY <1>3, ConcatProperties
<1>7. Len(d) + Len(run) = b
  BY <1>0, <1>3
<1> HIDE DEF e
<1>8. ASSUME NEW i \in 1 .. b PROVE e[i] = i
  <2>1. CASE i <= a - 1
    BY <1>0, <1>6, <1>7, <2>1
  <2>2. CASE ~(i <= a - 1)
    <3>1. i - (a - 1) \in 1 .. n
      BY <1>0, <2>2
    <3>2. e[i] = run[i - (a - 1)]
      BY <1>0, <1>6, <1>7, <2>2
    <3>3. run[i - (a - 1)] = a + (i - (a - 1)) - 1
      BY <1>4, <3>1
    <3> QED BY <1>0, <3>2, <3>3
  <2> QED BY <2>1, <2>2
<1> QED BY <1>6, <1>7, <1>8 DEF e, run

-----------------------------------------------------------------------------
(***************************************************************************)
(* The inductive invariant.                                                *)
(***************************************************************************)

LEMMA InitIInv == Total < MaxSeq /\ Init => IInv
  BY RecvWindowAssumption, TotalAssumption
     DEF Init, IInv, TypeOK, WindowBounds, HistoryMatches, GapMatches,
         NewSequencer, Sequencer, NewRecvWindow, Window, Seqs

\* The zero value that init() repairs does not occur below the last number.
LEMMA AlreadyInitialised == IInv => Initialised(window) = window
  BY DEF IInv, WindowBounds, Initialised

\* With the gap flag in step with the pending frames, a check of the window
\* either gives them all up or changes nothing.
LEMMA CheckedWindow ==
    IInv => CheckGapTimeoutAt(window)
              = IF GapExpired(window)
                THEN [next |-> window.next, pending |-> {},
                      gapOpen |-> FALSE, gapAge |-> 0]
                ELSE window
<1> SUFFICES ASSUME IInv, GapExpired(window)
             PROVE  closeGap([window EXCEPT !.pending = {}])
                      = [next |-> window.next, pending |-> {},
                         gapOpen |-> FALSE, gapAge |-> 0]
  BY DEF IInv, GapMatches, CheckGapTimeoutAt, GapExpired
<1>1. window \in Window
  BY DEF IInv, TypeOK
<1>2. [window EXCEPT !.pending = {}]
        = [next |-> window.next, pending |-> {},
           gapOpen |-> window.gapOpen, gapAge |-> window.gapAge]
  BY <1>1 DEF Window
<1> QED BY <1>2 DEF closeGap

\* What every step below needs of the invariant.
LEMMA InvFacts ==
    ASSUME IInv
    PROVE  /\ window \in Window
           /\ window = [next |-> window.next, pending |-> window.pending,
                        gapOpen |-> window.gapOpen, gapAge |-> window.gapAge]
           /\ Initialised(window) = window
           /\ ~GapExpired(window) => CheckGapTimeoutAt(window) = window
           /\ GapExpired(window) => CheckGapTimeoutAt(window)
                                      = [next |-> window.next, pending |-> {},
                                         gapOpen |-> FALSE, gapAge |-> 0]
           /\ sender.next \in Nat \ {0}
           /\ window.next \in Nat \ {0}
           /\ window.next <= sender.next
<1>1. /\ window \in Window
      /\ window = [next |-> window.next, pending |-> window.pending,
                   gapOpen |-> window.gapOpen, gapAge |-> window.gapAge]
  BY DEF IInv, TypeOK, Window
<1>2. /\ sender.next \in Nat \ {0}
      /\ window.next \in Nat \ {0}
      /\ window.next <= sender.next
  BY RecvWindowAssumption DEF IInv, WindowBounds, TypeOK, Sequencer, Seqs
<1> QED BY <1>1, <1>2, AlreadyInitialised, CheckedWindow

\* A frame that arrives in its turn takes the history up to some frame last
\* that was sent, and the window to the number after it.
LEMMA DeliveredStep ==
    ASSUME Total < MaxSeq, IInv, NEW seq \in Seqs, OfferDelivered(seq)
    PROVE  \E last \in seq .. sender.next - 1 :
             /\ last < MaxSeq
             /\ window' = [next    |-> last + 1,
                           pending |-> window.pending \ (1 .. last),
                           gapOpen |-> window.pending \ (1 .. last) # {},
                           gapAge  |-> 0]
             /\ window.pending \ (1 .. last) \subseteq last + 2 .. sender.next - 1
             /\ seq = Len(delivered) + 1
             /\ delivered' \in Seq(Seqs)
             /\ Len(delivered') = last
             /\ \A i \in 1 .. last : delivered'[i] = i
<1> USE RecvWindowAssumption, TotalAssumption
<1>a. seq = window.next /\ seq \in chat /\ ~GapExpired(window)
  BY InvFacts DEF OfferDelivered, OfferResult, Window, Seqs
<1>b. PICK last \in Seqs :
        /\ Completes(window, seq, last)
        /\ window' = Advanced(window, last)
        /\ delivered' = delivered \o Run(seq, last)
  BY <1>a, InvFacts DEF OfferDelivered
<1> DEFINE rest == window.pending \ (1 .. last)
<1>1. last \in seq .. sender.next - 1
  <2>1. last = seq \/ last \in window.pending
    BY <1>b DEF Completes, Seqs
  <2> QED
    BY <1>a, <1>b, <2>1 DEF Completes, IInv, WindowBounds, TypeOK, Sequencer, Seqs
<1>2. last < MaxSeq
  BY <1>1 DEF IInv, WindowBounds, TypeOK, Sequencer, Seqs
<1>3. window' = [next |-> last + 1, pending |-> rest,
                 gapOpen |-> rest # {}, gapAge |-> 0]
  <2>1. Succ(last) = last + 1
    BY <1>2 DEF Succ
  <2> QED BY <1>b, <1>2, <2>1 DEF Advanced, Seqs
<1>4. rest \subseteq last + 2 .. sender.next - 1
  <2> SUFFICES ASSUME NEW k \in rest PROVE k \in last + 2 .. sender.next - 1
    OBVIOUS
  <2>1. /\ k \in window.next + 1 .. sender.next - 1
        /\ k \notin 1 .. last
        /\ last + 1 \notin window.pending
    BY <1>b DEF Completes, IInv, WindowBounds
  <2>2. sender.next \in Nat /\ window.next \in Nat
    BY InvFacts
  <2> QED BY <2>1, <2>2 DEF Seqs
<1>5. /\ delivered \in Seq(Seqs)
      /\ Len(delivered) = seq - 1
      /\ \A i \in 1 .. seq - 1 : delivered[i] = i
  BY <1>a DEF IInv, TypeOK, HistoryMatches
<1>6. seq <= last
  BY <1>1, InvFacts DEF Seqs
<1>7. /\ delivered' \in Seq(Seqs)
      /\ Len(delivered') = last
      /\ \A i \in 1 .. last : delivered'[i] = i
  <2>1. delivered' = delivered \o Run(seq, last)
    BY <1>b
  <2> HIDE DEF rest
  <2> QED BY <1>5, <1>6, <2>1, AppendRun
<1>8. seq = Len(delivered) + 1
  BY <1>5 DEF Seqs
<1> QED BY <1>1, <1>2, <1>3, <1>4, <1>7, <1>8

LEMMA NextIInv == Total < MaxSeq /\ IInv /\ [Next]_vars => IInv'
<1> SUFFICES ASSUME Total < MaxSeq, IInv, [Next]_vars PROVE IInv'
  OBVIOUS
<1> USE RecvWindowAssumption, TotalAssumption
<1>a. /\ window \in Window
      /\ window = [next |-> window.next, pending |-> window.pending,
                   gapOpen |-> window.gapOpen, gapAge |-> window.gapAge]
  BY InvFacts
<1>b. /\ Initialised(window) = window
      /\ ~GapExpired(window) => CheckGapTimeoutAt(window) = window
      /\ GapExpired(window) => CheckGapTimeoutAt(window)
                                 = [next |-> window.next, pending |-> {},
                                    gapOpen |-> FALSE, gapAge |-> 0]
  BY InvFacts
<1>c. /\ sender.next \in Nat \ {0}
      /\ window.next \in Nat \ {0}
      /\ window.next <= sender.next
  BY InvFacts
<1>1. CASE SendFrame
  <2>1. sender' = [next |-> sender.next + 1, exhausted |-> FALSE]
    <3>1. sender \in Sequencer /\ ~sender.exhausted
      BY DEF IInv, WindowBounds, TypeOK
    <3>2. sender' = [sender EXCEPT !.next = sender.next + 1]
      BY <1>1 DEF IInv, WindowBounds, TypeOK, Sequencer, Seqs, SendFrame, NextSeq, Sent
    <3> QED BY <3>1, <3>2 DEF Sequencer
  <2>2. sender.next \in 1 .. Total
    BY <1>1 DEF IInv, WindowBounds, TypeOK, Sequencer, Seqs, SendFrame, Sent
  <2>3. TypeOK'
    <3>1. sender' \in Sequencer
      BY <2>1, <2>2 DEF Sequencer, Seqs
    <3>2. chat' \subseteq Seqs
      <4>1. chat' = chat \union {sender.next} /\ chat \subseteq Seqs
        BY <1>1 DEF IInv, TypeOK, SendFrame
      <4>2. sender.next \in Seqs
        BY <2>2 DEF Seqs
      <4> QED BY <4>1, <4>2
    <3> QED BY <1>1, <3>1, <3>2 DEF IInv, TypeOK, SendFrame
  <2>4. WindowBounds'
    <3>1. /\ sender'.next = sender.next + 1
          /\ sender.next \in Nat
          /\ chat' = chat \union {sender.next}
          /\ window' = window
      BY <1>1, <2>1, <2>2 DEF SendFrame
    <3>2. chat' \subseteq 1 .. sender'.next - 1
      <4>1. chat \subseteq 1 .. sender.next - 1
        BY DEF IInv, WindowBounds
      <4>2. chat \subseteq 1 .. sender'.next - 1
        BY <3>1, <4>1
      <4>3. sender.next \in 1 .. sender'.next - 1
        BY <2>2, <3>1
      <4> QED BY <3>1, <4>2, <4>3
    <3>3. window'.pending \subseteq window'.next + 1 .. sender'.next - 1
      BY <2>2, <3>1, <1>a DEF IInv, WindowBounds, Window
    <3>4. window'.next \in 1 .. sender'.next /\ sender'.next <= Total + 1 /\ ~sender'.exhausted
      BY <2>1, <2>2, <3>1 DEF IInv, WindowBounds
    <3> QED BY <3>2, <3>3, <3>4 DEF WindowBounds
  <2>5. HistoryMatches' /\ GapMatches'
    BY <1>1 DEF IInv, HistoryMatches, GapMatches, SendFrame
  <2> QED BY <2>3, <2>4, <2>5 DEF IInv
<1>2. ASSUME NEW seq \in Seqs, OfferTimedOut(seq) PROVE IInv'
  <2>1. window' = [next |-> window.next, pending |-> {}, gapOpen |-> FALSE, gapAge |-> 0]
    BY <1>2, <1>b DEF OfferTimedOut, OfferResult
  <2>2. TypeOK'
    BY <1>2, <1>a, <2>1 DEF IInv, TypeOK, Window, Seqs, OfferTimedOut
  <2>3. WindowBounds' /\ HistoryMatches' /\ GapMatches'
    BY <1>2, <2>1 DEF IInv, WindowBounds, HistoryMatches, GapMatches, OfferTimedOut
  <2> QED BY <2>2, <2>3 DEF IInv
<1>3. ASSUME NEW seq \in Seqs, OfferDuplicate(seq) PROVE IInv'
  <2>1. UNCHANGED vars
    BY <1>3, <1>b DEF OfferDuplicate, OfferResult, vars
  <2> QED
    BY <2>1 DEF vars, IInv, TypeOK, WindowBounds, HistoryMatches, GapMatches
<1>4. ASSUME NEW seq \in Seqs, OfferBuffered(seq) PROVE IInv'
  <2>1. /\ seq \in chat /\ seq > window.next
        /\ window' = Buffered(window, seq)
    BY <1>4, <1>a, <1>b DEF OfferBuffered, OfferResult, Window, Seqs
  <2>2. window' = [next |-> window.next, pending |-> window.pending \union {seq},
                   gapOpen |-> TRUE,
                   gapAge |-> IF window.gapOpen THEN window.gapAge ELSE 0]
    BY <2>1, <1>a DEF Buffered
  <2>3. TypeOK'
    BY <1>4, <1>a, <2>2 DEF IInv, TypeOK, Window, Seqs, OfferBuffered
  <2>4. WindowBounds'
    BY <1>4, <1>a, <2>1, <2>2 DEF IInv, TypeOK, Sequencer, Window, Seqs, WindowBounds, OfferBuffered
  <2>5. HistoryMatches'
    BY <1>4, <2>2 DEF IInv, HistoryMatches, OfferBuffered
  <2>6. GapMatches'
    BY <1>4, <2>2 DEF IInv, GapMatches, OfferBuffered
  <2> QED BY <2>3, <2>4, <2>5, <2>6 DEF IInv
<1>5. ASSUME NEW seq \in Seqs, OfferDelivered(seq) PROVE IInv'
  <2>1. PICK last \in seq .. sender.next - 1 :
          /\ last < MaxSeq
          /\ window' = [next    |-> last + 1,
                        pending |-> window.pending \ (1 .. last),
                        gapOpen |-> window.pending \ (1 .. last) # {},
                        gapAge  |-> 0]
          /\ window.pending \ (1 .. last) \subseteq last + 2 .. sender.next - 1
          /\ delivered' \in Seq(Seqs)
          /\ Len(delivered') = last
          /\ \A i \in 1 .. last : delivered'[i] = i
    BY <1>5, DeliveredStep
  <2> DEFINE rest == window.pending \ (1 .. last)
  <2>2. last \in Seqs /\ last + 1 \in 0 .. MaxSeq
    BY <2>1, <1>c DEF Seqs
  <2>3. TypeOK'
    <3>1. rest \subseteq Seqs
      BY <1>a DEF Window
    <3>2. window' = [next |-> last + 1, pending |-> rest,
                     gapOpen |-> rest # {}, gapAge |-> 0]
      BY <2>1
    <3> HIDE DEF rest
    <3>3. window' \in Window
      BY <2>2, <3>1, <3>2 DEF Window
    <3>4. quiet' \in 0 .. GapTimeout
      BY <1>5 DEF IInv, TypeOK, OfferDelivered
    <3> QED BY <1>5, <2>1, <3>3, <3>4 DEF IInv, TypeOK, OfferDelivered
  <2>4. WindowBounds'
    <3>1. /\ window'.next = last + 1 /\ window'.pending = rest
          /\ rest \subseteq last + 2 .. sender.next - 1
          /\ UNCHANGED <<sender, chat>>
      BY <1>5, <2>1 DEF OfferDelivered
    <3> HIDE DEF rest
    <3>2. window'.next \in 1 .. sender.next
      BY <1>c, <2>1, <2>2, <3>1 DEF Seqs
    <3>3. window'.pending \subseteq window'.next + 1 .. sender.next - 1
      BY <2>2, <3>1 DEF Seqs
    <3> QED BY <3>1, <3>2, <3>3 DEF IInv, WindowBounds
  <2>5. HistoryMatches'
    BY <2>1, <2>2 DEF HistoryMatches, Seqs
  <2>6. GapMatches'
    BY <1>5, <2>1 DEF GapMatches, OfferDelivered
  <2> QED BY <2>3, <2>4, <2>5, <2>6 DEF IInv
<1>6. CASE Tick
  <2>1. CASE GapExpired(window)
    <3>1. window' = [next |-> window.next, pending |-> {}, gapOpen |-> FALSE, gapAge |-> 0]
      BY <1>6, <1>b, <2>1 DEF Tick
    <3>2. TypeOK'
      BY <1>6, <1>a, <2>1, <3>1 DEF IInv, TypeOK, Window, Seqs, Tick
    <3>3. WindowBounds' /\ HistoryMatches' /\ GapMatches'
      BY <1>6, <3>1 DEF IInv, WindowBounds, HistoryMatches, GapMatches, Tick
    <3> QED BY <3>2, <3>3 DEF IInv
  <2>2. CASE ~GapExpired(window)
    <3>1. UNCHANGED <<sender, chat, window, delivered, quiet>>
      BY <1>6, <1>b, <2>2 DEF Tick
    <3>2. TypeOK'
      BY <1>6, <2>2, <3>1 DEF IInv, TypeOK, Tick
    <3>3. WindowBounds' /\ HistoryMatches' /\ GapMatches'
      BY <3>1 DEF IInv, WindowBounds, HistoryMatches, GapMatches
    <3> QED BY <3>2, <3>3 DEF IInv
  <2> QED BY <2>1, <2>2
<1>7. ASSUME NEW seq \in Seqs, Lose(seq) PROVE IInv'
  BY <1>7 DEF Lose, IInv, TypeOK, WindowBounds, HistoryMatches, GapMatches
<1>8. CASE Elapse
  <2>1. window' = [next |-> window.next, pending |-> window.pending,
                   gapOpen |-> window.gapOpen,
                   gapAge |-> IF window.gapOpen THEN Later(window.gapAge)
                                                ELSE window.gapAge]
    BY <1>8, <1>a DEF Elapse, Aged, Later
  <2>2. \A age \in 0 .. GapTimeout : Later(age) \in 0 .. GapTimeout
    BY DEF Later
  <2>3. TypeOK'
    <3>1. window' \in Window
      BY <1>a, <2>1, <2>2 DEF Window
    <3>2. quiet' \in 0 .. GapTimeout
      BY <1>8, <2>2 DEF IInv, TypeOK, Elapse
    <3> QED BY <1>8, <3>1, <3>2 DEF IInv, TypeOK, Elapse
  <2>4. WindowBounds' /\ HistoryMatches'
    BY <1>8, <2>1 DEF IInv, WindowBounds, HistoryMatches, Elapse
  <2>5. GapMatches'
    BY <1>8, <2>1 DEF IInv, GapMatches, Elapse
  <2> QED BY <2>3, <2>4, <2>5 DEF IInv
<1>9. CASE UNCHANGED vars
  BY <1>9 DEF vars, IInv, TypeOK, WindowBounds, HistoryMatches, GapMatches
<1> QED
  BY <1>1, <1>2, <1>3, <1>4, <1>5, <1>6, <1>7, <1>8, <1>9 DEF Next, Offer

LEMMA SpecIInv == ASSUME Total < MaxSeq PROVE Spec => []IInv
<1>1. Init => IInv
  BY InitIInv
<1>2. IInv /\ [Next]_vars => IInv'
  BY NextIInv
<1> QED BY <1>1, <1>2, PTL DEF Spec

-----------------------------------------------------------------------------
\* Every variable keeps its type: in particular the window never holds a
\* number that the Sequencer cannot give.
THEOREM TypeCorrect == ASSUME Total < MaxSeq PROVE Spec => []TypeOK
<1>1. IInv => TypeOK
  BY DEF IInv
<1> QED BY <1>1, SpecIInv, PTL

\* Frames are handed up in the order they were numbered, each at most once,
\* whatever the chat loses, repeats or reorders (RecvWindow.OfferAt).
THEOREM InOrder == ASSUME Total < MaxSeq PROVE Spec => []InOrderOnce
<1>1. IInv => InOrderOnce
  BY TotalAssumption, RecvWindowAssumption
     DEF IInv, TypeOK, Sequencer, Window, Seqs, WindowBounds, HistoryMatches,
         InOrderOnce, Sent
<1> QED BY <1>1, SpecIInv, PTL

\* The gap timer runs exactly while frames wait behind a missing one
\* (closeGap and the assignments to GapOpen in OfferAt).
THEOREM GapTimerRuns == ASSUME Total < MaxSeq PROVE Spec => []GapIffPending
<1>1. IInv => GapIffPending
  <2> SUFFICES ASSUME IInv, NEW seq \in window.pending
               PROVE  window.next < seq /\ seq <= Sent
    BY DEF IInv, GapMatches, GapIffPending
  <2>1. seq \in window.next + 1 .. sender.next - 1 /\ ~sender.exhausted
    BY DEF IInv, WindowBounds
  <2>2. sender.next \in Nat /\ window.next \in Nat
    BY TotalAssumption, RecvWindowAssumption
       DEF IInv, TypeOK, Sequencer, Window, Seqs
  <2> QED BY <2>1, <2>2 DEF Sent
<1> QED BY <1>1, SpecIInv, PTL

\* A connection fails for a gap only after GapTimeout ticks without progress:
\* the age that CheckGapTimeoutAt compares is the time without progress.
THEOREM GapTimerQuiet == ASSUME Total < MaxSeq PROVE Spec => []GapTimerMeasuresQuiet
<1>1. IInv => GapTimerMeasuresQuiet
  BY DEF IInv, GapMatches, GapTimerMeasuresQuiet
<1> QED BY <1>1, SpecIInv, PTL

-----------------------------------------------------------------------------
(***************************************************************************)
(* Sequencer, chat and window together implement the abstract stream.      *)
(***************************************************************************)
LEMMA InitRefines == Init => Ordered!Init
  BY RecvWindowAssumption
     DEF Init, Ordered!Init, Sent, NewSequencer

\* Only SendFrame and OfferDelivered are steps of the abstract stream; all
\* other steps leave the numbered and the delivered frames as they are.
LEMMA NextRefines ==
    Total < MaxSeq /\ IInv /\ IInv' /\ [Next]_vars
      => [Ordered!Next]_<<Sent, delivered>>
<1> SUFFICES ASSUME Total < MaxSeq, IInv, IInv', [Next]_vars
             PROVE  [Ordered!Next]_<<Sent, delivered>>
  OBVIOUS
<1> USE RecvWindowAssumption, TotalAssumption
<1>1. /\ Sent = sender.next - 1 /\ Sent' = sender'.next - 1
      /\ sender.next \in Nat /\ sender'.next \in Nat
  BY DEF IInv, WindowBounds, TypeOK, Sequencer, Seqs, Sent
<1>2. CASE SendFrame
  <2>1. sender'.next = sender.next + 1
    <3>1. sender' = [sender EXCEPT !.next = sender.next + 1] /\ sender \in Sequencer
      BY <1>2 DEF SendFrame, NextSeq, IInv, WindowBounds, TypeOK, Sent
    <3> QED BY <3>1 DEF Sequencer
  <2>2. Sent' = Sent + 1
    BY <1>1, <2>1
  <2> QED BY <1>2, <2>2 DEF SendFrame, Ordered!Next, Ordered!Accept
<1>3. ASSUME NEW seq \in Seqs, OfferDelivered(seq)
      PROVE  Ordered!Next
  <2>1. PICK last \in seq .. sender.next - 1 :
          /\ seq = Len(delivered) + 1
          /\ delivered' \in Seq(Seqs)
          /\ Len(delivered') = last
          /\ \A i \in 1 .. last : delivered'[i] = i
    BY <1>3, DeliveredStep
  <2>2. delivered' = [i \in 1 .. last |-> i]
    BY <2>1
  <2>3. UNCHANGED Sent
    BY <1>1, <1>3 DEF OfferDelivered
  <2>4. last \in (Len(delivered) + 1) .. Sent
    BY <1>1, <2>1 DEF Seqs
  <2> QED BY <2>2, <2>3, <2>4 DEF Ordered!Next, Ordered!HandUp
<1>4. ASSUME \/ \E seq \in Seqs : \/ OfferTimedOut(seq) \/ OfferDuplicate(seq)
                                  \/ OfferBuffered(seq) \/ Lose(seq)
             \/ Tick \/ Elapse \/ UNCHANGED vars
      PROVE  UNCHANGED <<Sent, delivered>>
  BY <1>1, <1>4 DEF OfferTimedOut, OfferDuplicate, OfferBuffered, Lose, Tick,
                    Elapse, vars
<1> QED BY <1>2, <1>3, <1>4 DEF Next, Offer

\* One direction of a connection implements the ordered stream: the abstract
\* specification of internal/protocol's Sequencer and RecvWindow.
THEOREM StreamRefinesOrderedStream ==
    ASSUME Total < MaxSeq PROVE Spec => ImplementsOrderedStream
<1>1. Init => Ordered!Init
  BY InitRefines
<1>2. IInv /\ IInv' /\ [Next]_vars => [Ordered!Next]_<<Sent, delivered>>
  BY NextRefines
<1>3. Spec => []IInv
  BY SpecIInv
<1> QED BY <1>1, <1>2, <1>3, PTL
        DEF Spec, ImplementsOrderedStream, Ordered!Spec
=============================================================================
