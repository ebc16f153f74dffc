--------------------------- MODULE OutboundProofs ---------------------------
(***************************************************************************)
(* Theorems about the queue of one chat, for any number of connections and *)
(* of callers of OpenRoot, any cooldown, heartbeat interval and request    *)
(* limit, and however often a send fails.                                  *)
(***************************************************************************)
EXTENDS Outbound, FiniteSetTheorems, SequenceTheorems, TLAPS

\* The numbers a connection has given.
Given(c) == 1 .. nextSeq[c] - 1

\* No number twice.
Distinct(s) == \A i, k \in 1 .. Len(s) : s[i].seq = s[k].seq => i = k

Disjoint(s, t) == SeqsOf(s) \intersect SeqsOf(t) = {}

\* The queue of a connection and its batches, which go on when it has gone.
QueueInv(c) ==
    /\ Distinct(frames[c])
    /\ SeqsOf(frames[c]) \subseteq Given(c)
    /\ posted[c] \subseteq Given(c)
    /\ IsFiniteSet(BatchesOf(c))
    /\ \A b \in BatchesOf(c) :
           /\ b.frames # << >> /\ Distinct(b.frames)
           /\ SeqsOf(b.frames) \subseteq Given(c)
           /\ Disjoint(b.frames, frames[c])
           /\ b.posted => SeqsOf(b.frames) \subseteq posted[c]
    /\ \A a, b \in BatchesOf(c) : a # b => Disjoint(a.frames, b.frames)

\* What the life of a connection says of its queue.
LifeInv(c) ==
    /\ state[c] = "new" => nextSeq[c] = 1
    /\ state[c] # "open" => frames[c] = << >> /\ inFlight[c] = 0
    /\ state[c] = "open" =>
           /\ inFlight[c] = Cardinality(BatchesOf(c))
           /\ Given(c) \subseteq SeqsOf(frames[c]) \union Flying(c) \union posted[c]
    /\ outcome[c] # "none" => state[c] = "gone"
    /\ outcome[c] = "drained" => posted[c] = Given(c)

ConnInv(c) == QueueInv(c) /\ LifeInv(c)

\* The plan and the timer of run() keep the cooldown, and run() flushes only
\* after it.
CooldownHolds ==
    /\ flushIn # NoFlush => cooling <= flushIn
    /\ pc = "armed" => cooling <= timer
    /\ pc = "flush" => cooling = 0

PlanInv == NoLostWakeup /\ CooldownHolds

\* The type invariant in three parts: connections, root jobs, plan.
ConnTypes ==
    /\ state \in [Conns -> {"new", "open", "gone"}]
    /\ nextSeq \in [Conns -> 1 .. MaxFrames + 1]
    /\ frames \in [Conns -> Seq(Frame)]
    /\ closing \in [Conns -> BOOLEAN]
    /\ inFlight \in [Conns -> Nat]
    /\ hbIn \in [Conns -> 0 .. Interval]
    /\ batches \subseteq [conn : Conns, frames : Seq(Frame), posted : BOOLEAN, lost : BOOLEAN]
    /\ posted \in [Conns -> SUBSET (1 .. MaxFrames)]
    /\ outcome \in [Conns -> {"none", "drained", "dropped", "removed"}]

JobTypes ==
    /\ job \in [Jobs -> [state : {"new", "answered", "returned"} \union InMap,
                         huge : BOOLEAN, age : 0 .. MaxAge,
                         result : {"none", "ok", "error", "too_large", "canceled"}]]
    /\ rootSend \in [Jobs -> {"none", "sending", "posted", "lost"}]
    /\ failures \in 0 .. MaxFailures

PlanTypes ==
    /\ cooling \in 0 .. Cooldown
    /\ flushIn \in Nat \union {NoFlush}
    /\ pc \in {"check", "idle", "armed", "flush"}
    /\ timer \in Nat
    /\ resched \in BOOLEAN

LEMMA TypeParts ==
    /\ TypeOK <=> ConnTypes /\ JobTypes /\ PlanTypes
    /\ TypeOK' <=> ConnTypes' /\ JobTypes' /\ PlanTypes'
  BY DEF TypeOK, ConnTypes, JobTypes, PlanTypes

QueuesInv == TypeOK /\ \A c \in Conns : ConnInv(c)

-----------------------------------------------------------------------------
(***************************************************************************)
(* Lemmas about the sequences of frames.                                   *)
(***************************************************************************)

\* popReplyBatchLocked cuts a queue in two.
LEMMA PrefixSuffix ==
    ASSUME NEW s \in Seq(Frame), NEW k \in 1 .. Len(s)
    PROVE  LET p == SubSeq(s, 1, k)
               q == SubSeq(s, k + 1, Len(s))
           IN  /\ p \in Seq(Frame) /\ p # << >> /\ q \in Seq(Frame)
               /\ SeqsOf(s) = SeqsOf(p) \union SeqsOf(q)
               /\ Distinct(s) => Distinct(p) /\ Distinct(q) /\ Disjoint(p, q)
<1> DEFINE p == SubSeq(s, 1, k)
           q == SubSeq(s, k + 1, Len(s))
<1>0. Len(s) \in Nat /\ k \in Nat /\ k <= Len(s) /\ \A i \in 1 .. Len(s) : s[i] \in Frame
  OBVIOUS
<1>1. /\ p \in Seq(Frame) /\ Len(p) = k
      /\ \A i \in 1 .. k : p[i] = s[i]
  <2>1. \A i \in 1 .. k : s[i] \in Frame
    BY <1>0
  <2> QED BY <1>0, <2>1, SubSeqProperties
<1>2. /\ q \in Seq(Frame) /\ Len(q) = Len(s) - k
      /\ \A i \in 1 .. Len(s) - k : q[i] = s[k + i]
  <2>1. \A i \in k + 1 .. Len(s) : s[i] \in Frame
    BY <1>0
  <2>2. /\ q \in Seq(Frame)
        /\ Len(q) = IF k + 1 <= Len(s) THEN Len(s) - (k + 1) + 1 ELSE 0
        /\ \A i \in 1 .. Len(s) - (k + 1) + 1 : q[i] = s[k + 1 + i - 1]
    BY <1>0, <2>1, SubSeqProperties
  <2> HIDE DEF q
  <2> QED BY <1>0, <2>2
<1> HIDE DEF p, q
<1>3. p # << >>
  BY <1>0, <1>1
<1>4. SeqsOf(s) = SeqsOf(p) \union SeqsOf(q)
  <2>1. ASSUME NEW n \in SeqsOf(s) PROVE n \in SeqsOf(p) \union SeqsOf(q)
    <3>1. PICK i \in 1 .. Len(s) : n = s[i].seq
      BY DEF SeqsOf
    <3>2. CASE i <= k
      BY <1>0, <1>1, <3>1, <3>2 DEF SeqsOf
    <3>3. CASE ~(i <= k)
      <4>1. i - k \in 1 .. Len(s) - k /\ k + (i - k) = i
        BY <1>0, <3>3
      <4> QED BY <1>2, <3>1, <4>1 DEF SeqsOf
    <3> QED BY <3>2, <3>3
  <2>2. SeqsOf(p) \subseteq SeqsOf(s)
    BY <1>0, <1>1 DEF SeqsOf
  <2>3. SeqsOf(q) \subseteq SeqsOf(s)
    <3>1. \A i \in 1 .. Len(s) - k : k + i \in 1 .. Len(s)
      BY <1>0
    <3> QED BY <1>2, <3>1 DEF SeqsOf
  <2> QED BY <2>1, <2>2, <2>3
<1>5. ASSUME Distinct(s) PROVE Distinct(p) /\ Distinct(q) /\ Disjoint(p, q)
  <2>1. Distinct(p)
    BY <1>0, <1>1, <1>5 DEF Distinct
  <2>2. \A i \in 1 .. Len(s) - k : k + i \in 1 .. Len(s) /\ k + i \notin 1 .. k
    BY <1>0
  <2>3. Distinct(q)
    <3> SUFFICES ASSUME NEW i \in 1 .. Len(q), NEW j \in 1 .. Len(q), q[i].seq = q[j].seq
                 PROVE  i = j
      BY DEF Distinct
    <3>1. k + i = k + j
      BY <1>2, <1>5, <2>2 DEF Distinct
    <3> QED BY <1>0, <1>2, <3>1
  <2>4. Disjoint(p, q)
    <3> SUFFICES ASSUME NEW i \in 1 .. Len(p), NEW j \in 1 .. Len(q), p[i].seq = q[j].seq
                 PROVE  FALSE
      BY DEF Disjoint, SeqsOf
    <3>1. i \in 1 .. Len(s) /\ s[i].seq = s[k + j].seq
      BY <1>0, <1>1, <1>2
    <3>2. i = k + j
      BY <1>2, <1>5, <2>2, <3>1 DEF Distinct
    <3> QED BY <1>0, <1>1, <1>2, <3>2
  <2> QED BY <2>1, <2>3, <2>4
<1> QED BY <1>1, <1>2, <1>3, <1>4, <1>5 DEF p, q

\* A batch that failed goes back to the head of the queue.
LEMMA PutBack ==
    ASSUME NEW s \in Seq(Frame), NEW t \in Seq(Frame)
    PROVE  /\ s \o t \in Seq(Frame)
           /\ SeqsOf(s \o t) = SeqsOf(s) \union SeqsOf(t)
           /\ Distinct(s) /\ Distinct(t) /\ Disjoint(s, t) => Distinct(s \o t)
<1> DEFINE u == s \o t
           m == Len(s)
<1>1. /\ u \in Seq(Frame) /\ Len(u) = m + Len(t) /\ m \in Nat /\ Len(t) \in Nat
      /\ \A i \in 1 .. m + Len(t) : u[i] = IF i <= m THEN s[i] ELSE t[i - m]
  BY ConcatProperties
<1> HIDE DEF u, m
<1>2. \A i \in 1 .. m : i \in 1 .. Len(u) /\ u[i] = s[i]
  BY <1>1
<1>3. \A i \in 1 .. Len(t) : m + i \in 1 .. Len(u) /\ u[m + i] = t[i]
  <2> SUFFICES ASSUME NEW i \in 1 .. Len(t) PROVE m + i \in 1 .. Len(u) /\ u[m + i] = t[i]
    OBVIOUS
  <2>1. m + i \in 1 .. m + Len(t) /\ ~(m + i <= m) /\ (m + i) - m = i
    BY <1>1
  <2> QED BY <1>1, <2>1
<1>4. \A i \in 1 .. Len(u) : i \in 1 .. m \/ \E j \in 1 .. Len(t) : i = m + j
  <2> SUFFICES ASSUME NEW i \in 1 .. Len(u), i \notin 1 .. m
               PROVE  \E j \in 1 .. Len(t) : i = m + j
    OBVIOUS
  <2>1. i - m \in 1 .. Len(t) /\ i = m + (i - m)
    BY <1>1
  <2> QED BY <2>1
<1>5. SeqsOf(u) = SeqsOf(s) \union SeqsOf(t)
  <2>1. SeqsOf(s) = {s[i].seq : i \in 1 .. m}
    BY DEF SeqsOf, m
  <2>2. SeqsOf(t) = {t[i].seq : i \in 1 .. Len(t)} /\ SeqsOf(u) = {u[i].seq : i \in 1 .. Len(u)}
    BY DEF SeqsOf
  <2>3. SeqsOf(s) \subseteq SeqsOf(u) /\ SeqsOf(t) \subseteq SeqsOf(u)
    BY <1>2, <1>3, <2>1, <2>2
  <2>4. ASSUME NEW n \in SeqsOf(u) PROVE n \in SeqsOf(s) \union SeqsOf(t)
    <3>1. PICK i \in 1 .. Len(u) : n = u[i].seq
      BY <2>2
    <3> QED BY <1>2, <1>3, <1>4, <2>1, <2>2, <3>1
  <2> QED BY <2>3, <2>4
<1>6. ASSUME Distinct(s), Distinct(t), Disjoint(s, t) PROVE Distinct(u)
  <2> SUFFICES ASSUME NEW i \in 1 .. Len(u), NEW j \in 1 .. Len(u), u[i].seq = u[j].seq
               PROVE  i = j
    BY DEF Distinct
  <2>1. CASE i \in 1 .. m /\ j \in 1 .. m
    BY <1>2, <1>6, <2>1 DEF Distinct, m
  <2>2. ASSUME NEW x \in 1 .. Len(t), NEW y \in 1 .. Len(t), i = m + x, j = m + y PROVE i = j
    BY <1>3, <1>6, <2>2 DEF Distinct
  <2>3. ASSUME NEW x \in 1 .. m, NEW y \in 1 .. Len(t), u[x].seq = u[m + y].seq PROVE FALSE
    <3>1. s[x].seq = t[y].seq /\ x \in 1 .. Len(s)
      BY <1>2, <1>3, <2>3 DEF m
    <3>2. s[x].seq \in SeqsOf(s) /\ t[y].seq \in SeqsOf(t)
      BY <3>1 DEF SeqsOf
    <3> QED BY <1>6, <3>1, <3>2 DEF Disjoint
  <2> QED BY <1>4, <2>1, <2>2, <2>3
<1> QED BY <1>1, <1>5, <1>6 DEF u

LEMMA OneFrame ==
    ASSUME NEW f \in Frame
    PROVE  /\ <<f>> \in Seq(Frame) /\ SeqsOf(<<f>>) = {f.seq} /\ Distinct(<<f>>)
  BY DEF SeqsOf, Distinct

LEMMA NoFrames == << >> \in Seq(Frame) /\ SeqsOf(<< >>) = {} /\ Distinct(<< >>)
  BY DEF SeqsOf, Distinct

LEMMA SomeFrame == ASSUME NEW s \in Seq(Frame), s # << >> PROVE SeqsOf(s) # {}
<1>1. 1 \in 1 .. Len(s)
  BY EmptySeq
<1> QED BY <1>1 DEF SeqsOf

LEMMA EmptyLen == \A s \in Seq(Frame) : s = << >> <=> Len(s) = 0
  BY EmptySeq

\* Frames grow older where they are.
LEMMA AgedFrames ==
    ASSUME NEW s \in Seq(Frame)
    PROVE  /\ Aged(s) \in Seq(Frame) /\ SeqsOf(Aged(s)) = SeqsOf(s)
           /\ Distinct(s) => Distinct(Aged(s))
           /\ Aged(s) = << >> <=> s = << >>
<1>1. Len(s) \in Nat /\ \A i \in 1 .. Len(s) : s[i] \in Frame
  OBVIOUS
<1> DEFINE old(f) == [f EXCEPT !.age = Older(f.age)]
<1>2. ASSUME NEW f \in Frame PROVE old(f) \in Frame /\ old(f).seq = f.seq
  <2>1. Older(f.age) \in 0 .. MaxAge
    BY OutboundAssumption DEF OutboundAssumption, Frame, Older
  <2> QED BY <2>1 DEF Frame
<1>a. Aged(s) = [i \in 1 .. Len(s) |-> old(s[i])]
  BY DEF Aged
<1> HIDE DEF old
<1>3. /\ Aged(s) \in Seq(Frame) /\ Len(Aged(s)) = Len(s)
      /\ \A i \in 1 .. Len(s) : Aged(s)[i].seq = s[i].seq
  BY <1>1, <1>2, <1>a
<1>4. Aged(s) = << >> <=> s = << >>
  BY <1>3, EmptyLen
<1>5. SeqsOf(Aged(s)) = SeqsOf(s)
  BY <1>3 DEF SeqsOf
<1>6. Distinct(s) => Distinct(Aged(s))
  BY <1>3 DEF Distinct
<1> QED BY <1>3, <1>4, <1>5, <1>6

-----------------------------------------------------------------------------
(***************************************************************************)
(* What a step on one connection does to the queues.                       *)
(***************************************************************************)

\* Nothing happens to a connection.
Keeps(d) ==
    /\ state'[d] = state[d] /\ nextSeq'[d] = nextSeq[d] /\ frames'[d] = frames[d]
    /\ inFlight'[d] = inFlight[d] /\ outcome'[d] = outcome[d] /\ posted'[d] = posted[d]
    /\ BatchesOf(d)' = BatchesOf(d)

LEMMA KeepsInv == ASSUME NEW d, ConnInv(d), Keeps(d) PROVE ConnInv(d)'
  BY DEF ConnInv, QueueInv, LifeInv, Keeps, Given, Flying

\* The numbers of a batch that is taken out of the others fly no more.
LEMMA FlyingSplit ==
    ASSUME NEW c, NEW b \in BatchesOf(c)
    PROVE  Flying(c) = SeqsOf(b.frames) \union UNION {SeqsOf(a.frames) : a \in BatchesOf(c) \ {b}}
  BY DEF Flying

\* A batch leaves: the queue loses nothing but its numbers, the counter is
\* right when it is decremented.
LEMMA BatchLeaves ==
    ASSUME NEW c \in Conns, TypeOK, ConnInv(c), NEW b \in BatchesOf(c),
           BatchesOf(c)' = BatchesOf(c) \ {b}
    PROVE  /\ IsFiniteSet(BatchesOf(c)')
           /\ Cardinality(BatchesOf(c)') = Cardinality(BatchesOf(c)) - 1
           /\ Cardinality(BatchesOf(c)) \in Nat \ {0}
           /\ Flying(c) = SeqsOf(b.frames) \union Flying(c)'
<1>1. IsFiniteSet(BatchesOf(c))
  BY DEF ConnInv, QueueInv
<1>2. IsFiniteSet(BatchesOf(c)') /\ Cardinality(BatchesOf(c)') = Cardinality(BatchesOf(c)) - 1
  BY <1>1, FS_RemoveElement
<1>3. Cardinality(BatchesOf(c)) \in Nat /\ Cardinality(BatchesOf(c)) # 0
  BY <1>1, FS_CardinalityType, FS_EmptySet
<1>4. Flying(c) = SeqsOf(b.frames) \union Flying(c)'
  BY FlyingSplit DEF Flying
<1> QED BY <1>2, <1>3, <1>4

\* popReplyBatchLocked, with the heartbeat or without it.
LEMMA PopInv ==
    ASSUME NEW c \in Conns, TypeOK, ConnInv(c), state[c] = "open",
           NEW queue \in Seq(Frame), Distinct(queue),
           nextSeq' \in [Conns -> Nat], nextSeq'[c] >= nextSeq[c],
           SeqsOf(queue) \subseteq Given(c)',
           \A b \in BatchesOf(c) : Disjoint(b.frames, queue),
           Given(c)' \subseteq SeqsOf(queue) \union Flying(c) \union posted[c],
           PopReplyBatch(c, queue)
    PROVE  /\ ConnInv(c)'
           /\ \A d \in Conns \ {c} : nextSeq'[d] = nextSeq[d] => Keeps(d)
           /\ frames' \in [Conns -> Seq(Frame)]
           /\ batches' \subseteq [conn : Conns, frames : Seq(Frame), posted : BOOLEAN, lost : BOOLEAN]
           /\ inFlight' \in [Conns -> Nat]
<1>1. PICK k \in 1 .. Len(queue) :
        /\ frames' = [frames EXCEPT ![c] = SubSeq(queue, k + 1, Len(queue))]
        /\ batches' = batches \union
                        {[conn |-> c, frames |-> SubSeq(queue, 1, k), posted |-> FALSE,
                          lost |-> FALSE]}
  BY DEF PopReplyBatch
<1>2. /\ inFlight' = [inFlight EXCEPT ![c] = @ + 1]
      /\ UNCHANGED <<state, closing, hbIn, outcome, job, rootSend, posted, failures>>
  BY DEF PopReplyBatch
<1> DEFINE p == SubSeq(queue, 1, k)
           q == SubSeq(queue, k + 1, Len(queue))
           new == [conn |-> c, frames |-> p, posted |-> FALSE, lost |-> FALSE]
<1>3. /\ p \in Seq(Frame) /\ p # << >> /\ q \in Seq(Frame)
      /\ SeqsOf(queue) = SeqsOf(p) \union SeqsOf(q)
      /\ Distinct(p) /\ Distinct(q) /\ Disjoint(p, q)
  BY PrefixSuffix
<1>4. frames' = [frames EXCEPT ![c] = q] /\ batches' = batches \union {new}
  BY <1>1
<1> HIDE DEF p, q
<1>a. /\ new \in [conn : Conns, frames : Seq(Frame), posted : BOOLEAN, lost : BOOLEAN]
      /\ new.conn = c /\ new.frames = p /\ new.posted = FALSE
  BY <1>3
<1> HIDE DEF new
<1>5. SeqsOf(p) # {}
  BY <1>3, SomeFrame
<1>6. frames'[c] = q /\ state'[c] = "open" /\ outcome'[c] = outcome[c] /\ posted'[c] = posted[c]
  BY <1>2, <1>4 DEF TypeOK
<1>7. BatchesOf(c)' = BatchesOf(c) \union {new}
  BY <1>4, <1>a DEF BatchesOf
<1>8. new \notin BatchesOf(c)
  BY <1>a, <1>3, <1>5 DEF Disjoint
<1>9. Given(c) \subseteq Given(c)'
  BY DEF TypeOK, Given
<1>10. \A b \in BatchesOf(c) : Disjoint(b.frames, p) /\ Disjoint(b.frames, q)
  BY <1>3 DEF Disjoint
<1>11. QueueInv(c)'
  <2>1. IsFiniteSet(BatchesOf(c)')
    <3>1. IsFiniteSet(BatchesOf(c))
      BY DEF ConnInv, QueueInv
    <3> QED BY <1>7, <3>1, FS_AddElement
  <2>2. Distinct(q) /\ SeqsOf(q) \subseteq Given(c)' /\ posted[c] \subseteq Given(c)'
    BY <1>3, <1>9 DEF ConnInv, QueueInv
  <2>3. ASSUME NEW b \in BatchesOf(c)'
        PROVE  /\ b.frames # << >> /\ Distinct(b.frames)
               /\ SeqsOf(b.frames) \subseteq Given(c)'
               /\ Disjoint(b.frames, q)
               /\ b.posted => SeqsOf(b.frames) \subseteq posted[c]
    BY <1>a, <1>3, <1>7, <1>9, <1>10 DEF ConnInv, QueueInv
  <2>4. ASSUME NEW a \in BatchesOf(c)', NEW b \in BatchesOf(c)', a # b
        PROVE  Disjoint(a.frames, b.frames)
    BY <1>a, <1>7, <1>10, <2>4 DEF ConnInv, QueueInv, Disjoint
  <2> QED BY <1>6, <2>1, <2>2, <2>3, <2>4 DEF QueueInv
<1>12. LifeInv(c)'
  <2>1. Flying(c)' = Flying(c) \union SeqsOf(p)
    BY <1>a, <1>7 DEF Flying
  <2>2. inFlight'[c] = Cardinality(BatchesOf(c)')
    <3>1. Cardinality(BatchesOf(c)') = Cardinality(BatchesOf(c)) + 1
      <4>1. IsFiniteSet(BatchesOf(c))
        BY DEF ConnInv, QueueInv
      <4> QED BY <1>7, <1>8, <4>1, FS_AddElement
    <3> QED BY <1>2, <3>1 DEF TypeOK, ConnInv, LifeInv
  <2>3. Given(c)' \subseteq SeqsOf(q) \union Flying(c)' \union posted[c]
    BY <1>3, <2>1
  <2>4. outcome[c] = "none"
    BY DEF ConnInv, LifeInv
  <2> QED BY <1>6, <2>2, <2>3, <2>4 DEF LifeInv
<1>13. ASSUME NEW d \in Conns \ {c}, nextSeq'[d] = nextSeq[d] PROVE Keeps(d)
  BY <1>a, <1>2, <1>4, <1>13 DEF Keeps, BatchesOf, TypeOK
<1>14. frames' \in [Conns -> Seq(Frame)] /\ inFlight' \in [Conns -> Nat]
  BY <1>2, <1>3, <1>4 DEF TypeOK
<1>15. batches' \subseteq [conn : Conns, frames : Seq(Frame), posted : BOOLEAN, lost : BOOLEAN]
  BY <1>a, <1>4 DEF TypeOK
<1> QED BY <1>11, <1>12, <1>13, <1>14, <1>15 DEF ConnInv

\* A connection that leaves with nothing in its queue and nothing that flies
\* has posted all it has given.
LEMMA NothingFlies ==
    ASSUME NEW c \in Conns, TypeOK, ConnInv(c), state[c] = "open", frames[c] = << >>,
           \A b \in BatchesOf(c) : b.posted
    PROVE  posted[c] = Given(c)
<1>1. Flying(c) \subseteq posted[c]
  BY DEF ConnInv, QueueInv, Flying
<1> QED BY <1>1, NoFrames DEF ConnInv, QueueInv, LifeInv

LEMMA RemoveInv ==
    ASSUME NEW c \in Conns, TypeOK, ConnInv(c),
           NEW why \in {"dropped", "removed", "drained"}, Remove(c, why),
           posted' = posted, BatchesOf(c)' \subseteq BatchesOf(c),
           why = "drained" => posted[c] = Given(c)
    PROVE  ConnInv(c)'
<1>1. /\ state'[c] = "gone" /\ outcome'[c] = why /\ frames'[c] = << >>
      /\ inFlight'[c] = 0 /\ nextSeq' = nextSeq
  BY DEF Remove, TypeOK
<1>2. IsFiniteSet(BatchesOf(c)')
  BY FS_Subset DEF ConnInv, QueueInv
<1>3. QueueInv(c)'
  BY <1>1, <1>2, NoFrames DEF ConnInv, QueueInv, Given, Disjoint
<1>4. LifeInv(c)'
  BY <1>1 DEF LifeInv, Given
<1> QED BY <1>3, <1>4 DEF ConnInv

\* What Remove leaves to say of the types.
LEMMA RemoveTypes ==
    ASSUME NEW c \in Conns, TypeOK, NEW why \in {"dropped", "removed", "drained"},
           Remove(c, why)
    PROVE  /\ state' \in [Conns -> {"new", "open", "gone"}]
           /\ nextSeq' \in [Conns -> 1 .. MaxFrames + 1]
           /\ frames' \in [Conns -> Seq(Frame)]
           /\ closing' \in [Conns -> BOOLEAN]
           /\ inFlight' \in [Conns -> Nat]
           /\ hbIn' \in [Conns -> 0 .. Interval]
           /\ outcome' \in [Conns -> {"none", "drained", "dropped", "removed"}]
           /\ \A d \in Conns \ {c} : posted' = posted /\ BatchesOf(d)' = BatchesOf(d) => Keeps(d)
<1> USE OutboundAssumption DEF OutboundAssumption
<1>1. frames' \in [Conns -> Seq(Frame)]
  BY NoFrames DEF Remove, TypeOK
<1>2. hbIn' \in [Conns -> 0 .. Interval]
  BY DEF Remove, TypeOK
<1> QED BY <1>1, <1>2 DEF Remove, TypeOK, Keeps

\* replanLocked plans what waits, and never before the cooldown is over.
LEMMA ReplanFacts ==
    ASSUME Replan, hbIn' \in [Conns -> 0 .. Interval], cooling' \in 0 .. Cooldown
    PROVE  /\ flushIn' \in Nat \union {NoFlush}
           /\ flushIn' # NoFlush => cooling' <= flushIn'
           /\ Waiting' => flushIn' # NoFlush
<1> USE OutboundAssumption DEF OutboundAssumption
<1> DEFINE beating == {c \in Conns : HasHeartbeat(c)'}
<1>1. cooling' \in Nat /\ cooling' # NoFlush
  OBVIOUS
<1>2. CASE PendingAfter
  BY <1>1, <1>2 DEF Replan
<1>3. CASE ~PendingAfter /\ beating = {}
  BY <1>3 DEF Replan, PendingAfter, Waiting, Open
<1>4. CASE ~PendingAfter /\ beating # {}
  <2>1. PICK c \in Conns : flushIn' = Later(hbIn'[c], cooling')
    BY <1>4 DEF Replan
  <2>2. hbIn'[c] \in Nat
    OBVIOUS
  <2>3. flushIn' \in Nat /\ cooling' <= flushIn'
    BY <1>1, <2>1, <2>2 DEF Later
  <2> QED BY <2>3
<1> QED BY <1>2, <1>3, <1>4

\* So does scheduleReadyLocked.
LEMMA ScheduleReadyFacts ==
    ASSUME TypeOK, ScheduleReady, cooling' = cooling, flushIn # NoFlush => cooling <= flushIn
    PROVE  /\ flushIn' \in Nat
           /\ flushIn' # NoFlush /\ cooling' <= flushIn'
<1>1. cooling \in Nat /\ Cooldown \in Nat /\ NoFlush \notin Nat
  BY OutboundAssumption DEF OutboundAssumption, TypeOK
<1>2. CASE flushIn = NoFlush
  BY <1>1, <1>2 DEF ScheduleReady
<1>3. CASE flushIn \in Nat
  BY <1>1, <1>3 DEF ScheduleReady
<1> QED BY <1>2, <1>3 DEF TypeOK

-----------------------------------------------------------------------------
(***************************************************************************)
(* The inductive invariant: the queues.                                    *)
(***************************************************************************)

LEMMA InitQueuesInv == Init => QueuesInv
<1> USE OutboundAssumption DEF OutboundAssumption
<1> SUFFICES ASSUME Init PROVE QueuesInv
  OBVIOUS
<1>1. TypeOK
  <2>1. ConnTypes
    BY NoFrames DEF Init, ConnTypes
  <2>2. JobTypes
    BY DEF Init, JobTypes, InMap
  <2>3. PlanTypes
    <3>1. resched \in BOOLEAN
      BY DEF Init
    <3> QED BY <3>1 DEF Init, PlanTypes
  <2> QED BY <2>1, <2>2, <2>3, TypeParts
<1>2. ASSUME NEW c \in Conns PROVE ConnInv(c)
  <2>1. BatchesOf(c) = {} /\ Given(c) = {} /\ frames[c] = << >> /\ state[c] = "new"
    BY DEF Init, BatchesOf, Given
  <2>2. IsFiniteSet(BatchesOf(c))
    BY <2>1, FS_EmptySet
  <2> QED BY <2>1, <2>2, NoFrames DEF Init, ConnInv, QueueInv, LifeInv
<1> QED BY <1>1, <1>2 DEF QueuesInv

\* A step that leaves every queue alone.
LEMMA QueuesStutter ==
    ASSUME QueuesInv, TypeOK',
           UNCHANGED <<state, nextSeq, frames, inFlight, outcome, posted, batches>>
    PROVE  QueuesInv'
<1>1. \A c \in Conns : Keeps(c)
  BY DEF Keeps, BatchesOf
<1> QED BY <1>1, KeepsInv DEF QueuesInv

\* A step on one connection.
LEMMA OneConn ==
    ASSUME QueuesInv, TypeOK', NEW c \in Conns, ConnInv(c)', \A d \in Conns \ {c} : Keeps(d)
    PROVE  QueuesInv'
  BY KeepsInv DEF QueuesInv

\* A batch whose frames have grown older.
AgedBatch(b) == [b EXCEPT !.frames = Aged(b.frames)]

LEMMA AgedBatches ==
    ASSUME NEW b \in [conn : Conns, frames : Seq(Frame), posted : BOOLEAN, lost : BOOLEAN]
    PROVE  /\ AgedBatch(b) \in [conn : Conns, frames : Seq(Frame), posted : BOOLEAN, lost : BOOLEAN]
           /\ AgedBatch(b).conn = b.conn /\ AgedBatch(b).posted = b.posted
           /\ SeqsOf(AgedBatch(b).frames) = SeqsOf(b.frames)
           /\ Distinct(b.frames) => Distinct(AgedBatch(b).frames)
           /\ AgedBatch(b).frames = << >> <=> b.frames = << >>
<1>1. b.frames \in Seq(Frame)
  OBVIOUS
<1>2. AgedBatch(b).frames = Aged(b.frames) /\ Aged(b.frames) \in Seq(Frame)
  BY <1>1, AgedFrames DEF AgedBatch
<1>3. /\ AgedBatch(b) \in [conn : Conns, frames : Seq(Frame), posted : BOOLEAN, lost : BOOLEAN]
      /\ AgedBatch(b).conn = b.conn /\ AgedBatch(b).posted = b.posted
  BY <1>2 DEF AgedBatch
<1> QED BY <1>1, <1>2, <1>3, AgedFrames

\* A tick of the clock changes no number and no counter, and no two batches
\* become one.
LEMMA ElapseInv == QueuesInv /\ Elapse => QueuesInv'
<1> USE OutboundAssumption DEF OutboundAssumption
<1> DEFINE Batch == [conn : Conns, frames : Seq(Frame), posted : BOOLEAN, lost : BOOLEAN]
<1> SUFFICES ASSUME QueuesInv, Elapse PROVE QueuesInv'
  OBVIOUS
<1>0. TypeOK /\ batches \subseteq Batch /\ \A c \in Conns : ConnInv(c)
  BY DEF QueuesInv, TypeOK
<1>1. /\ frames' = [c \in Conns |-> Aged(frames[c])]
      /\ batches' = {AgedBatch(b) : b \in batches}
      /\ UNCHANGED <<state, nextSeq, closing, inFlight, rootSend, pc, resched, posted,
                     outcome, failures>>
  BY DEF Elapse, AgedBatch
<1>2. TypeOK'
  <2>1. frames' \in [Conns -> Seq(Frame)]
    BY <1>0, <1>1, AgedFrames DEF TypeOK
  <2>2. batches' \subseteq Batch
    BY <1>0, <1>1, AgedBatches
  <2>3. hbIn' \in [Conns -> 0 .. Interval]
    <3>1. \A n \in 0 .. Interval : Sooner(n) \in 0 .. Interval
      BY DEF Sooner
    <3> QED BY <1>0, <3>1 DEF Elapse, TypeOK
  <2>4. ConnTypes'
    BY <1>0, <1>1, <2>1, <2>2, <2>3 DEF TypeOK, ConnTypes
  <2>5. JobTypes'
    <3> DEFINE Job == [state : {"new", "answered", "returned"} \union InMap,
                       huge : BOOLEAN, age : 0 .. MaxAge,
                       result : {"none", "ok", "error", "too_large", "canceled"}]
    <3>1. \A k \in Job : [k EXCEPT !.age = Older(k.age)] \in Job
      BY DEF Older
    <3>2. job \in [Jobs -> Job]
      BY <1>0 DEF TypeOK
    <3>3. job' \in [Jobs -> Job]
      BY <3>1, <3>2 DEF Elapse
    <3> QED BY <1>0, <1>1, <3>3 DEF TypeOK, JobTypes
  <2>6. PlanTypes'
    <3>1. cooling' \in 0 .. Cooldown /\ timer' \in Nat
      BY <1>0 DEF Elapse, TypeOK, Sooner
    <3>2. flushIn' \in Nat \union {NoFlush}
      BY <1>0 DEF Elapse, TypeOK, Sooner
    <3> QED BY <1>0, <1>1, <3>1, <3>2 DEF TypeOK, PlanTypes
  <2> QED BY <2>4, <2>5, <2>6, TypeParts
<1>3. ASSUME NEW c \in Conns PROVE ConnInv(c)'
  <2> DEFINE B == BatchesOf(c)
             C == BatchesOf(c)'
             old == [b \in B |-> AgedBatch(b)]
  <2>1. /\ B \subseteq Batch /\ \A b \in B : b.conn = c
        /\ C = {AgedBatch(b) : b \in B}
    <3>1. B \subseteq Batch /\ \A b \in B : b.conn = c
      BY <1>0 DEF BatchesOf
    <3>2. \A b \in batches : AgedBatch(b).conn = b.conn
      BY <1>0, AgedBatches
    <3> QED BY <1>1, <3>1, <3>2 DEF BatchesOf
  <2>2. \A b \in B : /\ SeqsOf(AgedBatch(b).frames) = SeqsOf(b.frames)
                     /\ AgedBatch(b).posted = b.posted
                     /\ Distinct(AgedBatch(b).frames) /\ AgedBatch(b).frames # << >>
                     /\ SeqsOf(b.frames) # {}
    BY <1>0, <2>1, AgedBatches, SomeFrame DEF ConnInv, QueueInv
  <2>3. /\ frames[c] \in Seq(Frame) /\ frames'[c] = Aged(frames[c])
        /\ SeqsOf(frames'[c]) = SeqsOf(frames[c]) /\ Distinct(frames'[c])
        /\ frames'[c] = << >> <=> frames[c] = << >>
    <3>1. frames[c] \in Seq(Frame) /\ frames'[c] = Aged(frames[c]) /\ Distinct(frames[c])
      BY <1>0, <1>1 DEF TypeOK, ConnInv, QueueInv
    <3> QED BY <3>1, AgedFrames
  <2>4. \A a, b \in B : a # b => Disjoint(AgedBatch(a).frames, AgedBatch(b).frames)
    BY <1>0, <2>2 DEF ConnInv, QueueInv, Disjoint
  <2>5. IsFiniteSet(C) /\ Cardinality(C) = Cardinality(B)
    <3>0. old \in [B -> C] /\ \A b \in B : old[b] = AgedBatch(b)
      BY <2>1
    <3>1. old \in Surjection(B, C)
      <4>1. \A t \in C : \E b \in B : old[b] = t
        BY <2>1, <3>0
      <4> QED BY <3>0, <4>1 DEF Surjection
    <3>2. \A a, b \in B : AgedBatch(a) = AgedBatch(b) => a = b
      BY <2>2, <2>4 DEF Disjoint
    <3>3. old \in Injection(B, C)
      <4>1. \A a, b \in B : old[a] = old[b] => a = b
        BY <3>0, <3>2
      <4> QED BY <3>0, <4>1 DEF Injection, IsInjective
    <3>4. IsFiniteSet(B)
      BY <1>0 DEF ConnInv, QueueInv
    <3> HIDE DEF B, C, old
    <3> QED BY <3>1, <3>3, <3>4, FS_Surjection
  <2>6. Given(c)' = Given(c) /\ Flying(c)' = Flying(c)
    <3>1. Flying(c)' = UNION {SeqsOf(AgedBatch(b).frames) : b \in B}
      BY <2>1 DEF Flying
    <3> QED BY <1>1, <2>2, <3>1 DEF Given, Flying
  <2>7. QueueInv(c)'
    <3>1. /\ SeqsOf(frames[c]) \subseteq Given(c) /\ posted[c] \subseteq Given(c)
          /\ \A b \in B : /\ SeqsOf(b.frames) \subseteq Given(c)
                          /\ Disjoint(b.frames, frames[c])
                          /\ b.posted => SeqsOf(b.frames) \subseteq posted[c]
      BY <1>0 DEF ConnInv, QueueInv
    <3> HIDE DEF B
    <3>2. ASSUME NEW b \in B
          PROVE  /\ SeqsOf(AgedBatch(b).frames) \subseteq Given(c)
                 /\ Disjoint(AgedBatch(b).frames, frames'[c])
                 /\ AgedBatch(b).posted => SeqsOf(AgedBatch(b).frames) \subseteq posted[c]
      BY <2>2, <2>3, <3>1 DEF Disjoint
    <3>3. ASSUME NEW b \in C
          PROVE  /\ b.frames # << >> /\ Distinct(b.frames)
                 /\ SeqsOf(b.frames) \subseteq Given(c) /\ Disjoint(b.frames, frames'[c])
                 /\ b.posted => SeqsOf(b.frames) \subseteq posted[c]
      BY <2>1, <2>2, <3>2
    <3>4. ASSUME NEW a \in C, NEW b \in C, a # b PROVE Disjoint(a.frames, b.frames)
      BY <2>1, <2>4, <3>4
    <3> QED BY <1>1, <2>3, <2>5, <2>6, <3>1, <3>3, <3>4 DEF QueueInv
  <2>8. LifeInv(c)'
    BY <1>0, <1>1, <2>3, <2>5, <2>6 DEF ConnInv, LifeInv
  <2> QED BY <2>7, <2>8 DEF ConnInv
<1> QED BY <1>2, <1>3 DEF QueuesInv

LEMMA NextQueuesInv == QueuesInv /\ CooldownHolds /\ [Next]_vars => QueuesInv'
<1> SUFFICES ASSUME QueuesInv, [Next]_vars, flushIn # NoFlush => cooling <= flushIn
             PROVE  QueuesInv'
  BY DEF CooldownHolds
<1> USE OutboundAssumption DEF OutboundAssumption
<1>0. TypeOK /\ \A c \in Conns : ConnInv(c)
  BY DEF QueuesInv
<1>1. ASSUME NEW c \in Conns, RegisterConnection(c) PROVE QueuesInv'
  <2>1. flushIn' \in Nat \union {NoFlush} /\ hbIn' \in [Conns -> 0 .. Interval]
    <3>1. hbIn' \in [Conns -> 0 .. Interval]
      BY <1>0, <1>1 DEF RegisterConnection, TypeOK
    <3> QED BY <1>0, <1>1, <3>1, ReplanFacts DEF RegisterConnection, TypeOK
  <2>2. TypeOK'
    <3>1. ConnTypes'
      BY <1>0, <1>1, <2>1 DEF RegisterConnection, TypeOK, ConnTypes
    <3>2. JobTypes' /\ PlanTypes'
      BY <1>0, <1>1, <2>1 DEF RegisterConnection, Notify, TypeOK, JobTypes, PlanTypes, runVars
    <3> QED BY <3>1, <3>2, TypeParts
  <2>3. BatchesOf(c) = {} /\ Given(c) = {} /\ frames[c] = << >> /\ inFlight[c] = 0
    <3>1. Given(c) = {} /\ frames[c] = << >> /\ inFlight[c] = 0
      BY <1>0, <1>1 DEF RegisterConnection, ConnInv, LifeInv, Given
    <3>2. ASSUME NEW b \in BatchesOf(c) PROVE FALSE
      <4>1. b.frames \in Seq(Frame) /\ b.frames # << >> /\ SeqsOf(b.frames) = {}
        BY <1>0, <3>1 DEF ConnInv, QueueInv, TypeOK, BatchesOf
      <4> QED BY <4>1, SomeFrame
    <3> QED BY <3>1, <3>2
  <2>4. ConnInv(c)'
    <3>1. /\ state'[c] = "open"
          /\ UNCHANGED <<nextSeq, frames, inFlight, outcome, posted, batches>>
          /\ outcome[c] = "none" /\ BatchesOf(c)' = BatchesOf(c)
      BY <1>0, <1>1 DEF RegisterConnection, TypeOK, ConnInv, LifeInv, BatchesOf
    <3>2. QueueInv(c)'
      BY <1>0, <3>1 DEF ConnInv, QueueInv, Given
    <3> QED BY <2>3, <3>1, <3>2, FS_EmptySet DEF ConnInv, LifeInv, Given
  <2>5. \A d \in Conns \ {c} : Keeps(d)
    BY <1>0, <1>1 DEF RegisterConnection, Keeps, BatchesOf, TypeOK
  <2> QED BY <2>2, <2>4, <2>5, OneConn
<1>2. ASSUME NEW c \in Conns, NEW huge \in BOOLEAN, Enqueue(c, huge) PROVE QueuesInv'
  <2> DEFINE f == NewFrame(c, huge)
  <2>1. f \in Frame /\ f.seq = nextSeq[c] /\ nextSeq[c] \in Nat \ {0}
    BY <1>0, <1>2 DEF Enqueue, NewFrame, Frame, TypeOK
  <2> HIDE DEF f
  <2>2. nextSeq'[c] = nextSeq[c] + 1 /\ frames'[c] = frames[c] \o <<f>> /\ state'[c] = "open"
    <3>1. frames'[c] = Append(frames[c], f) /\ frames[c] \in Seq(Frame)
      BY <1>0, <1>2 DEF Enqueue, TypeOK, f
    <3>2. frames'[c] = frames[c] \o <<f>>
      BY <2>1, <3>1, AppendIsConcat
    <3> QED BY <1>0, <1>2, <3>2 DEF Enqueue, TypeOK
  <2>3. /\ UNCHANGED <<state, inFlight, outcome, posted, batches>>
        /\ BatchesOf(c)' = BatchesOf(c) /\ outcome[c] = "none" /\ state[c] = "open"
        /\ frames[c] \in Seq(Frame)
    BY <1>0, <1>2 DEF Enqueue, BatchesOf, ConnInv, LifeInv, TypeOK
  <2>4. Given(c)' = Given(c) \union {nextSeq[c]} /\ nextSeq[c] \notin Given(c)
    BY <2>1, <2>2 DEF Given
  <2>5. /\ frames'[c] \in Seq(Frame) /\ SeqsOf(frames'[c]) = SeqsOf(frames[c]) \union {nextSeq[c]}
        /\ Distinct(frames'[c])
    <3>1. /\ <<f>> \in Seq(Frame) /\ SeqsOf(<<f>>) = {nextSeq[c]} /\ Distinct(<<f>>)
      BY <2>1, OneFrame
    <3>2. Disjoint(frames[c], <<f>>) /\ Distinct(frames[c])
      BY <1>0, <2>4, <3>1 DEF ConnInv, QueueInv, Disjoint
    <3> QED BY <2>2, <2>3, <3>1, <3>2, PutBack
  <2>6. ConnInv(c)'
    <3>1. QueueInv(c)'
      <4>1. \A b \in BatchesOf(c) : Disjoint(b.frames, frames'[c])
        BY <1>0, <2>4, <2>5 DEF ConnInv, QueueInv, Disjoint
      <4>2. SeqsOf(frames'[c]) \subseteq Given(c)' /\ posted'[c] \subseteq Given(c)'
        BY <1>0, <2>3, <2>4, <2>5 DEF ConnInv, QueueInv
      <4> QED BY <1>0, <2>3, <2>4, <2>5, <4>1, <4>2 DEF ConnInv, QueueInv
    <3>2. LifeInv(c)'
      BY <1>0, <2>3, <2>4, <2>5 DEF ConnInv, LifeInv, Flying
    <3> QED BY <3>1, <3>2 DEF ConnInv
  <2>7. TypeOK'
    <3>1. frames' \in [Conns -> Seq(Frame)]
      BY <1>0, <1>2, <2>5 DEF Enqueue, TypeOK
    <3>2. nextSeq' \in [Conns -> 1 .. MaxFrames + 1]
      BY <1>0, <1>2 DEF Enqueue, TypeOK
    <3>3. flushIn' \in Nat
      BY <1>0, <1>2, ScheduleReadyFacts DEF Enqueue
    <3>4. ConnTypes'
      BY <1>0, <1>2, <3>1, <3>2 DEF Enqueue, TypeOK, ConnTypes
    <3>5. JobTypes' /\ PlanTypes'
      BY <1>0, <1>2, <3>3 DEF Enqueue, Notify, TypeOK, JobTypes, PlanTypes, runVars
    <3> QED BY <3>4, <3>5, TypeParts
  <2>8. \A d \in Conns \ {c} : Keeps(d)
    BY <1>0, <1>2, <2>3 DEF Enqueue, Keeps, BatchesOf, TypeOK
  <2> QED BY <2>6, <2>7, <2>8, OneConn
<1>3. ASSUME NEW c \in Conns, NEW why \in {"dropped", "removed", "drained"},
             state[c] = "open", Remove(c, why), Replan, resched' \in BOOLEAN,
             pc' \in {"check", "idle", "armed", "flush"}, timer' \in Nat,
             UNCHANGED <<job, rootSend, cooling, posted, failures>>,
             batches' \subseteq batches, \A b \in batches \ batches' : b.conn = c,
             why = "drained" => posted[c] = Given(c)
      PROVE  QueuesInv'
  <2>1. \A d \in Conns \ {c} : BatchesOf(d)' = BatchesOf(d)
    BY <1>3 DEF BatchesOf
  <2>2. ConnInv(c)'
    <3>1. BatchesOf(c)' \subseteq BatchesOf(c)
      BY <1>3 DEF BatchesOf
    <3> QED BY <1>0, <1>3, <3>1, RemoveInv
  <2>3. TypeOK'
    <3>1. flushIn' \in Nat \union {NoFlush}
      <4>1. hbIn' \in [Conns -> 0 .. Interval]
        BY <1>0, <1>3, RemoveTypes
      <4> QED BY <1>0, <1>3, <4>1, ReplanFacts DEF TypeOK
    <3>2. /\ job' = job /\ rootSend' = rootSend /\ cooling' = cooling
          /\ posted' = posted /\ failures' = failures
      BY <1>3
    <3>3. ConnTypes'
      BY <1>0, <1>3, <3>2, RemoveTypes DEF TypeOK, ConnTypes
    <3>4. JobTypes' /\ PlanTypes'
      BY <1>0, <1>3, <3>1, <3>2 DEF TypeOK, JobTypes, PlanTypes
    <3> QED BY <3>3, <3>4, TypeParts
  <2> QED BY <1>0, <1>3, <2>1, <2>2, <2>3, RemoveTypes, OneConn
<1>4. ASSUME NEW c \in Conns, MarkCloseAfterDrained(c) PROVE QueuesInv'
  <2>1. CASE frames[c] = << >> /\ inFlight[c] = 0
    <3>1. posted[c] = Given(c)
      <4>1. state[c] = "open" /\ IsFiniteSet(BatchesOf(c)) /\ Cardinality(BatchesOf(c)) = 0
        BY <1>0, <1>4, <2>1 DEF MarkCloseAfterDrained, ConnInv, QueueInv, LifeInv
      <4>2. BatchesOf(c) = {}
        BY <4>1, FS_EmptySet
      <4> QED BY <1>0, <2>1, <4>1, <4>2, NothingFlies
    <3>2. /\ Remove(c, "drained") /\ Replan /\ resched' \in BOOLEAN /\ state[c] = "open"
          /\ UNCHANGED <<job, batches, rootSend, cooling, runVars, posted, failures>>
      BY <1>4, <2>1 DEF MarkCloseAfterDrained, Notify
    <3>3. pc' \in {"check", "idle", "armed", "flush"} /\ timer' \in Nat
      BY <1>0, <3>2 DEF TypeOK, runVars
    <3> QED BY <1>3, <3>1, <3>2, <3>3
  <2>2. CASE ~(frames[c] = << >> /\ inFlight[c] = 0)
    <3>1. /\ closing' = [closing EXCEPT ![c] = TRUE] /\ resched' = TRUE
          /\ UNCHANGED <<state, nextSeq, frames, inFlight, hbIn, outcome, job, batches,
                         rootSend, cooling, flushIn, runVars, posted, failures>>
      BY <1>4, <2>2 DEF MarkCloseAfterDrained, Notify
    <3>2. ConnTypes'
      BY <1>0, <3>1 DEF TypeOK, ConnTypes
    <3>3. JobTypes' /\ PlanTypes'
      BY <1>0, <3>1 DEF TypeOK, JobTypes, PlanTypes, runVars
    <3> QED BY <3>1, <3>2, <3>3, TypeParts, QueuesStutter
  <2> QED BY <2>1, <2>2
<1>5. ASSUME NEW c \in Conns, DropConnection(c) PROVE QueuesInv'
  <2>1. pc' \in {"check", "idle", "armed", "flush"} /\ timer' \in Nat /\ resched' \in BOOLEAN
    BY <1>0, <1>5 DEF DropConnection, Notify, TypeOK, runVars
  <2> QED BY <1>3, <1>5, <2>1 DEF DropConnection
\* A step that changes root jobs only.
<1>6. ASSUME UNCHANGED <<connVars, batches, posted>>, JobTypes', PlanTypes'
      PROVE  QueuesInv'
  <2>1. ConnTypes'
    BY <1>0, <1>6 DEF TypeOK, ConnTypes, connVars
  <2> QED BY <1>6, <2>1, TypeParts, QueuesStutter DEF connVars
<1>7. ASSUME UNCHANGED hbIn, Replan, cooling' \in 0 .. Cooldown
      PROVE  flushIn' \in Nat \union {NoFlush}
  BY <1>0, <1>7, ReplanFacts DEF TypeOK
<1>8. ASSUME NEW j \in Jobs, NEW huge \in BOOLEAN, OpenRoot(j, huge) PROVE QueuesInv'
  <2>1. JobTypes'
    BY <1>0, <1>8 DEF OpenRoot, TypeOK, JobTypes, InMap
  <2>2. flushIn' \in Nat
    BY <1>0, <1>8, ScheduleReadyFacts DEF OpenRoot
  <2>3. PlanTypes'
    BY <1>0, <1>8, <2>2 DEF OpenRoot, Notify, TypeOK, PlanTypes, runVars
  <2> QED BY <1>6, <1>8, <2>1, <2>3 DEF OpenRoot
<1>9. ASSUME NEW j \in Jobs, OpenRootReturns(j) PROVE QueuesInv'
  <2>1. JobTypes'
    BY <1>0, <1>9 DEF OpenRootReturns, TypeOK, JobTypes
  <2>2. PlanTypes'
    BY <1>0, <1>9 DEF OpenRootReturns, TypeOK, PlanTypes, runVars
  <2> QED BY <1>6, <1>9, <2>1, <2>2 DEF OpenRootReturns
<1>10. ASSUME NEW j \in Jobs, CancelOpenRoot(j) PROVE QueuesInv'
  <2>1. JobTypes'
    <3> DEFINE r == [job[j] EXCEPT !.state = "returned", !.result = "canceled"]
               Job == [state : {"new", "answered", "returned"} \union InMap,
                       huge : BOOLEAN, age : 0 .. MaxAge,
                       result : {"none", "ok", "error", "too_large", "canceled"}]
    <3>1. job \in [Jobs -> Job]
      BY <1>0 DEF TypeOK
    <3>2. job' = [job EXCEPT ![j] = r] /\ UNCHANGED <<rootSend, failures>>
      BY <1>10, <3>1 DEF CancelOpenRoot
    <3>3. r \in Job
      BY <3>1
    <3> QED BY <1>0, <3>1, <3>2, <3>3 DEF TypeOK, JobTypes
  <2>2. flushIn' \in Nat \union {NoFlush}
    BY <1>0, <1>7, <1>10 DEF CancelOpenRoot, TypeOK, connVars
  <2>3. PlanTypes'
    BY <1>0, <1>10, <2>2 DEF CancelOpenRoot, Notify, TypeOK, PlanTypes, runVars
  <2> QED BY <1>6, <1>10, <2>1, <2>3 DEF CancelOpenRoot
<1>11. CASE RunCheck \/ RunWake \/ RunTimer
  <2>1. PlanTypes'
    <3>1. pc' \in {"check", "idle", "armed", "flush"} /\ resched' \in BOOLEAN
      BY <1>0, <1>11 DEF RunCheck, RunWake, RunTimer, TypeOK
    <3>2. timer' \in Nat /\ cooling' = cooling /\ flushIn' = flushIn
      BY <1>0, <1>11 DEF RunCheck, RunWake, RunTimer, TypeOK
    <3> QED BY <1>0, <3>1, <3>2 DEF TypeOK, PlanTypes
  <2>2. JobTypes' /\ UNCHANGED <<connVars, batches, posted>>
    BY <1>0, <1>11 DEF RunCheck, RunWake, RunTimer, TypeOK, JobTypes
  <2> QED BY <1>6, <2>1, <2>2
<1>12. CASE Flush
  <2>1. Replan /\ pc' = "check" /\ timer' = 0 /\ resched' \in BOOLEAN
    BY <1>0, <1>12 DEF Flush, Notify, TypeOK
  \* What a batch that is popped leaves to say.
  <2>2. ASSUME NEW c \in Conns, NEW queue \in Seq(Frame), PopReplyBatch(c, queue)
        PROVE  /\ JobTypes' /\ PlanTypes'
               /\ UNCHANGED <<state, closing, hbIn, outcome, posted>>
    <3>1. /\ cooling' = Cooldown
          /\ UNCHANGED <<state, closing, hbIn, outcome, job, rootSend, posted, failures>>
      BY <2>2 DEF PopReplyBatch
    <3>2. flushIn' \in Nat \union {NoFlush}
      BY <1>7, <2>1, <3>1
    <3>3. JobTypes'
      BY <1>0, <3>1 DEF TypeOK, JobTypes
    <3>4. PlanTypes'
      BY <2>1, <3>1, <3>2 DEF PlanTypes
    <3> QED BY <3>1, <3>3, <3>4
  <2>3. ASSUME NEW c \in Conns, state[c] = "open", UNCHANGED nextSeq, PopReplyBatch(c, frames[c])
        PROVE  QueuesInv'
    <3>1. /\ ConnInv(c)' /\ \A d \in Conns \ {c} : Keeps(d)
          /\ frames' \in [Conns -> Seq(Frame)]
          /\ batches' \subseteq [conn : Conns, frames : Seq(Frame), posted : BOOLEAN, lost : BOOLEAN]
          /\ inFlight' \in [Conns -> Nat]
      <4>1. /\ frames[c] \in Seq(Frame) /\ nextSeq' = nextSeq /\ nextSeq \in [Conns -> Nat]
            /\ Given(c)' = Given(c) /\ nextSeq[c] \in Nat
        BY <1>0, <2>3 DEF TypeOK, Given
      <4>2. /\ Distinct(frames[c]) /\ SeqsOf(frames[c]) \subseteq Given(c)
            /\ \A b \in BatchesOf(c) : Disjoint(b.frames, frames[c])
            /\ Given(c) \subseteq SeqsOf(frames[c]) \union Flying(c) \union posted[c]
        BY <1>0, <2>3 DEF ConnInv, QueueInv, LifeInv
      <4> QED BY <1>0, <2>3, <4>1, <4>2, PopInv
    <3>2. JobTypes' /\ PlanTypes' /\ UNCHANGED <<state, closing, hbIn, outcome, posted>>
      BY <1>0, <2>2, <2>3 DEF TypeOK
    <3>3. ConnTypes'
      BY <1>0, <2>3, <3>1, <3>2 DEF TypeOK, ConnTypes
    <3> QED BY <3>1, <3>2, <3>3, TypeParts, OneConn
  <2>4. ASSUME NEW c \in Conns, FlushHeartbeat(c) PROVE QueuesInv'
    <3>1. state[c] = "open" /\ nextSeq[c] <= MaxFrames /\ nextSeq[c] \in Nat \ {0}
      BY <1>0, <2>4 DEF FlushHeartbeat, DueHeartbeats, HasHeartbeat, TypeOK
    <3>2. CASE frames[c] # << >>
      BY <2>3, <2>4, <3>1, <3>2 DEF FlushHeartbeat
    <3>3. CASE frames[c] = << >>
      <4> DEFINE f == NewFrame(c, FALSE)
      <4>1. nextSeq' = [nextSeq EXCEPT ![c] = @ + 1] /\ PopReplyBatch(c, <<f>>)
        BY <2>4, <3>3 DEF FlushHeartbeat
      <4>2. f \in Frame /\ f.seq = nextSeq[c]
        BY <3>1 DEF NewFrame, Frame
      <4> HIDE DEF f
      <4>3. <<f>> \in Seq(Frame) /\ SeqsOf(<<f>>) = {nextSeq[c]} /\ Distinct(<<f>>)
        BY <4>2, OneFrame
      <4>4. /\ nextSeq' \in [Conns -> 1 .. MaxFrames + 1] /\ nextSeq' \in [Conns -> Nat]
            /\ nextSeq'[c] = nextSeq[c] + 1
            /\ \A d \in Conns \ {c} : nextSeq'[d] = nextSeq[d]
        BY <1>0, <3>1, <4>1 DEF TypeOK
      <4>5. Given(c)' = Given(c) \union {nextSeq[c]} /\ nextSeq[c] \notin Given(c)
        BY <3>1, <4>4 DEF Given
      <4>6. /\ SeqsOf(<<f>>) \subseteq Given(c)'
            /\ \A b \in BatchesOf(c) : Disjoint(b.frames, <<f>>)
            /\ Given(c)' \subseteq SeqsOf(<<f>>) \union Flying(c) \union posted[c]
        BY <1>0, <3>1, <3>3, <4>3, <4>5, NoFrames DEF ConnInv, QueueInv, LifeInv, Disjoint
      <4>7. /\ ConnInv(c)' /\ \A d \in Conns \ {c} : Keeps(d)
            /\ frames' \in [Conns -> Seq(Frame)]
            /\ batches' \subseteq [conn : Conns, frames : Seq(Frame), posted : BOOLEAN, lost : BOOLEAN]
            /\ inFlight' \in [Conns -> Nat]
        <5>1. nextSeq'[c] >= nextSeq[c]
          BY <3>1, <4>4
        <5> QED BY <1>0, <3>1, <4>1, <4>3, <4>4, <4>6, <5>1, PopInv
      <4>8. JobTypes' /\ PlanTypes' /\ UNCHANGED <<state, closing, hbIn, outcome, posted>>
        BY <2>2, <4>1, <4>3
      <4>9. ConnTypes'
        BY <1>0, <4>4, <4>7, <4>8 DEF TypeOK, ConnTypes
      <4> QED BY <4>7, <4>8, <4>9, TypeParts, OneConn
    <3> QED BY <3>2, <3>3
  <2>5. ASSUME NEW c \in Conns, FlushConn(c) PROVE QueuesInv'
    BY <2>3, <2>5 DEF FlushConn, OldestConns, Open
  <2>6. ASSUME NEW c \in Conns, FlushTooLarge(c) PROVE QueuesInv'
    <3>1. state[c] = "open"
      BY <2>6 DEF FlushTooLarge, DueHeartbeats, HasHeartbeat, OldestConns, Open
    <3> QED BY <1>3, <2>1, <2>6, <3>1 DEF FlushTooLarge
  <2>7. ASSUME NEW j \in Jobs, FlushRoot(j) \/ FlushRootTooLarge(j)
        PROVE  QueuesInv'
    <3>1. UNCHANGED <<connVars, batches, posted>> /\ cooling' \in 0 .. Cooldown
      BY <1>0, <2>7 DEF FlushRoot, FlushRootTooLarge, TypeOK
    <3>2. JobTypes'
      <4>1. CASE FlushRoot(j)
        BY <1>0, <4>1 DEF FlushRoot, TypeOK, JobTypes, InMap
      <4>2. CASE FlushRootTooLarge(j)
        <5> DEFINE answer == [job[j] EXCEPT !.state = "answered", !.result = "too_large"]
        <5>1. /\ job' = [job EXCEPT ![j] = answer]
              /\ UNCHANGED rootSend
              /\ UNCHANGED failures
          BY <4>2, Zenon DEF FlushRootTooLarge
        <5> DEFINE Asked == [state : {"new", "answered", "returned"} \union InMap,
                             huge : BOOLEAN, age : 0 .. MaxAge,
                             result : {"none", "ok", "error", "too_large", "canceled"}]
        <5>2. job \in [Jobs -> Asked] /\ answer \in Asked
          <6>1. job \in [Jobs -> Asked]
            BY <1>0 DEF TypeOK
          <6>2. job[j] \in Asked
            BY <6>1
          <6> QED BY <6>1, <6>2
        <5> HIDE DEF answer
        <5> QED BY <1>0, <5>1, <5>2 DEF TypeOK, JobTypes
      <4> QED BY <2>7, <4>1, <4>2
    <3>3. PlanTypes'
      BY <1>7, <2>1, <3>1 DEF PlanTypes, connVars
    <3> QED BY <1>6, <3>1, <3>2, <3>3
  <2>8. CASE FlushNothing
    <3>1. UNCHANGED <<connVars, batches, posted>> /\ cooling' \in 0 .. Cooldown /\ JobTypes'
      BY <1>0, <2>8 DEF FlushNothing, TypeOK, JobTypes
    <3>2. PlanTypes'
      BY <1>7, <2>1, <3>1 DEF PlanTypes, connVars
    <3> QED BY <1>6, <3>1, <3>2
  <2> QED BY <1>12, <2>4, <2>5, <2>6, <2>7, <2>8 DEF Flush
\* A batch leaves with its result; its connection is open.
<1>13. ASSUME NEW b \in batches, state[b.conn] = "open", batches' = batches \ {b},
              UNCHANGED <<state, nextSeq, outcome, posted, closing>>,
              inFlight' = [inFlight EXCEPT ![b.conn] = @ - 1],
              hbIn' \in [Conns -> 0 .. Interval], frames' \in [Conns -> Seq(Frame)],
              \A d \in Conns \ {b.conn} : frames'[d] = frames[d],
              \/ frames' = frames /\ b.posted
              \/ frames' = [frames EXCEPT ![b.conn] = b.frames \o @],
              JobTypes', PlanTypes'
       PROVE  QueuesInv'
  <2> DEFINE c == b.conn
  <2>1. /\ c \in Conns /\ b.frames \in Seq(Frame) /\ frames[c] \in Seq(Frame)
        /\ b \in BatchesOf(c) /\ BatchesOf(c)' = BatchesOf(c) \ {b}
        /\ \A d \in Conns \ {c} : BatchesOf(d)' = BatchesOf(d)
    BY <1>0, <1>13 DEF TypeOK, BatchesOf
  <2> HIDE DEF c
  <2>2. /\ IsFiniteSet(BatchesOf(c)')
        /\ Cardinality(BatchesOf(c)') = Cardinality(BatchesOf(c)) - 1
        /\ Cardinality(BatchesOf(c)) \in Nat \ {0}
        /\ Flying(c) = SeqsOf(b.frames) \union Flying(c)'
    BY <1>0, <2>1, BatchLeaves
  <2>3. /\ state[c] = "open" /\ state' = state /\ nextSeq' = nextSeq /\ outcome' = outcome
        /\ posted' = posted /\ inFlight' = [inFlight EXCEPT ![c] = @ - 1]
        /\ Given(c)' = Given(c)
    BY <1>13 DEF c, Given
  <2>4. /\ Distinct(b.frames) /\ SeqsOf(b.frames) \subseteq Given(c)
        /\ Disjoint(b.frames, frames[c]) /\ Distinct(frames[c])
        /\ \A a \in BatchesOf(c)' : Disjoint(a.frames, b.frames)
        /\ b.posted => SeqsOf(b.frames) \subseteq posted[c]
    BY <1>0, <2>1 DEF ConnInv, QueueInv
  <2>5. \/ frames'[c] = frames[c] /\ SeqsOf(b.frames) \subseteq posted[c]
        \/ /\ SeqsOf(frames'[c]) = SeqsOf(b.frames) \union SeqsOf(frames[c])
           /\ Distinct(frames'[c])
    <3>1. CASE frames' = frames /\ b.posted
      BY <2>4, <3>1
    <3>2. CASE frames' = [frames EXCEPT ![c] = b.frames \o @]
      <4>1. frames'[c] = b.frames \o frames[c]
        BY <1>0, <2>1, <3>2 DEF TypeOK
      <4>2. /\ SeqsOf(b.frames \o frames[c]) = SeqsOf(b.frames) \union SeqsOf(frames[c])
            /\ Distinct(b.frames \o frames[c])
        BY <2>1, <2>4, PutBack
      <4> QED BY <4>1, <4>2
    <3> QED BY <1>13, <3>1, <3>2 DEF c
  <2>6. QueueInv(c)'
    <3>1. Distinct(frames'[c]) /\ SeqsOf(frames'[c]) \subseteq Given(c)
      BY <1>0, <2>1, <2>4, <2>5 DEF ConnInv, QueueInv
    <3>2. ASSUME NEW a \in BatchesOf(c)' PROVE Disjoint(a.frames, frames'[c])
      BY <1>0, <2>1, <2>4, <2>5 DEF ConnInv, QueueInv, Disjoint
    <3>3. ASSUME NEW a \in BatchesOf(c)'
          PROVE  /\ a.frames # << >> /\ Distinct(a.frames)
                 /\ SeqsOf(a.frames) \subseteq Given(c)
                 /\ a.posted => SeqsOf(a.frames) \subseteq posted[c]
                 /\ \A d \in BatchesOf(c)' : a # d => Disjoint(a.frames, d.frames)
      BY <1>0, <2>1 DEF ConnInv, QueueInv
    <3>4. posted'[c] \subseteq Given(c)
      BY <1>0, <2>1, <2>3 DEF ConnInv, QueueInv
    <3> QED BY <2>2, <2>3, <3>1, <3>2, <3>3, <3>4 DEF QueueInv
  <2>7. LifeInv(c)'
    <3>1. inFlight'[c] = Cardinality(BatchesOf(c)')
      BY <1>0, <2>1, <2>2, <2>3 DEF TypeOK, ConnInv, LifeInv
    <3>2. Given(c) \subseteq SeqsOf(frames'[c]) \union Flying(c)' \union posted[c]
      BY <1>0, <2>1, <2>2, <2>3, <2>5 DEF ConnInv, LifeInv
    <3>3. outcome[c] = "none"
      BY <1>0, <2>1, <2>3 DEF ConnInv, LifeInv
    <3> QED BY <2>3, <3>1, <3>2, <3>3 DEF LifeInv
  <2>8. \A d \in Conns \ {c} : Keeps(d)
    BY <1>0, <1>13, <2>1, <2>3 DEF Keeps, TypeOK, c
  <2>9. ConnTypes'
    <3>1. inFlight'[c] \in Nat
      <4>1. inFlight[c] = Cardinality(BatchesOf(c))
        BY <1>0, <2>1, <2>3 DEF ConnInv, LifeInv
      <4>2. inFlight'[c] = inFlight[c] - 1
        BY <1>0, <2>1, <2>3 DEF TypeOK
      <4> QED BY <2>2, <4>1, <4>2
    <3>2. inFlight' \in [Conns -> Nat]
      BY <1>0, <2>1, <2>3, <3>1 DEF TypeOK
    <3> QED BY <1>0, <1>13, <3>2 DEF TypeOK, ConnTypes
  <2> QED BY <1>13, <2>1, <2>6, <2>7, <2>8, <2>9, TypeParts, OneConn DEF ConnInv
\* A batch of which only posted or lost changes.
<1>14. ASSUME NEW b \in batches,
              NEW p \in [conn : Conns, frames : Seq(Frame), posted : BOOLEAN, lost : BOOLEAN],
              p.conn = b.conn, p.frames = b.frames,
              batches' = (batches \ {b}) \union {p},
              NEW more \in SUBSET SeqsOf(b.frames),
              posted' = [posted EXCEPT ![b.conn] = @ \union more],
              p.posted => b.posted \/ more = SeqsOf(b.frames),
              UNCHANGED <<connVars, job, rootSend, cooling, flushIn, runVars, resched, failures>>
       PROVE  QueuesInv'
  <2> DEFINE c == b.conn
  <2>1. /\ c \in Conns /\ b.frames \in Seq(Frame) /\ b \in BatchesOf(c)
        /\ p.conn = c /\ p.frames = b.frames
    BY <1>0, <1>14 DEF TypeOK, BatchesOf
  <2>2. /\ batches' = (batches \ {b}) \union {p}
        /\ posted' = [posted EXCEPT ![c] = @ \union more]
        /\ UNCHANGED <<connVars, job, rootSend, cooling, flushIn, runVars, resched, failures>>
    BY <1>14
  <2> HIDE DEF c
  <2>3. /\ BatchesOf(c)' = (BatchesOf(c) \ {b}) \union {p}
        /\ \A d \in Conns \ {c} : BatchesOf(d)' = BatchesOf(d)
    BY <2>1, <2>2 DEF BatchesOf, c
  <2>4. /\ b.frames # << >> /\ Distinct(b.frames) /\ SeqsOf(b.frames) \subseteq Given(c)
        /\ Disjoint(b.frames, frames[c]) /\ SeqsOf(b.frames) # {}
        /\ \A a \in BatchesOf(c) \ {b} : Disjoint(a.frames, b.frames) /\ Disjoint(b.frames, a.frames)
    BY <1>0, <2>1, SomeFrame DEF ConnInv, QueueInv
  <2>5. /\ IsFiniteSet(BatchesOf(c)') /\ Cardinality(BatchesOf(c)') = Cardinality(BatchesOf(c))
    <3>1. p \notin BatchesOf(c) \ {b}
      BY <2>1, <2>4 DEF Disjoint
    <3>2. IsFiniteSet(BatchesOf(c)) /\ Cardinality(BatchesOf(c)) \in Nat
      BY <1>0, <2>1, FS_CardinalityType DEF ConnInv, QueueInv
    <3>3. /\ IsFiniteSet(BatchesOf(c) \ {b})
          /\ Cardinality(BatchesOf(c) \ {b}) = Cardinality(BatchesOf(c)) - 1
      BY <2>1, <3>2, FS_RemoveElement
    <3>4. /\ IsFiniteSet((BatchesOf(c) \ {b}) \union {p})
          /\ Cardinality((BatchesOf(c) \ {b}) \union {p}) = Cardinality(BatchesOf(c) \ {b}) + 1
      BY <3>1, <3>3, FS_AddElement
    <3> QED BY <2>3, <3>2, <3>3, <3>4
  <2>6. /\ posted'[c] = posted[c] \union more /\ Given(c)' = Given(c)
        /\ more \subseteq Given(c)
        /\ UNCHANGED <<state, nextSeq, frames, inFlight, outcome>>
        /\ p.posted => SeqsOf(b.frames) \subseteq posted'[c]
    <3>1. /\ posted'[c] = posted[c] \union more /\ Given(c)' = Given(c)
          /\ UNCHANGED <<state, nextSeq, frames, inFlight, outcome>>
      BY <1>0, <2>1, <2>2 DEF TypeOK, connVars, Given
    <3>2. b.posted => SeqsOf(b.frames) \subseteq posted[c]
      BY <1>0, <2>1 DEF ConnInv, QueueInv
    <3> QED BY <1>14, <2>4, <3>1, <3>2
  <2>7. QueueInv(c)'
    <3>1. ASSUME NEW a \in BatchesOf(c)'
          PROVE  /\ a.frames # << >> /\ Distinct(a.frames)
                 /\ SeqsOf(a.frames) \subseteq Given(c) /\ Disjoint(a.frames, frames[c])
                 /\ a.posted => SeqsOf(a.frames) \subseteq posted'[c]
      BY <1>0, <2>1, <2>3, <2>4, <2>6 DEF ConnInv, QueueInv
    <3>2. ASSUME NEW a \in BatchesOf(c)', NEW d \in BatchesOf(c)', a # d
          PROVE  Disjoint(a.frames, d.frames)
      BY <1>0, <2>1, <2>3, <2>4, <3>2 DEF ConnInv, QueueInv
    <3>3. posted'[c] \subseteq Given(c) /\ Distinct(frames[c]) /\ SeqsOf(frames[c]) \subseteq Given(c)
      BY <1>0, <2>1, <2>4, <2>6 DEF ConnInv, QueueInv
    <3> QED BY <2>5, <2>6, <3>1, <3>2, <3>3 DEF QueueInv
  <2>8. LifeInv(c)'
    <3>1. Flying(c) \subseteq Flying(c)'
      BY <2>1, <2>3 DEF Flying
    <3>2. outcome[c] = "drained" => posted'[c] = Given(c)
      BY <1>0, <2>1, <2>4, <2>6 DEF ConnInv, LifeInv
    <3>3. state[c] = "open" =>
             Given(c) \subseteq SeqsOf(frames[c]) \union Flying(c)' \union posted'[c]
      BY <1>0, <2>1, <2>6, <3>1 DEF ConnInv, LifeInv
    <3> QED BY <1>0, <2>1, <2>5, <2>6, <3>2, <3>3 DEF ConnInv, LifeInv
  <2>9. \A d \in Conns \ {c} : Keeps(d)
    BY <1>0, <2>2, <2>3, <2>6 DEF Keeps, TypeOK
  <2>10. TypeOK'
    <3>1. posted' \in [Conns -> SUBSET (1 .. MaxFrames)]
      <4>1. Given(c) \subseteq 1 .. MaxFrames
        BY <1>0, <2>1 DEF TypeOK, Given
      <4> QED BY <1>0, <2>2, <2>4, <4>1 DEF TypeOK
    <3>2. batches' \subseteq [conn : Conns, frames : Seq(Frame), posted : BOOLEAN, lost : BOOLEAN]
      BY <1>0, <2>1, <2>2 DEF TypeOK
    <3>3. ConnTypes'
      BY <1>0, <2>2, <3>1, <3>2 DEF TypeOK, ConnTypes, connVars
    <3>4. JobTypes' /\ PlanTypes'
      BY <1>0, <2>2 DEF TypeOK, JobTypes, PlanTypes, runVars
    <3> QED BY <3>3, <3>4, TypeParts
  <2> QED BY <2>1, <2>7, <2>8, <2>9, <2>10, OneConn DEF ConnInv
<1>a. ASSUME NEW b \in batches, LarkPostsReply(b) PROVE QueuesInv'
  <2> DEFINE p == [b EXCEPT !.posted = TRUE]
  <2>1. /\ p \in [conn : Conns, frames : Seq(Frame), posted : BOOLEAN, lost : BOOLEAN]
        /\ p.conn = b.conn /\ p.frames = b.frames
    BY <1>0 DEF TypeOK
  <2>2. /\ batches' = (batches \ {b}) \union {p}
        /\ posted' = [posted EXCEPT ![b.conn] = @ \union SeqsOf(b.frames)]
        /\ UNCHANGED <<connVars, job, rootSend, cooling, flushIn, runVars, resched, failures>>
    BY <1>a DEF LarkPostsReply
  <2> HIDE DEF p
  <2> QED BY <1>14, <2>1, <2>2
<1>b. ASSUME NEW b \in batches, LarkNeverAnswersReply(b) PROVE QueuesInv'
  <2> DEFINE p == [b EXCEPT !.lost = TRUE]
  <2>1. /\ p \in [conn : Conns, frames : Seq(Frame), posted : BOOLEAN, lost : BOOLEAN]
        /\ p.conn = b.conn /\ p.frames = b.frames /\ p.posted = b.posted /\ b.conn \in Conns
    BY <1>0 DEF TypeOK
  <2>2. /\ batches' = (batches \ {b}) \union {p} /\ posted' = posted
        /\ UNCHANGED <<connVars, job, rootSend, cooling, flushIn, runVars, resched, failures>>
    BY <1>b DEF LarkNeverAnswersReply
  <2>3. PICK none \in SUBSET SeqsOf(b.frames) : none = {}
    OBVIOUS
  <2>4. posted' = [posted EXCEPT ![b.conn] = @ \union none]
    BY <1>0, <2>1, <2>2, <2>3 DEF TypeOK
  <2> HIDE DEF p
  <2> QED BY <1>14, <2>1, <2>2, <2>4
<1>15. ASSUME NEW b \in batches, ReplyIgnored(b) PROVE QueuesInv'
  <2> DEFINE c == b.conn
  <2>1. /\ c \in Conns /\ b \in BatchesOf(c) /\ state[c] # "open"
        /\ BatchesOf(c)' = BatchesOf(c) \ {b}
        /\ \A d \in Conns \ {c} : BatchesOf(d)' = BatchesOf(d)
    BY <1>0, <1>15 DEF ReplyIgnored, TypeOK, BatchesOf
  <2>2. UNCHANGED <<connVars, job, rootSend, cooling, runVars, posted, failures>>
    BY <1>15 DEF ReplyIgnored
  <2> HIDE DEF c
  <2>3. ConnInv(c)'
    <3>1. IsFiniteSet(BatchesOf(c)')
      BY <1>0, <2>1, BatchLeaves
    <3>2. QueueInv(c)'
      BY <1>0, <2>1, <2>2, <3>1 DEF ConnInv, QueueInv, Given, connVars
    <3>3. LifeInv(c)'
      BY <1>0, <2>1, <2>2 DEF ConnInv, LifeInv, Given, connVars
    <3> QED BY <3>2, <3>3 DEF ConnInv
  <2>4. \A d \in Conns \ {c} : Keeps(d)
    BY <2>1, <2>2 DEF Keeps, connVars
  <2>5. TypeOK'
    <3>1. flushIn' \in Nat \union {NoFlush}
      BY <1>0, <1>7, <1>15, <2>2 DEF ReplyIgnored, TypeOK, connVars
    <3>2. ConnTypes'
      BY <1>0, <1>15, <2>2 DEF ReplyIgnored, TypeOK, ConnTypes, connVars
    <3>3. JobTypes' /\ PlanTypes'
      BY <1>0, <1>15, <2>2, <3>1
         DEF ReplyIgnored, Notify, TypeOK, JobTypes, PlanTypes, runVars
    <3> QED BY <3>2, <3>3, TypeParts
  <2> QED BY <2>1, <2>3, <2>4, <2>5, OneConn
<1>16. ASSUME UNCHANGED <<job, rootSend, cooling, runVars>>, failures' \in 0 .. MaxFailures,
              hbIn' \in [Conns -> 0 .. Interval], Replan, Notify
       PROVE  JobTypes' /\ PlanTypes'
  <2>1. flushIn' \in Nat \union {NoFlush}
    BY <1>0, <1>16, ReplanFacts DEF TypeOK
  <2> QED BY <1>0, <1>16, <2>1 DEF Notify, TypeOK, JobTypes, PlanTypes, runVars
<1>17. ASSUME NEW b \in batches, ReplySent(b) PROVE QueuesInv'
  <2> DEFINE c == b.conn
  <2>1. /\ c \in Conns /\ b \in BatchesOf(c) /\ state[c] = "open" /\ b.posted
        /\ batches' = batches \ {b}
        /\ UNCHANGED <<job, rootSend, cooling, runVars, posted, failures>>
        /\ Replan /\ Notify
    BY <1>0, <1>17 DEF ReplySent, TypeOK, BatchesOf
  <2>2. CASE closing[c] /\ frames[c] = << >> /\ inFlight[c] = 1
    <3>1. Remove(c, "drained")
      BY <1>17, <2>2 DEF ReplySent
    <3>2. posted[c] = Given(c)
      <4>1. Cardinality(BatchesOf(c)) = 1 /\ IsFiniteSet(BatchesOf(c))
        BY <1>0, <2>1, <2>2 DEF ConnInv, QueueInv, LifeInv
      <4>2. BatchesOf(c) = {b}
        BY <2>1, <4>1, FS_Singleton
      <4> QED BY <1>0, <2>1, <2>2, <4>2, NothingFlies
    <3>3. pc' \in {"check", "idle", "armed", "flush"} /\ timer' \in Nat /\ resched' \in BOOLEAN
      BY <1>0, <2>1 DEF TypeOK, runVars, Notify
    <3> QED BY <1>3, <2>1, <3>1, <3>2, <3>3
  <2>3. CASE ~(closing[c] /\ frames[c] = << >> /\ inFlight[c] = 1)
    <3>1. /\ inFlight' = [inFlight EXCEPT ![c] = @ - 1]
          /\ hbIn' = [hbIn EXCEPT ![c] = Interval]
          /\ UNCHANGED <<state, nextSeq, frames, closing, outcome>>
      BY <1>17, <2>3 DEF ReplySent
    <3>2. hbIn' \in [Conns -> 0 .. Interval] /\ frames' \in [Conns -> Seq(Frame)]
          /\ failures' \in 0 .. MaxFailures
      BY <1>0, <2>1, <3>1 DEF TypeOK
    <3>3. JobTypes' /\ PlanTypes'
      BY <1>16, <2>1, <3>2
    <3> QED BY <1>13, <2>1, <3>1, <3>2, <3>3
  <2> QED BY <2>2, <2>3
<1>18. ASSUME NEW b \in batches, ReplyFailedRetryably(b) PROVE QueuesInv'
  <2> DEFINE c == b.conn
  <2>1. /\ c \in Conns /\ state[c] = "open" /\ b.frames \in Seq(Frame) /\ frames[c] \in Seq(Frame)
        /\ batches' = batches \ {b}
        /\ frames' = [frames EXCEPT ![c] = b.frames \o @]
        /\ inFlight' = [inFlight EXCEPT ![c] = @ - 1]
        /\ UNCHANGED <<state, nextSeq, closing, hbIn, outcome, job, rootSend, cooling,
                       runVars, posted>>
        /\ Replan /\ Notify
    BY <1>0, <1>18 DEF ReplyFailedRetryably, TypeOK
  <2>2. failures' \in 0 .. MaxFailures /\ hbIn' \in [Conns -> 0 .. Interval]
    BY <1>0, <1>18 DEF ReplyFailedRetryably, TypeOK
  <2>3. frames' \in [Conns -> Seq(Frame)] /\ \A d \in Conns \ {c} : frames'[d] = frames[d]
    <3>1. b.frames \o frames[c] \in Seq(Frame)
      BY <2>1, PutBack
    <3> QED BY <1>0, <2>1, <3>1 DEF TypeOK
  <2>4. JobTypes' /\ PlanTypes'
    BY <1>16, <2>1, <2>2
  <2> QED BY <1>13, <2>1, <2>2, <2>3, <2>4
<1>19. ASSUME NEW b \in batches, ReplyFailed(b) PROVE QueuesInv'
  <2>1. b.conn \in Conns /\ batches' = batches \ {b} /\ Remove(b.conn, "dropped")
    BY <1>0, <1>19 DEF ReplyFailed, TypeOK
  <2>2. pc' \in {"check", "idle", "armed", "flush"} /\ timer' \in Nat /\ resched' \in BOOLEAN
    BY <1>0, <1>19 DEF ReplyFailed, TypeOK, runVars, Notify
  <2> QED BY <1>3, <1>19, <2>1, <2>2 DEF ReplyFailed
<1>20. ASSUME NEW j \in Jobs, LarkPostsRoot(j) \/ LarkNeverAnswersRoot(j) PROVE QueuesInv'
  <2>1. JobTypes' /\ PlanTypes'
    BY <1>0, <1>20
       DEF LarkPostsRoot, LarkNeverAnswersRoot, TypeOK, JobTypes, PlanTypes, runVars
  <2> QED BY <1>6, <1>20, <2>1 DEF LarkPostsRoot, LarkNeverAnswersRoot
<1>21. ASSUME NEW j \in Jobs, RootSent(j) \/ RootFailedRetryably(j) \/ RootFailed(j)
       PROVE  QueuesInv'
  <2>1. /\ UNCHANGED <<connVars, batches, cooling, runVars, posted>> /\ Replan /\ Notify
        /\ rootSend' = [rootSend EXCEPT ![j] = "none"]
    BY <1>21 DEF RootSent, RootFailedRetryably, RootFailed
  <2>2. PlanTypes'
    <3>1. flushIn' \in Nat \union {NoFlush}
      BY <1>0, <1>7, <2>1 DEF connVars, TypeOK
    <3> QED BY <1>0, <2>1, <3>1 DEF TypeOK, PlanTypes, runVars, Notify
  <2>3. JobTypes'
    <3> DEFINE Job == [state : {"new", "answered", "returned"} \union InMap,
                       huge : BOOLEAN, age : 0 .. MaxAge,
                       result : {"none", "ok", "error", "too_large", "canceled"}]
    <3>1. job \in [Jobs -> Job] /\ rootSend' \in [Jobs -> {"none", "sending", "posted", "lost"}]
      BY <1>0, <2>1 DEF TypeOK
    <3>2. /\ [job[j] EXCEPT !.state = "answered", !.result = "ok"] \in Job
          /\ [job[j] EXCEPT !.state = "answered", !.result = "error"] \in Job
          /\ [job[j] EXCEPT !.state = "queued"] \in Job
      BY <3>1 DEF InMap
    <3>3. \/ job' = job
          \/ job' = [job EXCEPT ![j] = [job[j] EXCEPT !.state = "answered", !.result = "ok"]]
          \/ job' = [job EXCEPT ![j] = [job[j] EXCEPT !.state = "answered", !.result = "error"]]
          \/ job' = [job EXCEPT ![j] = [job[j] EXCEPT !.state = "queued"]]
      BY <1>21, <3>1 DEF RootSent, RootFailedRetryably, RootFailed
    <3>4. job' \in [Jobs -> Job]
      BY <3>1, <3>2, <3>3
    <3>5. failures' \in 0 .. MaxFailures
      BY <1>0, <1>21 DEF RootSent, RootFailedRetryably, RootFailed, TypeOK
    <3> QED BY <3>1, <3>4, <3>5 DEF JobTypes
  <2> QED BY <1>6, <2>1, <2>2, <2>3
<1>22. CASE Elapse
  BY <1>22, ElapseInv
<1>23. CASE UNCHANGED vars
  <2>1. TypeOK'
    BY <1>0, <1>23 DEF vars, TypeOK
  <2> QED BY <1>23, <2>1, QueuesStutter DEF vars
<1> QED
  BY <1>1, <1>2, <1>4, <1>5, <1>8, <1>9, <1>10, <1>11, <1>12, <1>15, <1>17, <1>18,
     <1>19, <1>20, <1>21, <1>22, <1>23, <1>a, <1>b DEF Next, Calls, RunLoop, Sends, Silence

-----------------------------------------------------------------------------
(***************************************************************************)
(* The inductive invariant: the plan.                                      *)
(***************************************************************************)

LEMMA InitPlanInv == Init => PlanInv
  BY OutboundAssumption
     DEF OutboundAssumption, Init, PlanInv, NoLostWakeup, CooldownHolds, Waiting, Open

\* A step outside run() that plans anew.
LEMMA PlanStep ==
    ASSUME TypeOK, PlanInv, TypeOK', UNCHANGED <<cooling, runVars>>, resched',
           flushIn' # NoFlush => cooling' <= flushIn', Waiting' => flushIn' # NoFlush
    PROVE  PlanInv'
  BY DEF PlanInv, NoLostWakeup, CooldownHolds, runVars

\* A step outside run() that leaves the plan as it is.
LEMMA NoPlanStep ==
    ASSUME PlanInv, UNCHANGED <<cooling, flushIn, runVars>>, resched => resched',
           Waiting' => Waiting
    PROVE  PlanInv'
  BY DEF PlanInv, NoLostWakeup, CooldownHolds, runVars

LEMMA NextPlanInv == TypeOK /\ TypeOK' /\ PlanInv /\ [Next]_vars => PlanInv'
<1> SUFFICES ASSUME TypeOK, TypeOK', PlanInv, [Next]_vars PROVE PlanInv'
  OBVIOUS
<1> USE OutboundAssumption DEF OutboundAssumption
<1>1. ASSUME Replan, Notify, UNCHANGED <<cooling, runVars>> PROVE PlanInv'
  <2>1. /\ flushIn' # NoFlush => cooling' <= flushIn'
        /\ Waiting' => flushIn' # NoFlush
    BY <1>1, ReplanFacts DEF TypeOK
  <2> QED BY <1>1, <2>1, PlanStep DEF Notify
<1>2. ASSUME ScheduleReady, Notify, UNCHANGED <<cooling, runVars>> PROVE PlanInv'
  <2>1. cooling' <= flushIn' /\ flushIn' # NoFlush
    BY <1>2, ScheduleReadyFacts DEF PlanInv, CooldownHolds
  <2> QED BY <1>2, <2>1, PlanStep DEF Notify
<1>3. ASSUME NEW c \in Conns, RegisterConnection(c) \/ DropConnection(c) PROVE PlanInv'
  BY <1>1, <1>3 DEF RegisterConnection, DropConnection
<1>4. ASSUME NEW c \in Conns, NEW huge \in BOOLEAN, Enqueue(c, huge) PROVE PlanInv'
  BY <1>2, <1>4 DEF Enqueue
<1>5. ASSUME NEW c \in Conns, MarkCloseAfterDrained(c) PROVE PlanInv'
  <2>1. CASE frames[c] = << >> /\ inFlight[c] = 0
    BY <1>1, <1>5, <2>1 DEF MarkCloseAfterDrained
  <2>2. CASE ~(frames[c] = << >> /\ inFlight[c] = 0)
    <3>1. /\ UNCHANGED <<state, nextSeq, frames, job, cooling, flushIn, runVars>> /\ resched'
      BY <1>5, <2>2 DEF MarkCloseAfterDrained, Notify
    <3>2. Waiting' => Waiting
      BY <3>1 DEF Waiting, Open, HasHeartbeat
    <3> QED BY <3>1, <3>2, NoPlanStep
  <2> QED BY <2>1, <2>2
<1>6. ASSUME NEW j \in Jobs, NEW huge \in BOOLEAN, OpenRoot(j, huge) PROVE PlanInv'
  BY <1>2, <1>6 DEF OpenRoot
<1>7. ASSUME NEW j \in Jobs, CancelOpenRoot(j) \/ OpenRootReturns(j) PROVE PlanInv'
  <2>1. CASE CancelOpenRoot(j) /\ job[j].state \in InMap
    BY <1>1, <2>1 DEF CancelOpenRoot
  <2>2. CASE OpenRootReturns(j) \/ (CancelOpenRoot(j) /\ job[j].state \notin InMap)
    <3>1. /\ UNCHANGED <<connVars, cooling, flushIn, runVars>> /\ (resched => resched')
          /\ job \in [Jobs -> [state : {"new", "answered", "returned"} \union InMap,
                               huge : BOOLEAN, age : 0 .. MaxAge,
                               result : {"none", "ok", "error", "too_large", "canceled"}]]
      BY <2>2 DEF CancelOpenRoot, OpenRootReturns, Notify, TypeOK
    <3>2. \A k \in Jobs : job'[k].state = "queued" => job[k].state = "queued"
      <4>1. ASSUME NEW k \in Jobs, k # j PROVE job'[k] = job[k]
        BY <2>2, <3>1, <4>1 DEF CancelOpenRoot, OpenRootReturns
      <4>2. job'[j].state = "returned"
        BY <2>2, <3>1 DEF CancelOpenRoot, OpenRootReturns
      <4> QED BY <4>1, <4>2
    <3>3. Waiting' => Waiting
      BY <3>1, <3>2 DEF Waiting, Open, HasHeartbeat, connVars
    <3> QED BY <3>1, <3>3, NoPlanStep
  <2> QED BY <1>7, <2>1, <2>2
<1>8. CASE RunCheck
  <2>1. CASE flushIn = NoFlush
    BY <1>8, <2>1 DEF RunCheck, PlanInv, NoLostWakeup, CooldownHolds, Waiting, Open,
                      HasHeartbeat, connVars
  <2>2. CASE flushIn \in Nat
    <3>1. /\ pc' \in {"flush", "armed"} /\ (pc' = "flush" => flushIn = 0) /\ timer' = flushIn
          /\ UNCHANGED <<connVars, job, cooling, flushIn>>
      BY <1>8, <2>2 DEF RunCheck
    <3>2. Waiting' => Waiting
      BY <3>1 DEF Waiting, Open, HasHeartbeat, connVars
    <3>3. cooling \in Nat /\ cooling <= flushIn
      BY <2>2 DEF TypeOK, PlanInv, CooldownHolds
    <3> QED BY <2>2, <3>1, <3>2, <3>3 DEF PlanInv, NoLostWakeup, CooldownHolds
  <2> QED BY <2>1, <2>2 DEF TypeOK
<1>9. CASE RunWake
  <2>1. Waiting' => Waiting
    BY <1>9 DEF RunWake, Waiting, Open, HasHeartbeat, connVars
  <2> QED BY <1>9, <2>1 DEF RunWake, PlanInv, NoLostWakeup, CooldownHolds
<1>10. CASE RunTimer
  <2>1. Waiting' => Waiting
    BY <1>10 DEF RunTimer, Waiting, Open, HasHeartbeat, connVars
  <2> QED BY <1>10, <2>1 DEF RunTimer, PlanInv, NoLostWakeup, CooldownHolds, TypeOK
<1>11. CASE Flush
  <2>1. Replan /\ pc' = "check"
    BY <1>11 DEF Flush
  <2>2. /\ flushIn' # NoFlush => cooling' <= flushIn'
        /\ Waiting' => flushIn' # NoFlush
    BY <2>1, ReplanFacts DEF TypeOK
  <2> QED BY <2>1, <2>2 DEF PlanInv, NoLostWakeup, CooldownHolds
<1>12. ASSUME NEW b \in batches, LarkPostsReply(b) \/ LarkNeverAnswersReply(b) PROVE PlanInv'
  <2>1. /\ UNCHANGED <<connVars, job, cooling, flushIn, runVars, resched>>
    BY <1>12 DEF LarkPostsReply, LarkNeverAnswersReply
  <2>2. Waiting' => Waiting
    BY <2>1 DEF Waiting, Open, HasHeartbeat, connVars
  <2> QED BY <2>1, <2>2, NoPlanStep
<1>13. ASSUME NEW j \in Jobs, LarkPostsRoot(j) \/ LarkNeverAnswersRoot(j) PROVE PlanInv'
  <2>1. /\ UNCHANGED <<connVars, job, cooling, flushIn, runVars, resched>>
    BY <1>13 DEF LarkPostsRoot, LarkNeverAnswersRoot
  <2>2. Waiting' => Waiting
    BY <2>1 DEF Waiting, Open, HasHeartbeat, connVars
  <2> QED BY <2>1, <2>2, NoPlanStep
<1>14. ASSUME NEW b \in batches,
              \/ ReplyIgnored(b) \/ ReplySent(b) \/ ReplyFailedRetryably(b) \/ ReplyFailed(b)
       PROVE  PlanInv'
  BY <1>1, <1>14 DEF ReplyIgnored, ReplySent, ReplyFailedRetryably, ReplyFailed
<1>15. ASSUME NEW j \in Jobs, RootSent(j) \/ RootFailedRetryably(j) \/ RootFailed(j)
       PROVE  PlanInv'
  BY <1>1, <1>15 DEF RootSent, RootFailedRetryably, RootFailed
<1>16. CASE Elapse
  <2>1. /\ cooling' = Sooner(cooling) /\ timer' = Sooner(timer)
        /\ flushIn' = IF flushIn = NoFlush THEN NoFlush ELSE Sooner(flushIn)
        /\ UNCHANGED <<state, nextSeq, pc, resched>>
        /\ frames' = [c \in Conns |-> Aged(frames[c])]
    BY <1>16 DEF Elapse
  <2>2. cooling \in Nat /\ timer \in Nat /\ (flushIn # NoFlush => flushIn \in Nat)
    BY DEF TypeOK
  <2>3. \A m, n \in Nat : /\ (m <= n => Sooner(m) <= Sooner(n))
                          /\ (Sooner(m) < Sooner(n) => m < n)
                          /\ Sooner(m) \in Nat
    BY DEF Sooner
  <2>4. Waiting' => Waiting
    <3>1. ASSUME NEW j \in Jobs, job'[j].state = "queued" PROVE job[j].state = "queued"
      <4>1. job' = [k \in Jobs |-> IF job[k].state \in InMap
                                   THEN [job[k] EXCEPT !.age = Older(job[k].age)] ELSE job[k]]
        BY <1>16 DEF Elapse
      <4>2. job[j] \in [state : {"new", "answered", "returned"} \union InMap,
                        huge : BOOLEAN, age : 0 .. MaxAge,
                        result : {"none", "ok", "error", "too_large", "canceled"}]
        BY DEF TypeOK
      <4>3. job'[j].state = job[j].state
        BY <4>1, <4>2
      <4> QED BY <3>1, <4>3
    <3>2. \A c \in Conns : frames'[c] = << >> <=> frames[c] = << >>
      BY <2>1, AgedFrames DEF TypeOK
    <3> QED BY <2>1, <3>1, <3>2 DEF Waiting, Open, HasHeartbeat
  <2>5. NoLostWakeup'
    BY <2>1, <2>2, <2>3, <2>4 DEF PlanInv, NoLostWakeup
  <2>6. CooldownHolds'
    <3>1. Sooner(0) = 0
      BY DEF Sooner
    <3> QED BY <2>1, <2>2, <2>3, <3>1 DEF PlanInv, CooldownHolds
  <2> QED BY <2>5, <2>6 DEF PlanInv
<1>17. CASE UNCHANGED vars
  <2>1. Waiting' => Waiting
    BY <1>17 DEF vars, Waiting, Open, HasHeartbeat
  <2> QED BY <1>17, <2>1, NoPlanStep DEF vars, runVars
<1> QED
  BY <1>3, <1>4, <1>5, <1>6, <1>7, <1>8, <1>9, <1>10, <1>11, <1>12, <1>13, <1>14, <1>15,
     <1>16, <1>17 DEF Next, Calls, RunLoop, Sends, Silence

-----------------------------------------------------------------------------
(***************************************************************************)
(* The theorems.                                                           *)
(***************************************************************************)

OutboundInv == QueuesInv /\ PlanInv

THEOREM SpecOutboundInv == Spec => []OutboundInv
<1>1. Init => OutboundInv
  BY InitQueuesInv, InitPlanInv DEF OutboundInv
<1>2. OutboundInv /\ [Next]_vars => OutboundInv'
  BY NextQueuesInv, NextPlanInv DEF OutboundInv, QueuesInv, PlanInv
<1> QED BY <1>1, <1>2, PTL DEF Spec

\* The variables of the queue and of the goroutines stay in their types; the
\* counter of batches never goes below zero (commitReplyResult in manager.go).
THEOREM SpecTypeOK == Spec => []TypeOK
<1>1. OutboundInv => TypeOK
  BY DEF OutboundInv, QueuesInv
<1> QED BY <1>1, SpecOutboundInv, PTL

\* No frame of a connection is lost, however many of its batches are on their
\* way at once, whichever fail and in whichever order their results come in
\* (popReplyBatchLocked, commitReplyResult).
THEOREM SpecNothingLost == Spec => []NothingLost
<1>1. OutboundInv => NothingLost
  BY DEF OutboundInv, QueuesInv, ConnInv, LifeInv, NothingLost, Open, Given
<1> QED BY <1>1, SpecOutboundInv, PTL

\* No frame is in two places, so that none is sent twice but by a batch that
\* came back.
THEOREM SpecOnePlace == Spec => []OnePlace
<1>1. OutboundInv => OnePlace
  <2> SUFFICES ASSUME OutboundInv, NEW c \in Conns
               PROVE  /\ Distinct(frames[c]) /\ SeqsOf(frames[c]) \intersect Flying(c) = {}
                      /\ \A a, b \in BatchesOf(c) :
                             a # b => SeqsOf(a.frames) \intersect SeqsOf(b.frames) = {}
    BY DEF OnePlace, Open, Distinct
  <2> QED BY DEF OutboundInv, QueuesInv, ConnInv, QueueInv, Disjoint, Flying
<1> QED BY <1>1, SpecOutboundInv, PTL

\* The counter of a connection is the number of its batches.
THEOREM SpecInFlightCounts == Spec => []InFlightCounts
<1>1. OutboundInv => InFlightCounts
  BY DEF OutboundInv, QueuesInv, ConnInv, LifeInv, InFlightCounts, Open
<1> QED BY <1>1, SpecOutboundInv, PTL

\* onDrained comes only after the last frame has been posted
\* (MarkCloseAfterDrained, commitReplyResult).
THEOREM SpecDrainedIsPosted == Spec => []DrainedIsPosted
<1>1. OutboundInv => DrainedIsPosted
  BY DEF OutboundInv, QueuesInv, ConnInv, LifeInv, DrainedIsPosted, Given
<1> QED BY <1>1, SpecOutboundInv, PTL

\* run() never sleeps past what waits (replanLocked, currentWaitLocked,
\* notifyReschedule).
THEOREM SpecNoLostWakeup == Spec => []NoLostWakeup
<1>1. OutboundInv => NoLostWakeup
  BY DEF OutboundInv, PlanInv
<1> QED BY <1>1, SpecOutboundInv, PTL

\* Only flushOnce sends, and it is only reached when the cooldown is over.
LEMMA AttemptAfterCooldown ==
    ASSUME TypeOK, PlanInv, Next, Attempt
    PROVE  cooling = 0 /\ cooling' = Cooldown
<1>1. CASE Flush
  <2>1. cooling = 0
    BY <1>1 DEF Flush, PlanInv, CooldownHolds
  <2>2. ASSUME UNCHANGED <<batches, rootSend>> PROVE FALSE
    BY <2>2 DEF Attempt
  <2>3. ASSUME NEW c \in Conns, FlushTooLarge(c) PROVE FALSE
    BY <2>2, <2>3 DEF FlushTooLarge
  <2>4. CASE FlushNothing
    BY <2>2, <2>4 DEF FlushNothing
  <2>5. ASSUME NEW j \in Jobs, FlushRootTooLarge(j) PROVE FALSE
    BY <2>2, <2>5 DEF FlushRootTooLarge
  <2>6. ASSUME NEW c \in Conns, FlushHeartbeat(c) \/ FlushConn(c) PROVE cooling' = Cooldown
    BY <2>6 DEF FlushHeartbeat, FlushConn, PopReplyBatch
  <2>7. ASSUME NEW j \in Jobs, FlushRoot(j) PROVE cooling' = Cooldown
    BY <2>7 DEF FlushRoot
  <2> QED BY <1>1, <2>1, <2>3, <2>4, <2>5, <2>6, <2>7 DEF Flush
\* Every other step leaves no batch that was not there, and starts no root.
<1>2. ASSUME \A b \in batches' : \E a \in batches :
                 a.conn = b.conn /\ SeqsOf(a.frames) = SeqsOf(b.frames),
             \A j \in Jobs : rootSend'[j] = "sending" => rootSend[j] = "sending"
      PROVE  FALSE
  BY <1>2 DEF Attempt
<1>3. ASSUME batches' \subseteq batches, UNCHANGED rootSend PROVE FALSE
  BY <1>2, <1>3
<1>4. CASE Calls \/ \E j \in Jobs : OpenRootReturns(j)
  BY <1>3, <1>4 DEF Calls, RegisterConnection, Enqueue, MarkCloseAfterDrained, DropConnection,
                    OpenRoot, CancelOpenRoot, OpenRootReturns
<1>5. CASE RunCheck \/ RunWake \/ RunTimer
  BY <1>3, <1>5 DEF RunCheck, RunWake, RunTimer
<1>6. ASSUME NEW b \in batches, LarkPostsReply(b) \/ LarkNeverAnswersReply(b) PROVE FALSE
  <2>1. /\ \/ batches' = (batches \ {b}) \union {[b EXCEPT !.posted = TRUE]}
           \/ batches' = (batches \ {b}) \union {[b EXCEPT !.lost = TRUE]}
        /\ rootSend' = rootSend /\ b \in [conn : Conns, frames : Seq(Frame), posted : BOOLEAN, lost : BOOLEAN]
    BY <1>6 DEF LarkPostsReply, LarkNeverAnswersReply, TypeOK
  <2>2. /\ [b EXCEPT !.posted = TRUE].conn = b.conn /\ [b EXCEPT !.posted = TRUE].frames = b.frames
        /\ [b EXCEPT !.lost = TRUE].conn = b.conn /\ [b EXCEPT !.lost = TRUE].frames = b.frames
    BY <2>1
  <2> QED BY <1>2, <2>1, <2>2
<1>7. ASSUME NEW b \in batches,
             \/ ReplyIgnored(b) \/ ReplySent(b) \/ ReplyFailedRetryably(b) \/ ReplyFailed(b)
      PROVE  FALSE
  BY <1>3, <1>7 DEF ReplyIgnored, ReplySent, ReplyFailedRetryably, ReplyFailed
<1>8. ASSUME NEW j \in Jobs,
             \/ LarkPostsRoot(j) \/ LarkNeverAnswersRoot(j)
             \/ RootSent(j) \/ RootFailedRetryably(j) \/ RootFailed(j)
      PROVE  FALSE
  <2>1. /\ batches' = batches
        /\ \E s \in {"posted", "lost", "none"} : rootSend' = [rootSend EXCEPT ![j] = s]
    BY <1>8 DEF LarkPostsRoot, LarkNeverAnswersRoot, RootSent, RootFailedRetryably, RootFailed
  <2>2. \A k \in Jobs : rootSend'[k] = "sending" => rootSend[k] = "sending"
    BY <2>1 DEF TypeOK
  <2> QED BY <1>2, <2>1, <2>2
<1>9. CASE Elapse
  <2>1. batches' = {AgedBatch(b) : b \in batches} /\ rootSend' = rootSend
    BY <1>9 DEF Elapse, AgedBatch
  <2>2. \A b \in batches : /\ AgedBatch(b).conn = b.conn
                           /\ SeqsOf(AgedBatch(b).frames) = SeqsOf(b.frames)
    BY AgedBatches DEF TypeOK
  <2> QED BY <1>2, <2>1, <2>2
<1> QED
  BY <1>1, <1>4, <1>5, <1>6, <1>7, <1>8, <1>9 DEF Next, RunLoop, Sends, Silence

\* Two attempts in a chat are a cooldown apart, whatever becomes of the plan
\* between the timer of run() and its flush (lark.send_cooldown, flushOnce).
THEOREM SpecCooldownKept == Spec => CooldownKept
<1>1. OutboundInv /\ [Next]_vars =>
          [Attempt => cooling = 0 /\ cooling' = Cooldown]_vars
  BY AttemptAfterCooldown DEF OutboundInv, QueuesInv
<1> QED BY <1>1, SpecOutboundInv, PTL DEF Spec, CooldownKept

-----------------------------------------------------------------------------
(***************************************************************************)
(* The queue implements the abstract ReplyQueue.  Registering a connection,*)
(* numbering a frame, posting a message and removing a connection are its  *)
(* steps; plan, timer, batches and root jobs are hidden.                   *)
(***************************************************************************)
promised == <<state, Numbered, posted, outcome>>

LEMMA NumberedStays ==
    ASSUME UNCHANGED nextSeq PROVE UNCHANGED Numbered
  BY DEF Numbered

LEMMA NumbersOne ==
    ASSUME TypeOK, NEW c \in Conns, state[c] = "open",
           nextSeq' = [nextSeq EXCEPT ![c] = @ + 1], UNCHANGED <<state, posted, outcome>>
    PROVE  Replies!Numbers(c)
<1>1. nextSeq \in [Conns -> 1 .. MaxFrames + 1] /\ MaxFrames \in Nat
  BY OutboundAssumption DEF TypeOK
<1>2. Numbered' = [Numbered EXCEPT ![c] = @ + 1]
  <2>1. Numbered' = [d \in Conns |-> IF d = c THEN nextSeq[c] + 1 - 1 ELSE nextSeq[d] - 1]
    BY <1>1 DEF Numbered
  <2>2. nextSeq[c] + 1 - 1 = nextSeq[c] - 1 + 1
    BY <1>1
  <2> QED BY <2>1, <2>2 DEF Numbered
<1> QED BY <1>2 DEF Replies!Numbers

LEMMA RemoveGoes ==
    ASSUME NEW c \in Conns, NEW why \in {"drained", "dropped", "removed"},
           state[c] = "open", Remove(c, why), UNCHANGED posted,
           why = "drained" => posted[c] = 1 .. Numbered[c]
    PROVE  Replies!Goes(c)
  BY NumberedStays DEF Remove, Replies!Goes

LEMMA InitPromised == Init => Replies!Init
<1> SUFFICES ASSUME Init PROVE Replies!Init
  OBVIOUS
<1>1. Numbered = [c \in Conns |-> 0]
  BY DEF Init, Numbered
<1> QED BY <1>1 DEF Init, Replies!Init

LEMMA NextPromised ==
    ASSUME OutboundInv, OutboundInv', [Next]_vars
    PROVE  [Replies!Next]_promised
<1> SUFFICES ASSUME ~UNCHANGED promised PROVE \E c \in Conns : \/ Replies!Opens(c) \/ Replies!Numbers(c)
                                                         \/ Replies!Posts(c) \/ Replies!Goes(c)
  BY DEF promised, Replies!Next
<1>t. TypeOK /\ \A c \in Conns : ConnInv(c)
  BY DEF OutboundInv, QueuesInv
<1>0. ASSUME UNCHANGED <<state, nextSeq, posted, outcome>> PROVE FALSE
  BY <1>0, NumberedStays DEF promised
<1>g. \A c \in Conns : Given(c) = 1 .. Numbered[c]
  BY DEF Given, Numbered
\* A connection that drains in this step has posted all it has numbered.
<1>d. ASSUME NEW c \in Conns, Remove(c, "drained"), state[c] = "open", UNCHANGED posted
      PROVE  Replies!Goes(c)
  <2>1. outcome'[c] = "drained" /\ nextSeq' = nextSeq
    BY <1>d, <1>t DEF Remove, TypeOK
  <2>2. posted'[c] = Given(c)'
    BY <2>1 DEF OutboundInv, QueuesInv, ConnInv, LifeInv
  <2>3. posted[c] = 1 .. Numbered[c]
    BY <1>d, <1>g, <2>1, <2>2 DEF Given
  <2> QED BY <1>d, <2>3, RemoveGoes
<1>1. ASSUME NEW c \in Conns, RegisterConnection(c) PROVE Replies!Opens(c)
  BY <1>1, NumberedStays DEF RegisterConnection, Replies!Opens
<1>2. ASSUME NEW c \in Conns, NEW huge \in BOOLEAN, Enqueue(c, huge) PROVE Replies!Numbers(c)
  BY <1>2, <1>t, NumbersOne DEF Enqueue
<1>3. ASSUME NEW c \in Conns, MarkCloseAfterDrained(c) PROVE Replies!Goes(c)
  BY <1>0, <1>3, <1>d DEF MarkCloseAfterDrained
<1>4. ASSUME NEW c \in Conns, DropConnection(c) PROVE Replies!Goes(c)
  BY <1>4, RemoveGoes DEF DropConnection
<1>5. ASSUME NEW c \in Conns, FlushHeartbeat(c) PROVE Replies!Numbers(c)
  <2>1. state[c] = "open" /\ UNCHANGED <<state, posted, outcome>>
    BY <1>5 DEF FlushHeartbeat, DueHeartbeats, HasHeartbeat, PopReplyBatch
  <2>2. nextSeq' = nextSeq \/ nextSeq' = [nextSeq EXCEPT ![c] = @ + 1]
    BY <1>5 DEF FlushHeartbeat
  <2> QED BY <1>0, <1>t, <2>1, <2>2, NumbersOne
<1>6. ASSUME NEW c \in Conns, FlushConn(c) PROVE FALSE
  BY <1>0, <1>6 DEF FlushConn, PopReplyBatch
<1>7. ASSUME NEW c \in Conns, FlushTooLarge(c) PROVE Replies!Goes(c)
  <2>1. state[c] = "open"
    BY <1>7 DEF FlushTooLarge, DueHeartbeats, HasHeartbeat, OldestConns, Open
  <2> QED BY <1>7, <2>1, RemoveGoes DEF FlushTooLarge
<1>8. ASSUME NEW b \in batches, LarkPostsReply(b) PROVE Replies!Posts(b.conn)
  <2>1. b.conn \in Conns /\ SeqsOf(b.frames) \subseteq Given(b.conn)
    BY <1>t DEF TypeOK, ConnInv, QueueInv, BatchesOf
  <2>2. SeqsOf(b.frames) \in SUBSET (1 .. Numbered[b.conn])
    BY <1>g, <2>1
  <2> QED BY <1>8, <2>2, NumberedStays DEF LarkPostsReply, connVars, Replies!Posts
<1>9. ASSUME NEW b \in batches, ReplySent(b) PROVE Replies!Goes(b.conn)
  BY <1>0, <1>9, <1>d, <1>t DEF ReplySent, TypeOK
<1>10. ASSUME NEW b \in batches, ReplyFailed(b) PROVE Replies!Goes(b.conn)
  BY <1>10, <1>t, RemoveGoes DEF ReplyFailed, TypeOK
<1>11. ASSUME NEW b \in batches,
              ReplyIgnored(b) \/ ReplyFailedRetryably(b) \/ LarkNeverAnswersReply(b)
       PROVE  FALSE
  BY <1>0, <1>11 DEF ReplyIgnored, ReplyFailedRetryably, LarkNeverAnswersReply, connVars
<1>12. ASSUME NEW j \in Jobs,
              \/ (\E huge \in BOOLEAN : OpenRoot(j, huge)) \/ CancelOpenRoot(j) \/ OpenRootReturns(j)
              \/ FlushRoot(j) \/ FlushRootTooLarge(j) \/ LarkPostsRoot(j)
              \/ LarkNeverAnswersRoot(j) \/ RootSent(j) \/ RootFailedRetryably(j) \/ RootFailed(j)
       PROVE  FALSE
  BY <1>0, <1>12 DEF OpenRoot, CancelOpenRoot, OpenRootReturns, FlushRoot, FlushRootTooLarge,
                     LarkPostsRoot, LarkNeverAnswersRoot, RootSent, RootFailedRetryably,
                     RootFailed, connVars
<1>13. ASSUME RunCheck \/ RunWake \/ RunTimer \/ FlushNothing \/ Elapse \/ UNCHANGED vars PROVE FALSE
  BY <1>0, <1>13 DEF RunCheck, RunWake, RunTimer, FlushNothing, Elapse, connVars, vars
<1>14. \A b \in batches : b.conn \in Conns
  BY <1>t DEF TypeOK
<1>15. CASE Calls
  BY <1>1, <1>2, <1>3, <1>4, <1>12, <1>15 DEF Calls
<1>16. CASE RunLoop
  BY <1>5, <1>6, <1>7, <1>12, <1>13, <1>16 DEF RunLoop, Flush
<1>17. CASE Sends
  BY <1>8, <1>9, <1>10, <1>11, <1>12, <1>14, <1>17 DEF Sends
<1> QED BY <1>11, <1>12, <1>13, <1>15, <1>16, <1>17 DEF Next, Silence

\* The session layer can rely on the promise, for any number of connections
\* and whatever fails: frames are numbered for a connection in the map only,
\* and it is told once why a connection went, "drained" only when every frame
\* is in the chat (commitReplyResult, MarkCloseAfterDrained, dropConnLocked).
THEOREM SpecImplementsReplyQueue == Spec => ImplementsReplyQueue
<1>1. Init => Replies!Init
  BY InitPromised
<1>2. OutboundInv /\ OutboundInv' /\ [Next]_vars => [Replies!Next]_promised
  BY NextPromised
<1> QED BY <1>1, <1>2, SpecOutboundInv, PTL
        DEF Spec, ImplementsReplyQueue, Replies!Spec, promised
=============================================================================
