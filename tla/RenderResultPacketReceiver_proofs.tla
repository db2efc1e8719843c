----------------- MODULE RenderResultPacketReceiver_proofs ------------------
(***************************************************************************)
(* Invariance and refinement proofs for RenderResultPacketReceiver, for    *)
(* every number of iterations and of sequences.                            *)
(***************************************************************************)
EXTENDS RenderResultPacketReceiver, SequenceTheorems, FiniteSetTheorems, TLAPS

-----------------------------------------------------------------------------
(***************************************************************************)
(* Lemmas about sequences                                                  *)
(***************************************************************************)

\* InsertAt, element by element.
LEMMA InsertAtProperties ==
    ASSUME NEW S, NEW s \in Seq(S), NEW e \in S, NEW i \in 1 .. Len(s) + 1
    PROVE  /\ InsertAt(s, i, e) \in Seq(S)
           /\ Len(InsertAt(s, i, e)) = Len(s) + 1
           /\ \A j \in 1 .. Len(s) + 1 :
                  InsertAt(s, i, e)[j] = IF j < i THEN s[j]
                                         ELSE IF j = i THEN e ELSE s[j - 1]
<1> DEFINE before == SubSeq(s, 1, i - 1)
           after  == SubSeq(s, i, Len(s))
<1>1. /\ before \in Seq(S) /\ Len(before) = i - 1
      /\ \A j \in 1 .. i - 1 : before[j] = s[j]
  OBVIOUS
<1>2. /\ after \in Seq(S) /\ Len(after) = Len(s) - i + 1
      /\ \A j \in 1 .. Len(s) - i + 1 : after[j] = s[i + j - 1]
  OBVIOUS
<1> HIDE DEF before, after
<1>3. /\ before \o <<e>> \in Seq(S) /\ Len(before \o <<e>>) = i
      /\ \A j \in 1 .. i : (before \o <<e>>)[j] = IF j < i THEN s[j] ELSE e
  BY <1>1
<1> DEFINE front == before \o <<e>>
<1>4. /\ front \in Seq(S) /\ Len(front) = i
      /\ \A j \in 1 .. i : front[j] = IF j < i THEN s[j] ELSE e
  BY <1>3
<1> HIDE DEF front
<1>5. /\ front \o after \in Seq(S) /\ Len(front \o after) = Len(s) + 1
      /\ \A j \in 1 .. Len(s) + 1 : (front \o after)[j] =
             IF j <= i THEN front[j] ELSE after[j - i]
  <2>1. /\ front \o after \in Seq(S)
        /\ Len(front \o after) = Len(front) + Len(after)
        /\ \A j \in 1 .. Len(front) + Len(after) : (front \o after)[j] =
               IF j <= Len(front) THEN front[j] ELSE after[j - Len(front)]
    BY <1>2, <1>4, ConcatProperties
  <2>2. Len(front) = i /\ Len(front) + Len(after) = Len(s) + 1
    BY <1>2, <1>4
  <2>3. QED
    BY <2>1, <2>2
<1>6. InsertAt(s, i, e) = front \o after
  BY DEF InsertAt, front, before, after
<1>7. \A j \in 1 .. Len(s) + 1 :
          (front \o after)[j] = IF j < i THEN s[j] ELSE IF j = i THEN e ELSE s[j - 1]
  BY <1>2, <1>4, <1>5
<1>8. QED
  BY <1>5, <1>6, <1>7

\* RemoveAt, element by element.
LEMMA RemoveAtProperties ==
    ASSUME NEW S, NEW s \in Seq(S), NEW i \in 1 .. Len(s)
    PROVE  /\ RemoveAt(s, i) \in Seq(S)
           /\ Len(RemoveAt(s, i)) = Len(s) - 1
           /\ \A j \in 1 .. Len(s) - 1 :
                  RemoveAt(s, i)[j] = IF j < i THEN s[j] ELSE s[j + 1]
<1> DEFINE before == SubSeq(s, 1, i - 1)
           after  == SubSeq(s, i + 1, Len(s))
<1>1. /\ before \in Seq(S) /\ Len(before) = i - 1
      /\ \A j \in 1 .. i - 1 : before[j] = s[j]
  OBVIOUS
<1>2. /\ after \in Seq(S) /\ Len(after) = Len(s) - i
      /\ \A j \in 1 .. Len(s) - i : after[j] = s[i + j]
  OBVIOUS
<1> HIDE DEF before, after
<1>3. /\ before \o after \in Seq(S) /\ Len(before \o after) = Len(s) - 1
      /\ \A j \in 1 .. Len(s) - 1 : (before \o after)[j] =
             IF j < i THEN before[j] ELSE after[j - (i - 1)]
  <2>1. /\ before \o after \in Seq(S)
        /\ Len(before \o after) = Len(before) + Len(after)
        /\ \A j \in 1 .. Len(before) + Len(after) : (before \o after)[j] =
               IF j <= Len(before) THEN before[j] ELSE after[j - Len(before)]
    BY <1>1, <1>2, ConcatProperties
  <2>2. Len(before) = i - 1 /\ Len(before) + Len(after) = Len(s) - 1
    BY <1>1, <1>2
  <2>3. \A j \in 1 .. Len(s) - 1 : j <= i - 1 <=> j < i
    OBVIOUS
  <2>4. QED
    BY <2>1, <2>2, <2>3
<1>4. RemoveAt(s, i) = before \o after
  BY DEF RemoveAt, before, after
<1>5. \A j \in 1 .. Len(s) - 1 :
          (before \o after)[j] = IF j < i THEN s[j] ELSE s[j + 1]
  <2> SUFFICES ASSUME NEW j \in 1 .. Len(s) - 1
               PROVE  (before \o after)[j] = IF j < i THEN s[j] ELSE s[j + 1]
    OBVIOUS
  <2>1. (before \o after)[j] = IF j < i THEN before[j] ELSE after[j - (i - 1)]
    BY <1>3
  <2>2. CASE j < i
    <3>1. before[j] = s[j]
      BY <1>1, <2>2
    <3>2. QED
      BY <2>1, <2>2, <3>1
  <2>3. CASE ~(j < i)
    <3>1. j - (i - 1) \in 1 .. Len(s) - i /\ i + (j - (i - 1)) = j + 1
      BY <2>3
    <3>2. after[j - (i - 1)] = s[i + (j - (i - 1))]
      BY <1>2, <3>1
    <3>3. QED
      BY <2>1, <2>3, <3>1, <3>2
  <2>4. QED
    BY <2>2, <2>3
<1>6. QED
  BY <1>3, <1>4, <1>5

\* Merging packet i + 1 into packet i: the step of the loop.
LEMMA MergedAtProperties ==
    ASSUME NEW b \in Seq(Packets), NEW i \in 1 .. Len(b) - 1,
           b[i].first <= b[i + 1].last
    PROVE  /\ MergedAt(b, i) \in Seq(Packets)
           /\ Len(MergedAt(b, i)) = Len(b) - 1
           /\ \A j \in 1 .. Len(b) - 1 :
                  MergedAt(b, i)[j] = IF j < i THEN b[j]
                                      ELSE IF j = i THEN Merge(b[i], b[i + 1])
                                      ELSE b[j + 1]
<1> DEFINE c == [b EXCEPT ![i] = Merge(@, b[i + 1])]
<1>1. /\ i \in 1 .. Len(b) /\ i + 1 \in 1 .. Len(b)
      /\ b[i] \in Packets /\ b[i + 1] \in Packets
  OBVIOUS
<1>2. Merge(b[i], b[i + 1]) \in Packets
  BY <1>1 DEF Merge, Packets
<1>3. /\ c \in Seq(Packets) /\ Len(c) = Len(b)
      /\ \A j \in 1 .. Len(b) : c[j] = IF j = i THEN Merge(b[i], b[i + 1]) ELSE b[j]
  BY <1>1, <1>2
<1> HIDE DEF c
<1>4. /\ RemoveAt(c, i + 1) \in Seq(Packets)
      /\ Len(RemoveAt(c, i + 1)) = Len(b) - 1
      /\ \A j \in 1 .. Len(b) - 1 :
             RemoveAt(c, i + 1)[j] = IF j < i + 1 THEN c[j] ELSE c[j + 1]
  BY <1>1, <1>3, RemoveAtProperties
<1>5. MergedAt(b, i) = RemoveAt(c, i + 1)
  BY DEF MergedAt, c
<1>6. QED
  BY <1>1, <1>3, <1>4, <1>5

-----------------------------------------------------------------------------
(***************************************************************************)
(* The inductive invariant                                                 *)
(***************************************************************************)

\* What every conjunct of the invariant is made of
USE DEF PPM, IterationsIn, NumIterationsIn

\* A prefix of the iterations and what follows it
LEMMA SplitPrefix ==
    ASSUME NEW i \in Int, NEW k \in Int, 0 <= i, i < k
    PROVE  /\ (0 .. i - 1) \cap (i .. k - 1) = {}
           /\ (0 .. i - 1) \cup (i .. k - 1) = 0 .. k - 1
<1>1. \A n \in 0 .. i - 1 : n \notin i .. k - 1 /\ n \in 0 .. k - 1
  OBVIOUS
<1>2. \A n \in i .. k - 1 : n \in 0 .. k - 1
  OBVIOUS
<1>3. \A n \in 0 .. k - 1 : n \in 0 .. i - 1 \/ n \in i .. k - 1
  OBVIOUS
<1>4. QED
  BY <1>1, <1>2, <1>3, Zenon

\* The front buffer can only hold iterations that exist.
LEMMA PrefixIsInIterations ==
    \A k \in 0 .. NumIterations :
        \A n \in 0 .. k - 1 : n \in Iterations /\ n < k
BY ReceiverAssumption DEF Iterations

\* The iterations of a packet
LEMMA PacketFacts ==
    /\ NoPacket \in Packets
    /\ \A p \in Packets : /\ IterationsIn(p) # {}
                          /\ IterationsIn(p) \subseteq Iterations
<1>1. NoPacket \in Packets
  BY ReceiverAssumption DEF Packets, NoPacket, Iterations, SequenceNumbers
<1>2. ASSUME NEW p \in Packets
      PROVE  IterationsIn(p) # {} /\ IterationsIn(p) \subseteq Iterations
  <2>1. /\ p.first \in Int /\ p.last \in Int /\ p.first <= p.last
        /\ 0 <= p.first /\ p.last <= NumIterations - 1
    BY ReceiverAssumption DEF Packets, Iterations
  <2>2. p.first \in IterationsIn(p)
    BY <2>1 DEF IterationsIn
  <2>3. QED
    BY <2>1, <2>2, ReceiverAssumption DEF IterationsIn, Iterations
<1>3. QED
  BY <1>1, <1>2

\* The constructed receiver has empty buffers.
LEMMA InitIInv == Init => IInv
<1> SUFFICES ASSUME Init PROVE IInv
  OBVIOUS
<1> USE ReceiverAssumption DEF Init, ReceiverInit
<1>1. NoPacket \in Packets
  BY DEF NoPacket, Packets, SequenceNumbers, Iterations
<1>2. TypeOK
  BY <1>1 DEF TypeOK, SequenceNumbers, RenderMethods, Frames
<1>3. /\ SequenceInv /\ ResultInv /\ OrderInv /\ GapInv /\ CoverageInv /\ CountInv
  BY DEF SequenceInv, ResultInv, OrderInv, GapInv, CoverageInv, CountInv, Merging,
         InBackBuffer, Iterations
<1>4. FrontIsMeanOfPrefix /\ FrontIsMeanOfAll
  BY DEF FrontIsMeanOfPrefix, FrontIsMeanOfAll
<1>5. QED
  BY <1>2, <1>3, <1>4 DEF IInv

\* The actions of the application leave the receiver alone.
LEMMA ApplicationIInv ==
    ASSUME IInv,
           \/ incrementSequenceNumber
           \/ \E method \in RenderMethods : assignRenderMethod(method)
           \/ UNCHANGED vars
    PROVE  IInv'
<1> USE ReceiverAssumption DEF IInv
<1>1. UNCHANGED receiverVars
  BY DEF incrementSequenceNumber, assignRenderMethod, vars
<1>2. /\ m_sequenceNumber' \in SequenceNumbers /\ m_renderMethod' \in RenderMethods
      /\ m_sequenceNumber <= m_sequenceNumber'
  BY DEF incrementSequenceNumber, assignRenderMethod, vars, appVars, TypeOK,
         SequenceNumbers
<1>3. TypeOK'
  BY <1>1, <1>2 DEF TypeOK, receiverVars, bufferVars, history
<1>4. SequenceInv'
  BY <1>1, <1>2 DEF SequenceInv, TypeOK, SequenceNumbers, receiverVars, bufferVars
<1>5. /\ ResultInv' /\ OrderInv' /\ GapInv' /\ CoverageInv' /\ CountInv'
      /\ FrontIsMeanOfPrefix' /\ FrontIsMeanOfAll'
  BY <1>1 DEF ResultInv, OrderInv, GapInv, CoverageInv, CountInv, Merging, Adjacent,
              InBackBuffer, FrontIsMeanOfPrefix, FrontIsMeanOfAll,
              receiverVars, bufferVars, history
<1>6. QED
  BY <1>3, <1>4, <1>5

\* A packet of the current sequence is accepted.
LEMMA AcceptIInv ==
    ASSUME IInv, NEW p \in Packets, IsNew(p), AcceptPacket(p)
    PROVE  IInv'
<1> USE ReceiverAssumption DEF IInv, AcceptPacket
<1>1. CASE p.sequenceNumber > m_lastSequenceNumber
  <2> USE <1>1 DEF resetInternals
  <2>0. p.sequenceNumber \in SequenceNumbers
    BY DEF Packets
  <2>1. TypeOK'
    BY <2>0 DEF TypeOK, appVars
  <2>2. SequenceInv' /\ ResultInv'
    BY <2>0 DEF SequenceInv, ResultInv, TypeOK, SequenceNumbers, appVars
  <2>3. OrderInv' /\ GapInv'
    BY DEF OrderInv, GapInv, Merging
  <2>4. CoverageInv'
    BY DEF CoverageInv, Merging, InBackBuffer, Iterations
  <2>5. CountInv' /\ FrontIsMeanOfPrefix' /\ FrontIsMeanOfAll'
    BY DEF CountInv, FrontIsMeanOfPrefix, FrontIsMeanOfAll
  <2>6. QED
    BY <2>1, <2>2, <2>3, <2>4, <2>5
<1>2. CASE ~(p.sequenceNumber > m_lastSequenceNumber)
  <2>0. /\ p.sequenceNumber = m_lastSequenceNumber
        /\ UNCHANGED <<m_lastSequenceNumber, m_PPMNextExpectedIteration,
                       m_iterationNumber, m_backBuffer, m_frontBuffer,
                       photonMapped, pathTraced, m_sequenceNumber, m_renderMethod>>
        /\ ~Merging /\ ~Merging' /\ 0 < m_lastSequenceNumber
    BY <1>2 DEF TypeOK, SequenceInv, SequenceNumbers, Merging, appVars, history
  <2>1. TypeOK'
    BY <2>0 DEF TypeOK
  <2>2. SequenceInv' /\ ResultInv'
    BY <2>0 DEF SequenceInv, ResultInv, IsNew
  <2>3. OrderInv' /\ GapInv'
    BY <2>0 DEF OrderInv, GapInv, Adjacent
  <2>4. CoverageInv'
    BY <2>0 DEF CoverageInv, InBackBuffer
  <2>5. CountInv' /\ FrontIsMeanOfPrefix' /\ FrontIsMeanOfAll'
    BY <2>0 DEF CountInv, FrontIsMeanOfPrefix, FrontIsMeanOfAll
  <2>6. QED
    BY <2>1, <2>2, <2>3, <2>4, <2>5
<1>3. QED
  BY <1>1, <1>2

\* Any subset of Iterations is finite, and a packet has as many iterations as
\* NumIterationsIn says.
LEMMA FiniteIterations ==
    ASSUME NEW S \in SUBSET Iterations, NEW p \in Packets,
           S \cap IterationsIn(p) = {}
    PROVE  /\ IsFiniteSet(S) /\ Cardinality(S) \in Nat
           /\ Cardinality(IterationsIn(p)) = NumIterationsIn(p)
           /\ NumIterationsIn(p) \in Nat
           /\ Cardinality(S \cup IterationsIn(p)) = Cardinality(S) + NumIterationsIn(p)
           /\ S \cup IterationsIn(p) \in SUBSET Iterations
<1> USE ReceiverAssumption
<1>1. IsFiniteSet(Iterations)
  BY FS_Interval DEF Iterations
<1>2. IsFiniteSet(S) /\ Cardinality(S) \in Nat
  BY <1>1, FS_Subset, FS_CardinalityType
<1>3. p.first \in Int /\ p.last \in Int /\ p.first <= p.last
  BY DEF Packets, Iterations
<1>4. /\ IsFiniteSet(IterationsIn(p))
      /\ Cardinality(IterationsIn(p)) = NumIterationsIn(p)
      /\ NumIterationsIn(p) \in Nat
  BY <1>3, FS_Interval
<1>5. Cardinality(S \cup IterationsIn(p)) =
          Cardinality(S) + Cardinality(IterationsIn(p)) - Cardinality(S \cap IterationsIn(p))
  BY <1>2, <1>4, FS_Union
<1>6. Cardinality(S \cap IterationsIn(p)) = 0
  BY FS_EmptySet
<1>7. IterationsIn(p) \subseteq Iterations
  BY DEF Packets, Iterations
<1>8. QED
  BY <1>2, <1>4, <1>5, <1>6, <1>7

\* Path tracing: the running average has the weight of all iterations received.
LEMMA PathTracingIInv ==
    ASSUME IInv, MergePathTracing
    PROVE  IInv'
<1> USE ReceiverAssumption DEF IInv, MergePathTracing
<1>0. /\ result \in Packets /\ NoPacket \in Packets
      /\ result.sequenceNumber = m_lastSequenceNumber /\ 0 < m_lastSequenceNumber
      /\ pathTraced \in SUBSET Iterations /\ pathTraced \cap IterationsIn(result) = {}
      /\ ~Merging /\ ~Merging'
  BY DEF TypeOK, ResultInv, NoPacket, Packets, SequenceNumbers, Iterations, Merging
<1>1. /\ Cardinality(pathTraced) \in Nat /\ NumIterationsIn(result) \in Nat
      /\ Cardinality(IterationsIn(result)) = NumIterationsIn(result)
      /\ Cardinality(pathTraced') = Cardinality(pathTraced) + NumIterationsIn(result)
      /\ IterationsIn(result) \subseteq Iterations
      /\ pathTraced' \in SUBSET Iterations
  BY <1>0, FiniteIterations, Zenon DEF MergePathTracing
<1>2. pathTraced' # {}
  BY <1>0 DEF Packets, Iterations
<1>3. m_frontBuffer' \in Frames
  BY <1>0, <1>1 DEF RunningAverage, Frames, TypeOK, Packets
<1>4. TypeOK'
  BY <1>0, <1>1, <1>3 DEF TypeOK, appVars
<1>5. SequenceInv' /\ ResultInv' /\ OrderInv' /\ GapInv' /\ CoverageInv'
  BY <1>0 DEF SequenceInv, ResultInv, OrderInv, GapInv, CoverageInv, InBackBuffer,
              Adjacent, appVars
<1>6. CountInv' /\ FrontIsMeanOfPrefix'
  BY <1>2 DEF CountInv, FrontIsMeanOfPrefix
<1>7. FrontIsMeanOfAll'
  <2> SUFFICES ASSUME photonMapped = {}
               PROVE  /\ m_frontBuffer' = [sequenceNumber |-> m_lastSequenceNumber,
                                           iterations |-> pathTraced', isMean |-> TRUE]
                      /\ m_iterationNumber' = Cardinality(pathTraced')
    BY DEF FrontIsMeanOfAll
  <2>1. CASE pathTraced = {}
    <3>1. m_iterationNumber = 0 /\ Cardinality(pathTraced) = 0
      BY <1>0, <2>1, FS_EmptySet DEF CountInv
    <3>2. QED
      BY <1>0, <1>1, <2>1, <3>1 DEF RunningAverage
  <2>2. CASE pathTraced # {}
    <3>1. /\ m_frontBuffer = [sequenceNumber |-> m_lastSequenceNumber,
                              iterations |-> pathTraced, isMean |-> TRUE]
          /\ m_iterationNumber = Cardinality(pathTraced)
      BY <2>2 DEF FrontIsMeanOfAll
    <3>2. m_iterationNumber # 0
      BY <1>0, <2>2, <3>1, FS_EmptySet, FiniteIterations
    <3>3. QED
      BY <1>0, <1>1, <3>1, <3>2 DEF RunningAverage
  <2>3. QED
    BY <2>1, <2>2
<1>8. QED
  BY <1>4, <1>5, <1>6, <1>7

\* The new packet overlaps no packet of the buffer, so that wherever it is
\* inserted to keep the buffer sorted, the buffer is a list of disjoint runs.
LEMMA InsertIInv ==
    ASSUME IInv, InsertIntoBackBuffer
    PROVE  IInv'
<1> USE ReceiverAssumption
<1>a. /\ TypeOK /\ SequenceInv /\ ResultInv /\ OrderInv /\ GapInv /\ CoverageInv
      /\ CountInv /\ FrontIsMeanOfPrefix /\ FrontIsMeanOfAll
  BY DEF IInv
<1> DEFINE b == m_backBuffer
           c == m_backBuffer'
           r == result
<1>0. /\ b \in Seq(Packets) /\ r \in Packets /\ pc = "dispatch"
      /\ ~Merging /\ Merging' /\ pc' = "combine"
      /\ UNCHANGED <<m_sequenceNumber, m_renderMethod, m_lastSequenceNumber,
                     m_PPMNextExpectedIteration, m_iterationNumber, m_frontBuffer,
                     result, photonMapped, pathTraced>>
  BY <1>a DEF TypeOK, Merging, appVars, history, InsertIntoBackBuffer
<1>1. PICK i \in 1 .. Len(b) + 1 :
          /\ c \in Seq(Packets) /\ Len(c) = Len(b) + 1
          /\ \A j \in 1 .. Len(b) + 1 :
                 c[j] = IF j < i THEN b[j] ELSE IF j = i THEN r ELSE b[j - 1]
          /\ SortedByFirst(c)
  <2>1. PICK i \in 1 .. Len(b) + 1 : c = InsertAt(b, i, r) /\ SortedByFirst(c)
    BY DEF InsertIntoBackBuffer
  <2>2. /\ InsertAt(b, i, r) \in Seq(Packets)
        /\ Len(InsertAt(b, i, r)) = Len(b) + 1
        /\ \A j \in 1 .. Len(b) + 1 : InsertAt(b, i, r)[j] =
               IF j < i THEN b[j] ELSE IF j = i THEN r ELSE b[j - 1]
    <3>1. b \in Seq(Packets) /\ r \in Packets /\ i \in 1 .. Len(b) + 1
      BY <1>0, <2>1
    <3> HIDE DEF b, r
    <3>2. QED
      BY ONLY <3>1, InsertAtProperties
  <2>3. QED
    BY <2>1, <2>2
<1>2. \A j \in 1 .. Len(b) :
          /\ b[j] \in Packets
          /\ b[j].first \in Int /\ b[j].last \in Int /\ b[j].first <= b[j].last
  BY <1>0 DEF Packets, Iterations
<1>3. r.first \in Int /\ r.last \in Int /\ r.first <= r.last
  BY <1>0 DEF Packets, Iterations
\* An iteration of the new packet is neither in the front nor in the back buffer.
<1>4. \A n \in IterationsIn(r) :
          n \in Iterations /\ ~(n < m_PPMNextExpectedIteration) /\ ~InBackBuffer(n)
  BY <1>a, <1>0 DEF CoverageInv, ResultInv, Packets, Iterations
<1>5. m_PPMNextExpectedIteration <= r.first
  BY <1>a, <1>0, <1>3, <1>4 DEF TypeOK, Iterations
<1>6. \A j \in 1 .. Len(b) : b[j].last < r.first \/ r.last < b[j].first
  <2> SUFFICES ASSUME NEW j \in 1 .. Len(b),
                      r.first <= b[j].last, b[j].first <= r.last
               PROVE  FALSE
    BY <1>2, <1>3
  <2>1. r.first \in IterationsIn(b[j]) \/ b[j].first \in IterationsIn(r)
    BY <1>2, <1>3
  <2>2. b[j].first \in IterationsIn(b[j]) /\ r.first \in IterationsIn(r)
    BY <1>2, <1>3
  <2>3. QED
    BY <2>1, <2>2, <1>4 DEF InBackBuffer
<1>7. \A j \in 1 .. i - 1 : b[j].first <= r.first
  <2>1. \A j \in 1 .. i - 1 : b[j].first <= b[i - 1].first
    <3> SUFFICES ASSUME NEW j \in 1 .. i - 1, j # i - 1
                 PROVE  b[j].first <= b[i - 1].first
      BY <1>2
    <3>1. j \in 1 .. Len(b) /\ i - 1 \in j + 1 .. Len(b)
      BY <1>0
    <3>2. QED
      BY <1>a, <1>2, <3>1 DEF OrderInv
  <2>2. i > 1 => c[i - 1].first <= c[i].first
    <3>1. \A k \in 1 .. Len(c) - 1 : c[k].first <= c[k + 1].first
      BY <1>1 DEF SortedByFirst
    <3>2. i > 1 => i - 1 \in 1 .. Len(c) - 1 /\ (i - 1) + 1 = i
      BY <1>0, <1>1
    <3>3. QED
      BY <3>1, <3>2
  <2>3. i > 1 => c[i - 1] = b[i - 1] /\ c[i] = r
    BY <1>1
  <2>4. QED
    BY <1>2, <1>3, <2>1, <2>2, <2>3
<1>8. \A j \in i .. Len(b) : r.first <= b[j].first
  <2>1. \A j \in i .. Len(b) : b[i].first <= b[j].first
    <3> SUFFICES ASSUME NEW j \in i .. Len(b), j # i
                 PROVE  b[i].first <= b[j].first
      BY <1>2
    <3>1. i \in 1 .. Len(b) /\ j \in i + 1 .. Len(b)
      BY <1>0
    <3>2. QED
      BY <1>a, <1>2, <3>1 DEF OrderInv
  <2>2. i <= Len(b) => c[i].first <= c[i + 1].first
    BY <1>0, <1>1 DEF SortedByFirst
  <2>3. i <= Len(b) => c[i + 1] = b[i] /\ c[i] = r
    BY <1>0, <1>1
  <2>4. QED
    BY <1>2, <1>3, <2>1, <2>2, <2>3
<1>9. /\ \A j \in 1 .. i - 1 : b[j].last < r.first
      /\ \A j \in i .. Len(b) : r.last < b[j].first
  <2>1. ASSUME NEW j \in 1 .. i - 1 PROVE b[j].last < r.first
    <3>1. j \in 1 .. Len(b)
      BY <1>0
    <3>2. QED
      BY <1>2, <1>3, <1>6, <1>7, <3>1
  <2>2. ASSUME NEW j \in i .. Len(b) PROVE r.last < b[j].first
    <3>1. j \in 1 .. Len(b)
      BY <1>0
    <3>2. QED
      BY <1>2, <1>3, <1>6, <1>8, <3>1
  <2>3. QED
    BY <2>1, <2>2
\* The order of the old buffer, for any two of its packets
<1>o. \A j, k \in 1 .. Len(b) : j < k => b[j].last < b[k].first
  BY <1>a, <1>0, <1>2 DEF OrderInv
<1>10. OrderInv'
  <2>1. ASSUME NEW j \in 1 .. Len(c)
        PROVE  /\ c[j].sequenceNumber = m_lastSequenceNumber
               /\ m_PPMNextExpectedIteration <= c[j].first
    <3>1. /\ j \in 1 .. Len(b) + 1 /\ i \in 1 .. Len(b) + 1 /\ Len(b) \in Nat
          /\ c[j] = IF j < i THEN b[j] ELSE IF j = i THEN r ELSE b[j - 1]
      BY <1>0, <1>1
    <3>2. c[j] = r \/ \E l \in 1 .. Len(b) : c[j] = b[l]
      BY <3>1
    <3>3. r.sequenceNumber = m_lastSequenceNumber
      BY <1>a, <1>0 DEF ResultInv
    <3>4. \A l \in 1 .. Len(b) : /\ b[l].sequenceNumber = m_lastSequenceNumber
                                 /\ m_PPMNextExpectedIteration <= b[l].first
      BY <1>a DEF OrderInv
    <3>5. QED
      BY <1>5, <3>2, <3>3, <3>4
  <2>2. ASSUME NEW j \in 1 .. Len(c), NEW k \in j + 1 .. Len(c)
        PROVE  c[j].last < c[k].first
    <3>1. /\ j \in 1 .. Len(b) + 1 /\ k \in 1 .. Len(b) + 1 /\ j < k
          /\ i \in 1 .. Len(b) + 1 /\ Len(b) \in Nat
      BY <1>0, <1>1
    <3>2. /\ c[j] = IF j < i THEN b[j] ELSE IF j = i THEN r ELSE b[j - 1]
          /\ c[k] = IF k < i THEN b[k] ELSE IF k = i THEN r ELSE b[k - 1]
      BY <1>1, <3>1
    <3>3. CASE k < i
      <4>1. c[j] = b[j] /\ c[k] = b[k] /\ j \in 1 .. Len(b) /\ k \in 1 .. Len(b)
        BY <3>1, <3>2, <3>3
      <4>2. QED
        BY <1>o, <3>1, <4>1
    <3>4. CASE j < i /\ k = i
      <4>1. c[j] = b[j] /\ c[k] = r /\ j \in 1 .. i - 1
        BY <3>1, <3>2, <3>4
      <4>2. QED
        BY <1>9, <4>1
    <3>5. CASE j < i /\ k > i
      <4>1. /\ c[j] = b[j] /\ c[k] = b[k - 1] /\ j < k - 1
            /\ j \in 1 .. Len(b) /\ k - 1 \in 1 .. Len(b)
        BY <3>1, <3>2, <3>5
      <4>2. QED
        BY <1>o, <4>1
    <3>6. CASE j = i
      <4>1. c[j] = r /\ c[k] = b[k - 1] /\ k - 1 \in i .. Len(b)
        BY <3>1, <3>2, <3>6
      <4>2. QED
        BY <1>9, <4>1
    <3>7. CASE j > i
      <4>1. /\ c[j] = b[j - 1] /\ c[k] = b[k - 1] /\ j - 1 < k - 1
            /\ j - 1 \in 1 .. Len(b) /\ k - 1 \in 1 .. Len(b)
        BY <3>1, <3>2, <3>7
      <4>2. QED
        BY <1>o, <4>1
    <3>8. QED
      BY <3>1, <3>3, <3>4, <3>5, <3>6, <3>7
  <2>3. c # <<>>
    BY <1>0, <1>1
  <2>4. QED
    BY <1>0, <2>1, <2>2, <2>3 DEF OrderInv
<1>11. CoverageInv'
  <2> SUFFICES ASSUME NEW n \in Iterations
               PROVE  InBackBuffer(n)' <=> InBackBuffer(n) \/ n \in IterationsIn(r)
    BY <1>a, <1>0 DEF CoverageInv
  <2>1. ASSUME NEW j \in 1 .. Len(c), n \in IterationsIn(c[j])
        PROVE  InBackBuffer(n) \/ n \in IterationsIn(r)
    <3>1. CASE j < i
      <4>1. j \in 1 .. Len(b) /\ c[j] = b[j]
        BY <1>0, <1>1, <3>1
      <4>2. QED
        BY <2>1, <4>1 DEF InBackBuffer
    <3>2. CASE j = i
      <4>1. c[j] = r
        BY <1>0, <1>1, <3>2
      <4>2. QED
        BY <2>1, <4>1
    <3>3. CASE j > i
      <4>1. j - 1 \in 1 .. Len(b) /\ c[j] = b[j - 1]
        BY <1>0, <1>1, <3>3
      <4>2. QED
        BY <2>1, <4>1 DEF InBackBuffer
    <3>4. QED
      BY <1>0, <1>1, <3>1, <3>2, <3>3
  <2>2. ASSUME NEW j \in 1 .. Len(b), n \in IterationsIn(b[j]) PROVE InBackBuffer(n)'
    <3>1. CASE j < i
      BY <1>0, <1>1, <2>2, <3>1 DEF InBackBuffer
    <3>2. CASE j >= i
      <4>1. j + 1 \in 1 .. Len(c) /\ c[j + 1] = b[j]
        BY <1>0, <1>1, <3>2
      <4>2. QED
        BY <2>2, <4>1 DEF InBackBuffer
    <3>3. QED
      BY <3>1, <3>2
  <2>3. ASSUME n \in IterationsIn(r) PROVE InBackBuffer(n)'
    BY <1>0, <1>1, <2>3 DEF InBackBuffer
  <2>4. QED
    BY <2>1, <2>2, <2>3 DEF InBackBuffer
<1>12. TypeOK'
  BY <1>a, <1>0, <1>1 DEF TypeOK
<1>13. /\ SequenceInv' /\ ResultInv' /\ GapInv' /\ CountInv'
       /\ FrontIsMeanOfPrefix' /\ FrontIsMeanOfAll'
  BY <1>a, <1>0 DEF SequenceInv, ResultInv, GapInv, CountInv, FrontIsMeanOfPrefix,
              FrontIsMeanOfAll
<1>14. QED
  BY <1>10, <1>11, <1>12, <1>13 DEF IInv

\* Combining two neighbours keeps the iterations of the buffer.
LEMMA CombineIInv ==
    ASSUME IInv, CombineAdjacent
    PROVE  IInv'
<1> USE ReceiverAssumption
<1> DEFINE b == m_backBuffer
           c == m_backBuffer'
<1>a. /\ TypeOK /\ SequenceInv /\ ResultInv /\ OrderInv /\ GapInv /\ CoverageInv
      /\ CountInv /\ FrontIsMeanOfPrefix /\ FrontIsMeanOfAll
  BY DEF IInv
<1>0. /\ b \in Seq(Packets) /\ pc = "combine" /\ pc' \in {"combine", "front"}
      /\ Merging /\ Merging'
      /\ UNCHANGED <<m_sequenceNumber, m_renderMethod, m_lastSequenceNumber,
                     m_PPMNextExpectedIteration, m_iterationNumber, m_frontBuffer,
                     result, photonMapped, pathTraced>>
  BY <1>a DEF TypeOK, Merging, appVars, history, CombineAdjacent
<1>1. PICK i \in 1 .. Len(b) - 1 :
          /\ FirstAdjacent(b, i) /\ c = MergedAt(b, i)
          /\ pc' = IF i = Len(b) - 1 THEN "front" ELSE "combine"
  BY DEF CombineAdjacent
<1>2. \A j \in 1 .. Len(b) :
          /\ b[j] \in Packets
          /\ b[j].first \in Int /\ b[j].last \in Int /\ b[j].first <= b[j].last
  BY <1>0 DEF Packets, Iterations
<1>3. /\ i \in 1 .. Len(b) /\ i + 1 \in 1 .. Len(b) /\ Len(b) \in Nat
      /\ b[i].last + 1 = b[i + 1].first /\ b[i].first <= b[i + 1].last
      /\ \A j \in 1 .. i - 1 : b[j].last + 1 # b[j + 1].first
  <2>1. i \in 1 .. Len(b) /\ i + 1 \in 1 .. Len(b) /\ Len(b) \in Nat
    BY <1>0, <1>1
  <2>2. /\ b[i].last + 1 = b[i + 1].first
        /\ \A j \in 1 .. i - 1 : b[j].last + 1 # b[j + 1].first
    BY <1>1 DEF FirstAdjacent, Adjacent
  <2>3. /\ b[i].first \in Int /\ b[i].last \in Int /\ b[i].first <= b[i].last
        /\ b[i + 1].first \in Int /\ b[i + 1].last \in Int
        /\ b[i + 1].first <= b[i + 1].last
    BY <1>2, <2>1
  <2>4. QED
    BY <2>1, <2>2, <2>3
<1>4. /\ c \in Seq(Packets) /\ Len(c) = Len(b) - 1
      /\ \A j \in 1 .. Len(b) - 1 :
             c[j] = IF j < i THEN b[j]
                    ELSE IF j = i THEN Merge(b[i], b[i + 1]) ELSE b[j + 1]
  <2>1. /\ MergedAt(b, i) \in Seq(Packets)
        /\ Len(MergedAt(b, i)) = Len(b) - 1
        /\ \A j \in 1 .. Len(b) - 1 :
               MergedAt(b, i)[j] = IF j < i THEN b[j]
                                   ELSE IF j = i THEN Merge(b[i], b[i + 1])
                                   ELSE b[j + 1]
    <3>1. /\ b \in Seq(Packets) /\ i \in 1 .. Len(b) - 1
          /\ b[i].first <= b[i + 1].last
      BY <1>0, <1>1, <1>3
    <3>2. QED
      BY <3>1, MergedAtProperties
  <2>2. c = MergedAt(b, i)
    BY <1>1
  <2>3. QED
    BY <2>1, <2>2
<1> DEFINE m == Merge(b[i], b[i + 1])
<1>5. /\ m.first = b[i].first /\ m.last = b[i + 1].last
      /\ m.sequenceNumber = b[i].sequenceNumber
  BY <1>2, <1>3 DEF Merge, Packets
<1>6. \A j, k \in 1 .. Len(b) : j < k => b[j].last < b[k].first
  BY <1>a, <1>0, <1>2 DEF OrderInv
<1>7. OrderInv'
  <2>1. ASSUME NEW j \in 1 .. Len(c)
        PROVE  /\ c[j].sequenceNumber = m_lastSequenceNumber
               /\ m_PPMNextExpectedIteration <= c[j].first
    <3>1. \E l \in 1 .. Len(b) : /\ c[j].sequenceNumber = b[l].sequenceNumber
                                 /\ c[j].first = b[l].first
      <4>1. CASE j < i
        <5>1. j \in 1 .. Len(b) /\ c[j] = b[j]
          BY <1>3, <1>4, <4>1
        <5>2. QED
          BY <5>1
      <4>2. CASE j = i
        <5>1. c[j] = m
          BY <1>3, <1>4, <4>2
        <5>2. QED
          BY <1>3, <1>5, <5>1
      <4>3. CASE j > i
        <5>1. j + 1 \in 1 .. Len(b) /\ c[j] = b[j + 1]
          BY <1>3, <1>4, <4>3
        <5>2. QED
          BY <5>1
      <4>4. QED
        BY <1>3, <1>4, <4>1, <4>2, <4>3
    <3>2. QED
      BY <1>a, <3>1 DEF OrderInv
  <2>2. ASSUME NEW j \in 1 .. Len(c), NEW k \in j + 1 .. Len(c)
        PROVE  c[j].last < c[k].first
    <3>1. /\ j \in 1 .. Len(b) - 1 /\ k \in 1 .. Len(b) - 1 /\ j < k
      BY <1>3, <1>4
    <3>2. c[j].last = IF j < i THEN b[j].last ELSE b[j + 1].last
      BY <1>3, <1>4, <1>5, <3>1
    <3>3. c[k].first = IF k <= i THEN b[k].first ELSE b[k + 1].first
      BY <1>3, <1>4, <1>5, <3>1
    <3>4. /\ j \in 1 .. Len(b) /\ j + 1 \in 1 .. Len(b)
          /\ k \in 1 .. Len(b) /\ k + 1 \in 1 .. Len(b)
      BY <1>3, <3>1
    <3>5. CASE k <= i
      BY <1>3, <1>6, <3>1, <3>2, <3>3, <3>4, <3>5
    <3>6. CASE k > i /\ j < i
      BY <1>3, <1>6, <3>1, <3>2, <3>3, <3>4, <3>6
    <3>7. CASE k > i /\ j >= i
      BY <1>3, <1>6, <3>1, <3>2, <3>3, <3>4, <3>7
    <3>8. QED
      BY <1>3, <3>1, <3>5, <3>6, <3>7
  <2>3. c # <<>>
    BY <1>3, <1>4
  <2>4. QED
    BY <1>0, <2>1, <2>2, <2>3 DEF OrderInv
<1>8. CoverageInv'
  <2> SUFFICES ASSUME NEW n \in Iterations PROVE InBackBuffer(n)' <=> InBackBuffer(n)
    BY <1>a, <1>0 DEF CoverageInv
  <2>1. ASSUME NEW j \in 1 .. Len(c), n \in IterationsIn(c[j]) PROVE InBackBuffer(n)
    <3>1. CASE j < i
      BY <1>3, <1>4, <2>1, <3>1 DEF InBackBuffer
    <3>2. CASE j = i
      <4>1. n \in b[i].first .. b[i + 1].last
        BY <1>3, <1>4, <1>5, <2>1, <3>2
      <4>2. n \in IterationsIn(b[i]) \/ n \in IterationsIn(b[i + 1])
        BY <1>2, <1>3, <4>1
      <4>3. QED
        BY <1>3, <4>2 DEF InBackBuffer
    <3>3. CASE j > i
      <4>1. j + 1 \in 1 .. Len(b) /\ c[j] = b[j + 1]
        BY <1>3, <1>4, <3>3
      <4>2. QED
        BY <2>1, <4>1 DEF InBackBuffer
    <3>4. QED
      BY <1>3, <3>1, <3>2, <3>3
  <2>2. ASSUME NEW j \in 1 .. Len(b), n \in IterationsIn(b[j]) PROVE InBackBuffer(n)'
    <3>1. CASE j < i
      <4>1. j \in 1 .. Len(c) /\ c[j] = b[j]
        BY <1>3, <1>4, <3>1
      <4>2. QED
        BY <2>2, <4>1 DEF InBackBuffer
    <3>2. CASE j = i \/ j = i + 1
      <4>1. i \in 1 .. Len(c) /\ c[i] = m
        BY <1>3, <1>4
      <4>2. n \in IterationsIn(m)
        BY <1>2, <1>3, <1>5, <2>2, <3>2
      <4>3. QED
        BY <4>1, <4>2 DEF InBackBuffer
    <3>3. CASE j > i + 1
      <4>1. j - 1 \in 1 .. Len(c) /\ c[j - 1] = b[j]
        BY <1>3, <1>4, <3>3
      <4>2. QED
        BY <2>2, <4>1 DEF InBackBuffer
    <3>4. QED
      BY <1>3, <3>1, <3>2, <3>3
  <2>3. QED
    BY <2>1, <2>2 DEF InBackBuffer
\* The early end of the loop: no pair before the merged one was adjacent.
<1>9. GapInv'
  <2> SUFFICES ASSUME pc' = "front", NEW j \in 1 .. Len(c) - 1
               PROVE  c[j].last + 1 # c[j + 1].first
    BY <1>0 DEF GapInv, Adjacent
  <2>1. i = Len(b) - 1
    BY <1>1
  <2>2. j \in 1 .. i - 1 /\ c[j] = b[j] /\ c[j + 1].first = b[j + 1].first
    BY <1>3, <1>4, <1>5, <2>1
  <2>3. QED
    BY <1>3, <2>2
<1>10. TypeOK'
  BY <1>a, <1>0, <1>4 DEF TypeOK
<1>11. /\ SequenceInv' /\ ResultInv' /\ CountInv'
       /\ FrontIsMeanOfPrefix' /\ FrontIsMeanOfAll'
  BY <1>a, <1>0 DEF SequenceInv, ResultInv, CountInv, FrontIsMeanOfPrefix,
                    FrontIsMeanOfAll
<1>12. QED
  BY <1>7, <1>8, <1>9, <1>10, <1>11 DEF IInv

\* The loop ends when no two neighbours are adjacent.
LEMMA NothingAdjacentIInv ==
    ASSUME IInv, NothingAdjacent
    PROVE  IInv'
<1> USE ReceiverAssumption DEF IInv, NothingAdjacent
<1>1. /\ Merging /\ Merging' /\ UNCHANGED <<bufferVars, result, history>>
  BY DEF Merging
<1>2. TypeOK'
  BY DEF TypeOK, appVars, bufferVars, history
<1>3. GapInv'
  BY <1>1 DEF GapInv, Adjacent, bufferVars
<1>4. /\ SequenceInv' /\ ResultInv' /\ OrderInv' /\ CoverageInv' /\ CountInv'
      /\ FrontIsMeanOfPrefix' /\ FrontIsMeanOfAll'
  BY <1>1 DEF SequenceInv, ResultInv, OrderInv, CoverageInv, CountInv, InBackBuffer,
              FrontIsMeanOfPrefix, FrontIsMeanOfAll, appVars, bufferVars, history
<1>5. QED
  BY <1>2, <1>3, <1>4

\* The first packet of the buffer goes on where the frame ends: afterwards the
\* frame ends where a gap begins.
LEMMA MergeIntoFrontIInv ==
    ASSUME IInv, MergeIntoFront
    PROVE  IInv'
<1> USE ReceiverAssumption
<1> DEFINE b == m_backBuffer
           c == m_backBuffer'
           e == m_PPMNextExpectedIteration
<1>a. /\ TypeOK /\ SequenceInv /\ ResultInv /\ OrderInv /\ GapInv /\ CoverageInv
      /\ CountInv /\ FrontIsMeanOfPrefix /\ FrontIsMeanOfAll
  BY DEF IInv
<1>0. /\ b \in Seq(Packets) /\ pc = "front" /\ pc' = "idle" /\ b # <<>>
      /\ Merging /\ ~Merging' /\ c = Tail(b) /\ b[1].first = e
      /\ e' = b[1].last + 1 /\ result' = NoPacket
      /\ photonMapped' = photonMapped \cup IterationsIn(result)
      /\ UNCHANGED <<m_sequenceNumber, m_renderMethod, m_lastSequenceNumber, pathTraced>>
  BY <1>a DEF TypeOK, OrderInv, Merging, appVars, MergeIntoFront, FinishPhotonMapping
<1>1. /\ Len(b) \in Nat /\ 1 \in 1 .. Len(b) /\ c \in Seq(Packets)
      /\ Len(c) = Len(b) - 1 /\ \A j \in 1 .. Len(c) : c[j] = b[j + 1]
  BY <1>0
<1>2. \A j \in 1 .. Len(b) :
          /\ b[j] \in Packets
          /\ b[j].first \in Int /\ b[j].last \in Int /\ b[j].first <= b[j].last
          /\ b[j].last < NumIterations
  BY <1>0 DEF Packets, Iterations
<1>3. \A j, k \in 1 .. Len(b) : j < k => b[j].last < b[k].first
  BY <1>a, <1>0, <1>2 DEF OrderInv
<1>4. \A j \in 1 .. Len(b) - 1 : b[j].last + 1 # b[j + 1].first
  BY <1>a, <1>0 DEF GapInv, Adjacent
<1>5. e \in Nat /\ e' \in 1 .. NumIterations /\ e < e'
  BY <1>a, <1>0, <1>1, <1>2 DEF TypeOK
<1>6. \A j \in 1 .. Len(c) : e' < c[j].first
  <2> SUFFICES ASSUME NEW j \in 1 .. Len(c) PROVE e' < c[j].first
    OBVIOUS
  <2>1. /\ j \in 1 .. Len(b) - 1 /\ j \in 1 .. Len(b) /\ j + 1 \in 1 .. Len(b)
        /\ c[j] = b[j + 1]
    BY <1>1
  <2>2. b[j].last + 1 < b[j + 1].first
    BY <1>2, <1>3, <1>4, <2>1
  <2>3. b[1].last <= b[j].last
    <3>1. CASE j = 1
      BY <1>1, <1>2, <3>1
    <3>2. CASE j # 1
      <4>1. 1 < j /\ b[1].last < b[j].first
        BY <1>1, <1>3, <2>1, <3>2
      <4>2. QED
        BY <1>1, <1>2, <2>1, <4>1
    <3>3. QED
      BY <3>1, <3>2
  <2>4. QED
    BY <1>0, <1>1, <1>2, <2>1, <2>2, <2>3
<1>7. OrderInv' /\ GapInv'
  <2>1. ASSUME NEW j \in 1 .. Len(c)
        PROVE  /\ c[j].sequenceNumber = m_lastSequenceNumber
               /\ j \in 1 .. Len(b) /\ j + 1 \in 1 .. Len(b) /\ c[j] = b[j + 1]
    BY <1>a, <1>1 DEF OrderInv
  <2>2. ASSUME NEW j \in 1 .. Len(c), NEW k \in j + 1 .. Len(c)
        PROVE  c[j].last < c[k].first
    <3>1. k \in 1 .. Len(c)
      BY <1>1
    <3>2. /\ j + 1 \in 1 .. Len(b) /\ k + 1 \in 1 .. Len(b) /\ j + 1 < k + 1
          /\ c[j] = b[j + 1] /\ c[k] = b[k + 1]
      BY <1>1, <3>1
    <3>3. QED
      BY <1>3, <3>2
  <2>3. ASSUME NEW j \in 1 .. Len(c) - 1 PROVE c[j].last + 1 # c[j + 1].first
    <3>1. /\ j \in 1 .. Len(c) /\ j + 1 \in 1 .. Len(c) /\ j + 1 \in 1 .. Len(b) - 1
          /\ (j + 1) + 1 = j + 2
      BY <1>1
    <3>2. c[j] = b[j + 1] /\ c[j + 1] = b[j + 2]
      BY <1>1, <3>1
    <3>3. QED
      BY <1>4, <3>1, <3>2
  <2>4. \A j \in 1 .. Len(c) : e' <= c[j].first
    BY <1>1, <1>2, <1>5, <1>6
  <2>5. OrderInv'
    BY <1>0, <2>1, <2>2, <2>4 DEF OrderInv
  <2>6. c # <<>> => e' < c[1].first
    BY <1>1, <1>6
  <2>7. QED
    BY <2>3, <2>5, <2>6 DEF GapInv, Adjacent
<1>8. CoverageInv'
  <2> SUFFICES ASSUME NEW n \in Iterations
               PROVE  n \in photonMapped' <=> (n < e' \/ InBackBuffer(n)')
    BY <1>0 DEF CoverageInv
  <2>1. n \in Int /\ (n \in photonMapped' <=> (n < e \/ InBackBuffer(n)))
    BY <1>a, <1>0 DEF CoverageInv, Iterations
  <2>2. ASSUME InBackBuffer(n) PROVE n < e' \/ InBackBuffer(n)'
    <3>1. PICK j \in 1 .. Len(b) : n \in IterationsIn(b[j])
      BY <2>2 DEF InBackBuffer
    <3>2. CASE j = 1
      BY <1>0, <1>1, <1>2, <3>1, <3>2
    <3>3. CASE j # 1
      <4>1. j - 1 \in 1 .. Len(c) /\ c[j - 1] = b[j]
        BY <1>1, <3>1, <3>3
      <4>2. QED
        BY <3>1, <4>1 DEF InBackBuffer
    <3>4. QED
      BY <3>2, <3>3
  <2>3. ASSUME InBackBuffer(n)' PROVE InBackBuffer(n)
    <3>1. PICK j \in 1 .. Len(c) : n \in IterationsIn(c[j])
      BY <2>3 DEF InBackBuffer
    <3>2. j + 1 \in 1 .. Len(b) /\ c[j] = b[j + 1]
      BY <1>1, <3>1
    <3>3. QED
      BY <3>1, <3>2 DEF InBackBuffer
  <2>4. ASSUME n < e', ~(n < e) PROVE InBackBuffer(n)
    <3>1. n \in IterationsIn(b[1])
      BY <1>0, <1>1, <1>2, <1>5, <2>1, <2>4
    <3>2. QED
      BY <1>1, <3>1 DEF InBackBuffer
  <2>5. n < e => n < e'
    BY <1>5, <2>1
  <2>6. QED
    BY <2>1, <2>2, <2>3, <2>4, <2>5
<1>9. /\ photonMapped' # {} /\ photonMapped' \in SUBSET Iterations
      /\ NoPacket \in Packets
  BY <1>a, <1>0, PacketFacts DEF TypeOK
<1>10. /\ FrontIsMeanOfPrefix' /\ m_frontBuffer' \in Frames
  <2>1. m_frontBuffer' = RunningAverage(b[1], m_frontBuffer, e)
    BY DEF MergeIntoFront
  <2>2. /\ b[1].sequenceNumber = m_lastSequenceNumber
        /\ IterationsIn(b[1]) = e .. e' - 1 /\ IterationsIn(b[1]) \subseteq Iterations
    BY <1>a, <1>0, <1>1, <1>2, <1>5 DEF OrderInv, Iterations
  <2>3. CASE e = 0
    <3>1. m_frontBuffer' = [sequenceNumber |-> m_lastSequenceNumber,
                            iterations |-> 0 .. e' - 1, isMean |-> TRUE]
      BY <2>1, <2>2, <2>3 DEF RunningAverage
    <3>2. QED
      BY <1>a, <1>0, <2>2, <2>3, <3>1 DEF FrontIsMeanOfPrefix, Frames, TypeOK
  <2>4. CASE e # 0
    <3>1. m_frontBuffer' \in Frames
      <4>1. /\ m_frontBuffer.sequenceNumber \in SequenceNumbers
            /\ m_frontBuffer.iterations \in SUBSET Iterations
            /\ m_frontBuffer.isMean \in BOOLEAN
        BY <1>a DEF TypeOK, Frames
      <4>2. QED
        BY <2>1, <2>2, <2>4, <4>1 DEF RunningAverage, Frames
    <3>2. ASSUME pathTraced = {}
          PROVE  m_frontBuffer' = [sequenceNumber |-> m_lastSequenceNumber,
                                   iterations |-> 0 .. e' - 1, isMean |-> TRUE]
      <4>1. m_frontBuffer = [sequenceNumber |-> m_lastSequenceNumber,
                             iterations |-> 0 .. e - 1, isMean |-> TRUE]
        BY <1>a, <1>5, <2>4, <3>2 DEF FrontIsMeanOfPrefix
      <4>2. Cardinality(0 .. e - 1) = e
        BY <1>5, FS_Interval
      <4>3. /\ (0 .. e - 1) \cap IterationsIn(b[1]) = {}
            /\ (0 .. e - 1) \cup IterationsIn(b[1]) = 0 .. e' - 1
        <5>1. /\ e \in Int /\ e' \in Int /\ 0 <= e /\ e < e'
          BY <1>5
        <5>2. IterationsIn(b[1]) = e .. e' - 1
          BY <2>2
        <5>3. QED
          BY <5>1, <5>2, SplitPrefix
      <4>4. QED
        BY <2>1, <2>2, <2>4, <4>1, <4>2, <4>3 DEF RunningAverage
    <3>3. QED
      BY <1>0, <3>1, <3>2 DEF FrontIsMeanOfPrefix
  <2>5. QED
    BY <2>3, <2>4
<1>11. m_iterationNumber' \in Nat
  BY <1>5 DEF MergeIntoFront, FinishPhotonMapping
<1>12. TypeOK'
  BY <1>a, <1>0, <1>1, <1>5, <1>9, <1>10, <1>11 DEF TypeOK
<1>13. SequenceInv' /\ ResultInv' /\ CountInv' /\ FrontIsMeanOfAll'
  BY <1>a, <1>0, <1>9 DEF SequenceInv, ResultInv, CountInv, FrontIsMeanOfAll
<1>14. QED
  BY <1>7, <1>8, <1>10, <1>12, <1>13 DEF IInv

\* The first packet of the buffer starts later: nothing is shown.
LEMMA KeepIInv ==
    ASSUME IInv, KeepInBackBuffer
    PROVE  IInv'
<1> USE ReceiverAssumption
<1>a. /\ TypeOK /\ SequenceInv /\ ResultInv /\ OrderInv /\ GapInv /\ CoverageInv
      /\ CountInv /\ FrontIsMeanOfPrefix /\ FrontIsMeanOfAll
  BY DEF IInv
<1>0. /\ m_backBuffer \in Seq(Packets) /\ m_backBuffer # <<>>
      /\ pc = "front" /\ pc' = "idle" /\ Merging /\ ~Merging'
      /\ m_backBuffer[1].first # m_PPMNextExpectedIteration
      /\ result \in Packets /\ result' = NoPacket
      /\ photonMapped' = photonMapped \cup IterationsIn(result)
      /\ UNCHANGED <<m_sequenceNumber, m_renderMethod, m_lastSequenceNumber,
                     m_frontBuffer, m_PPMNextExpectedIteration, m_backBuffer, pathTraced>>
  BY <1>a DEF TypeOK, OrderInv, Merging, appVars, KeepInBackBuffer, FinishPhotonMapping
<1>1. /\ photonMapped' # {} /\ photonMapped' \in SUBSET Iterations
      /\ NoPacket \in Packets
  BY <1>a, <1>0, PacketFacts DEF TypeOK
<1>2. m_iterationNumber' \in Nat
  BY <1>a, <1>0 DEF KeepInBackBuffer, FinishPhotonMapping, TypeOK
<1>3. TypeOK'
  BY <1>a, <1>0, <1>1, <1>2 DEF TypeOK
<1>4. GapInv'
  <2>1. /\ 1 \in 1 .. Len(m_backBuffer)
        /\ m_backBuffer[1] \in Packets
    BY <1>0
  <2>2. /\ m_PPMNextExpectedIteration <= m_backBuffer[1].first
        /\ m_PPMNextExpectedIteration \in Int /\ m_backBuffer[1].first \in Int
    BY <1>a, <2>1 DEF OrderInv, TypeOK, Packets, Iterations
  <2>3. QED
    BY <1>a, <1>0, <2>2 DEF GapInv, Adjacent
<1>5. CoverageInv'
  BY <1>a, <1>0 DEF CoverageInv, InBackBuffer
<1>6. /\ SequenceInv' /\ ResultInv' /\ OrderInv' /\ CountInv'
      /\ FrontIsMeanOfPrefix' /\ FrontIsMeanOfAll'
  BY <1>a, <1>0, <1>1 DEF SequenceInv, ResultInv, OrderInv, CountInv,
                          FrontIsMeanOfPrefix, FrontIsMeanOfAll
<1>7. QED
  BY <1>3, <1>4, <1>5, <1>6 DEF IInv

\* A packet of another sequence changes nothing.
LEMMA NextIInv ==
    ASSUME IInv, [Next]_vars
    PROVE  IInv'
<1>1. CASE \/ incrementSequenceNumber
           \/ \E method \in RenderMethods : assignRenderMethod(method)
           \/ UNCHANGED vars
  BY <1>1, ApplicationIInv
<1>2. ASSUME NEW p \in Packets, ReceivePacket(p) PROVE IInv'
  BY <1>2, AcceptIInv, ApplicationIInv DEF ReceivePacket, DropPacket
<1>3. CASE Handle
  BY <1>3, PathTracingIInv, InsertIInv, CombineIInv, NothingAdjacentIInv,
     MergeIntoFrontIInv, KeepIInv DEF Handle
<1>4. QED
  BY <1>1, <1>2, <1>3 DEF Next

\* The inductive invariant holds in every behaviour: however packets are ordered
\* or lost, and whenever the application restarts or changes its method, the two
\* buffers together hold exactly the iterations merged in the current sequence.
THEOREM Invariance == Spec => []IInv
<1>1. Init => IInv
  BY InitIInv
<1>2. IInv /\ [Next]_vars => IInv'
  BY NextIInv
<1>3. QED
  BY <1>1, <1>2, PTL DEF Spec

-----------------------------------------------------------------------------
(***************************************************************************)
(* The properties                                                          *)
(***************************************************************************)

\* Between two packets the back buffer starts after a gap.
LEMMA NothingStrandedIfInv == IInv => NothingStranded
<1> SUFFICES ASSUME IInv, pc = "idle"
             PROVE  /\ m_PPMNextExpectedIteration \notin photonMapped
                    /\ \A n \in Iterations :
                           n \in photonMapped <=>
                               n < m_PPMNextExpectedIteration \/ InBackBuffer(n)
  BY DEF NothingStranded
<1>1. /\ TypeOK /\ OrderInv /\ GapInv /\ CoverageInv /\ ~Merging
  BY DEF IInv, Merging
<1>2. \A n \in Iterations :
          n \in photonMapped <=> n < m_PPMNextExpectedIteration \/ InBackBuffer(n)
  BY <1>1 DEF CoverageInv
<1>3. ASSUME m_PPMNextExpectedIteration \in photonMapped PROVE FALSE
  <2>1. /\ m_PPMNextExpectedIteration \in Iterations
        /\ m_PPMNextExpectedIteration \in Int
    BY <1>1, <1>3 DEF TypeOK, Iterations
  <2>2. InBackBuffer(m_PPMNextExpectedIteration)
    BY <1>2, <1>3, <2>1
  <2>3. PICK i \in 1 .. Len(m_backBuffer) :
            m_PPMNextExpectedIteration \in IterationsIn(m_backBuffer[i])
    BY <2>2 DEF InBackBuffer
  <2>4. /\ Len(m_backBuffer) \in Nat /\ m_backBuffer # <<>>
        /\ 1 \in 1 .. Len(m_backBuffer)
        /\ \A j \in 1 .. Len(m_backBuffer) : m_backBuffer[j] \in Packets
    BY <1>1, <2>3 DEF TypeOK
  <2>5. \A j \in 1 .. Len(m_backBuffer) :
            /\ m_backBuffer[j].first \in Int /\ m_backBuffer[j].last \in Int
            /\ m_backBuffer[j].first <= m_backBuffer[j].last
    BY <2>4 DEF Packets, Iterations
  <2>6. m_PPMNextExpectedIteration < m_backBuffer[1].first
    BY <1>1, <2>4 DEF GapInv
  <2>7. i # 1 => m_backBuffer[1].last < m_backBuffer[i].first
    BY <1>1, <2>3, <2>4 DEF OrderInv
  <2>8. m_backBuffer[i].first <= m_PPMNextExpectedIteration
    BY <2>1, <2>3, <2>5 DEF IterationsIn
  <2>9. QED
    BY <2>1, <2>3, <2>4, <2>5, <2>6, <2>7, <2>8
<1>4. QED
  BY <1>2, <1>3

\* Between two packets no two packets of the back buffer can be combined.
LEMMA CoalescedIfInv == IInv => BackBufferIsCoalesced
<1> SUFFICES ASSUME IInv, pc = "idle"
             PROVE  /\ \A i \in 1 .. Len(m_backBuffer) - 1 :
                           m_backBuffer[i].last + 1 < m_backBuffer[i + 1].first
                    /\ m_backBuffer # <<>> =>
                           m_PPMNextExpectedIteration < m_backBuffer[1].first
  BY DEF BackBufferIsCoalesced
<1>1. /\ TypeOK /\ OrderInv /\ GapInv /\ ~Merging
  BY DEF IInv, Merging
<1>2. ASSUME NEW i \in 1 .. Len(m_backBuffer) - 1
      PROVE  m_backBuffer[i].last + 1 < m_backBuffer[i + 1].first
  <2>1. /\ Len(m_backBuffer) \in Nat
        /\ \A j \in 1 .. Len(m_backBuffer) : m_backBuffer[j] \in Packets
    BY <1>1 DEF TypeOK
  <2>2. /\ i \in 1 .. Len(m_backBuffer)
        /\ i + 1 \in i + 1 .. Len(m_backBuffer) /\ i + 1 \in 1 .. Len(m_backBuffer)
    BY <2>1
  <2>3. /\ m_backBuffer[i].last \in Int /\ m_backBuffer[i + 1].first \in Int
    BY <2>1, <2>2 DEF Packets, Iterations
  <2>4. m_backBuffer[i].last < m_backBuffer[i + 1].first
    BY <1>1, <2>2 DEF OrderInv
  <2>5. m_backBuffer[i].last + 1 # m_backBuffer[i + 1].first
    BY <1>1 DEF GapInv, Adjacent
  <2>6. QED
    BY <2>3, <2>4, <2>5
<1>3. QED
  BY <1>1, <1>2 DEF GapInv

\* Every variable keeps its type.
THEOREM TypeCorrectness == Spec => []TypeOK
BY Invariance, PTL DEF IInv

\* Whatever the order in which the packets of a sequence arrive, however many
\* iterations they hold, no packet that could be shown waits in the back buffer.
THEOREM NoPacketIsStranded == Spec => []NothingStranded
BY Invariance, NothingStrandedIfInv, PTL

\* The back buffer is a list of separate runs between two packets.
THEOREM BackBufferStaysCoalesced == Spec => []BackBufferIsCoalesced
BY Invariance, CoalescedIfInv, PTL

\* The photon mapped frame is the mean of exactly a prefix of the iterations.
THEOREM PhotonMappedFrameIsMean == Spec => []FrontIsMeanOfPrefix
BY Invariance, PTL DEF IInv

\* The path traced frame is the mean of exactly the iterations received.
THEOREM PathTracedFrameIsMean == Spec => []FrontIsMeanOfAll
BY Invariance, PTL DEF IInv

\* Each method's frame is the mean of its iterations, however the packets come.
THEOREM FrontIsMeanHolds == Spec => []FrontIsMean
<1>1. FrontIsMeanOfPrefix /\ FrontIsMeanOfAll => FrontIsMean
  BY DEF FrontIsMean
<1>2. QED
  BY <1>1, PhotonMappedFrameIsMean, PathTracedFrameIsMean, PTL

-----------------------------------------------------------------------------
(***************************************************************************)
(* The receiver implements the abstract frame                              *)
(***************************************************************************)

\* The end of a photon mapping merge is one Accept of the abstract frame.
LEMMA FinishIsAccept ==
    ASSUME IInv, IInv', MergeIntoFront \/ KeepInBackBuffer
    PROVE  Frame!Accept
<1>1. /\ pc # "idle" /\ pc' = "idle" /\ result \in Packets
      /\ photonMapped' = photonMapped \cup IterationsIn(result)
  BY DEF IInv, TypeOK, MergeIntoFront, KeepInBackBuffer, FinishPhotonMapping
<1>2. IterationsIn(result) \cap photonMapped = {}
  BY <1>1 DEF IInv, ResultInv
<1>3. IterationsIn(result) # {}
  BY <1>1, PacketFacts
<1>4. /\ photonMapped' \subseteq Iterations
      /\ photonMapped \subseteq photonMapped' /\ photonMapped # photonMapped'
  BY <1>1, <1>2, <1>3 DEF IInv, TypeOK
<1>5. NothingStranded'
  BY NothingStrandedIfInv, PTL
<1>6. m_PPMNextExpectedIteration' \in 0 .. NumIterations
  BY DEF IInv, TypeOK
<1>7. Frame!IsLongestPrefix(m_PPMNextExpectedIteration', photonMapped')
  <2>1. m_PPMNextExpectedIteration' \in Nat
    BY <1>6
  <2>2. \A n \in 0 .. m_PPMNextExpectedIteration' - 1 : n \in photonMapped'
    <3>1. \A n \in 0 .. m_PPMNextExpectedIteration' - 1 :
              n \in Iterations /\ n < m_PPMNextExpectedIteration'
      BY <1>6, PrefixIsInIterations, Zenon
    <3>2. QED
      BY <1>1, <1>5, <3>1 DEF NothingStranded
  <2>3. m_PPMNextExpectedIteration' \notin photonMapped'
    BY <1>1, <1>5 DEF NothingStranded
  <2>4. QED
    BY <2>1, <2>2, <2>3 DEF Frame!IsLongestPrefix
<1>8. QED
  BY <1>4, <1>7 DEF Frame!Accept

\* Every step of the receiver is a step of the abstract frame or leaves it alone.
LEMMA StepImplements ==
    ASSUME IInv, IInv', [Next]_vars
    PROVE  [Frame!Next]_(Frame!vars)
<1>1. CASE \/ incrementSequenceNumber
           \/ \E method \in RenderMethods : assignRenderMethod(method)
           \/ UNCHANGED vars
  BY <1>1 DEF incrementSequenceNumber, assignRenderMethod, vars, receiverVars,
              bufferVars, history, Frame!vars
<1>2. ASSUME NEW p \in Packets, ReceivePacket(p)
      PROVE  [Frame!Next]_(Frame!vars)
  BY <1>2 DEF ReceivePacket, AcceptPacket, DropPacket, resetInternals, vars,
              receiverVars, bufferVars, history, Frame!vars, Frame!Next, Frame!Restart
<1>3. CASE MergePathTracing \/ InsertIntoBackBuffer \/ CombineAdjacent \/ NothingAdjacent
  BY <1>3 DEF MergePathTracing, InsertIntoBackBuffer, CombineAdjacent,
              NothingAdjacent, bufferVars, history, Frame!vars
<1>4. CASE MergeIntoFront \/ KeepInBackBuffer
  BY <1>4, FinishIsAccept DEF Frame!Next
<1>5. QED
  BY <1>1, <1>2, <1>3, <1>4 DEF Next, Handle

\* With photon mapping, what is displayed is at every moment the longest run of
\* iterations from 0 whose results have all arrived.
THEOREM Refinement == Spec => ImplementsFrame
<1>1. Init => Frame!Init
  BY DEF Init, ReceiverInit, Frame!Init
<1>2. IInv /\ IInv' /\ [Next]_vars => [Frame!Next]_(Frame!vars)
  BY StepImplements
<1>3. QED
  BY <1>1, <1>2, Invariance, PTL DEF Spec, ImplementsFrame, Frame!Spec
=============================================================================
