-------------------- MODULE DistributedApplication_proofs --------------------
(***************************************************************************)
(* Invariance proofs for DistributedApplication, for every number of       *)
(* servers, of iterations and of sequences, and for all limits.            *)
(***************************************************************************)
EXTENDS DistributedApplication, SequenceTheorems, FiniteSetTheorems, TLAPS

-----------------------------------------------------------------------------
(***************************************************************************)
(* How many requests of a sequence are in a queue of requests.             *)
(***************************************************************************)
Positions(f, q) == {i \in 1 .. Len(f) : f[i].sequenceNumber = q}
Count(f, q) == Cardinality(Positions(f, q))

\* There are finitely many.
LEMMA CountType ==
    ASSUME NEW S, NEW f \in Seq(S), NEW q
    PROVE  IsFiniteSet(Positions(f, q)) /\ Count(f, q) \in Nat
<1>1. IsFiniteSet(1 .. Len(f))
  BY FS_Interval
<1>2. Positions(f, q) \in SUBSET (1 .. Len(f))
  BY DEF Positions
<1>3. IsFiniteSet(Positions(f, q))
  BY <1>1, <1>2, FS_Subset
<1>4. QED
  BY <1>3, FS_CardinalityType DEF Count

\* None of a sequence that no element belongs to.
LEMMA CountNone ==
    ASSUME NEW S, NEW f \in Seq(S), NEW q,
           \A i \in 1 .. Len(f) : f[i].sequenceNumber # q
    PROVE  Count(f, q) = 0
<1>1. Positions(f, q) = {}
  BY DEF Positions
<1>2. QED
  BY <1>1, FS_EmptySet DEF Count

\* A request that is sent counts in its own sequence.
LEMMA CountAppend ==
    ASSUME NEW S, NEW f \in Seq(S), NEW r \in S, NEW q
    PROVE  Count(Append(f, r), q) = IF r.sequenceNumber = q THEN Count(f, q) + 1
                                    ELSE Count(f, q)
<1> DEFINE g == Append(f, r)
           n == Len(f) + 1
<1>1. /\ Len(f) \in Nat /\ Len(g) = n /\ g[n] = r
      /\ \A i \in 1 .. Len(f) : g[i] = f[i]
  OBVIOUS
<1>2. Positions(g, q) = IF r.sequenceNumber = q THEN Positions(f, q) \cup {n}
                        ELSE Positions(f, q)
  <2>1. 1 .. n = (1 .. Len(f)) \cup {n}
    BY <1>1
  <2>2. QED
    BY <1>1, <2>1 DEF Positions
<1>3. n \notin Positions(f, q)
  BY <1>1 DEF Positions
<1>4. IsFiniteSet(Positions(f, q))
  BY CountType
<1>5. Cardinality(Positions(f, q) \cup {n}) = Cardinality(Positions(f, q)) + 1
  BY <1>3, <1>4, FS_AddElement
<1>6. QED
  BY <1>2, <1>5 DEF Count

\* A request that is answered does not count any more.
LEMMA CountTail ==
    ASSUME NEW S, NEW f \in Seq(S), f # <<>>, NEW q
    PROVE  Count(Tail(f), q) = IF Head(f).sequenceNumber = q THEN Count(f, q) - 1
                               ELSE Count(f, q)
<1> DEFINE g == Tail(f)
           P == Positions(f, q) \ {1}
           shift == [i \in P |-> i - 1]
<1>1. /\ Len(f) \in Nat /\ Len(f) >= 1 /\ g \in Seq(S) /\ Len(g) = Len(f) - 1
      /\ \A i \in 1 .. Len(f) - 1 : g[i] = f[i + 1]
      /\ Head(f) = f[1]
  OBVIOUS
<1>2. IsFiniteSet(Positions(f, q)) /\ IsFiniteSet(P)
  BY CountType, FS_RemoveElement
<1>3. ExistsBijection(P, Positions(g, q))
  <2>1. P = {i \in 2 .. Len(f) : f[i].sequenceNumber = q}
    BY <1>1 DEF Positions
  <2>2. \A i \in P : i \in Int /\ i - 1 \in Positions(g, q)
    BY <1>1, <2>1 DEF Positions
  <2>3. \A j \in Positions(g, q) : j \in Int /\ j + 1 \in P
    BY <1>1, <2>1 DEF Positions
  <2>4. shift \in [P -> Positions(g, q)]
    BY <2>2
  <2>5. \A i, j \in P : shift[i] = shift[j] => i = j
    BY <2>2
  <2>6. \A j \in Positions(g, q) : \E i \in P : shift[i] = j
    <3> SUFFICES ASSUME NEW j \in Positions(g, q) PROVE \E i \in P : shift[i] = j
      OBVIOUS
    <3>1. j + 1 \in P /\ shift[j + 1] = j
      BY <2>3
    <3>2. QED
      BY <3>1
  <2>7. QED
    BY <2>4, <2>5, <2>6 DEF ExistsBijection, Bijection, Injection, Surjection, IsInjective
<1>4. Count(g, q) = Cardinality(P)
  BY <1>2, <1>3, FS_Bijection DEF Count
<1>5. 1 \in Positions(f, q) <=> Head(f).sequenceNumber = q
  BY <1>1 DEF Positions
<1>6. Cardinality(P) = IF 1 \in Positions(f, q) THEN Cardinality(Positions(f, q)) - 1
                       ELSE Cardinality(Positions(f, q))
  BY <1>2, FS_RemoveElement
<1>7. QED
  BY <1>4, <1>5, <1>6 DEF Count

-----------------------------------------------------------------------------
(***************************************************************************)
(* The inductive invariant                                                 *)
(***************************************************************************)

\* No decrement of a total of zero is begun.
ReadInv == readPending # 0

\* The sequence numbers on their way from the application to a server and back
\* never run ahead of one another, and onTimeout only goes on below the limit.
StampInv ==
    \A s \in Servers :
        /\ m_lastRenderCommandSequenceNumber[s] <= m_sequenceNumber
        /\ \A i \in 1 .. Len(inFlight[s]) :
               inFlight[s][i].sequenceNumber <= m_lastRenderCommandSequenceNumber[s]
        /\ tpc[s] = "send" =>
               /\ request[s] \in Requests
               /\ m_lastRenderCommandSequenceNumber[s] <= request[s].sequenceNumber
               /\ request[s].sequenceNumber <= m_sequenceNumber
        /\ tpc[s] # "idle" => m_numServerPendingIterations[s] < PendingIterationsLimit

\* Of the iterations that a connection counts, those of older sequences alone do not
\* reach the limit.
StaleInv ==
    \A s \in Servers :
        /\ m_lastRenderCommandSequenceNumber[s] = m_sequenceNumber
        /\ m_renderServerState[s] # "DISCONNECTED"
        => m_numServerPendingIterations[s]
               < Count(inFlight[s], m_sequenceNumber) * MaxIterationsPerPacket
                     + PendingIterationsLimit

\* Nothing is asked for in a sequence that is yet to come.
FutureInv ==
    \A q \in SequenceNumbers :
        q > m_sequenceNumber => requested[q] = {} /\ q \notin early

IInv ==
    /\ TypeOK
    /\ ReadInv
    /\ StampInv
    /\ PendingCoversInFlight
    /\ StaleInv
    /\ FutureInv
    /\ RequestedIsPrefix

-----------------------------------------------------------------------------
(***************************************************************************)
(* What an action leaves alone                                             *)
(***************************************************************************)

\* The properties of the connections, as long as neither they nor the current
\* sequence change.
LEMMA ConnectionsUntouched ==
    ASSUME IInv, UNCHANGED <<m_sequenceNumber, connectionVars>>
    PROVE  StampInv' /\ PendingCoversInFlight' /\ StaleInv'
<1> USE DEF IInv, connectionVars
<1>1. StampInv'
  BY DEF StampInv
<1>2. PendingCoversInFlight'
  BY DEF PendingCoversInFlight, InFlightOf
<1>3. StaleInv'
  BY DEF StaleInv, Count, Positions
<1>4. QED
  BY <1>1, <1>2, <1>3

\* The properties of the iterations asked for, as long as the numbering goes on and
\* no reset of it is queued or done.
LEMMA NumberingUntouched ==
    ASSUME IInv, ResetQueued' <=> ResetQueued,
           UNCHANGED <<m_sequenceNumber, m_nextRenderServerRenderRequestIteration, history>>
    PROVE  FutureInv' /\ RequestedIsPrefix'
BY DEF IInv, history, FutureInv, RequestedIsPrefix

\* A queue of the application's slots with one event more.
LEMMA ResetQueuedAppend ==
    ASSUME appEvents \in Seq(Events), NEW e \in Events, appEvents' = Append(appEvents, e)
    PROVE  /\ appEvents' \in Seq(Events)
           /\ ResetQueued' <=> ResetQueued \/ e.slot = "onSequenceNumberIncremented"
<1> DEFINE n == Len(appEvents) + 1
<1>1. /\ appEvents' \in Seq(Events) /\ Len(appEvents) \in Nat /\ Len(appEvents') = n
      /\ appEvents'[n] = e
      /\ \A i \in 1 .. Len(appEvents) : appEvents'[i] = appEvents[i]
  OBVIOUS
<1>2. 1 .. n = (1 .. Len(appEvents)) \cup {n}
  BY <1>1
<1>3. QED
  BY <1>1, <1>2 DEF ResetQueued

\* A queue of the application's slots without its first event.
LEMMA ResetQueuedTail ==
    ASSUME appEvents \in Seq(Events), appEvents # <<>>, appEvents' = Tail(appEvents)
    PROVE  /\ appEvents' \in Seq(Events)
           /\ ResetQueued <=>
                  ResetQueued' \/ Head(appEvents).slot = "onSequenceNumberIncremented"
<1>1. /\ appEvents' \in Seq(Events) /\ Len(appEvents) \in Nat /\ Len(appEvents) >= 1
      /\ Len(appEvents') = Len(appEvents) - 1
      /\ Head(appEvents) = appEvents[1]
      /\ \A i \in 1 .. Len(appEvents) - 1 : appEvents'[i] = appEvents[i + 1]
  OBVIOUS
<1>2. ASSUME ResetQueued
      PROVE  ResetQueued' \/ Head(appEvents).slot = "onSequenceNumberIncremented"
  <2>1. PICK i \in 1 .. Len(appEvents) : appEvents[i].slot = "onSequenceNumberIncremented"
    BY <1>2 DEF ResetQueued
  <2>2. CASE i = 1
    BY <1>1, <2>1, <2>2
  <2>3. CASE i # 1
    <3>1. i - 1 \in 1 .. Len(appEvents') /\ appEvents'[i - 1] = appEvents[i]
      BY <1>1, <2>3
    <3>2. QED
      BY <2>1, <3>1 DEF ResetQueued
  <2>4. QED
    BY <2>2, <2>3
<1>3. ASSUME ResetQueued' PROVE ResetQueued
  <2>1. PICK i \in 1 .. Len(appEvents') : appEvents'[i].slot = "onSequenceNumberIncremented"
    BY <1>3 DEF ResetQueued
  <2>2. i + 1 \in 1 .. Len(appEvents) /\ appEvents'[i] = appEvents[i + 1]
    BY <1>1
  <2>3. QED
    BY <2>1, <2>2 DEF ResetQueued
<1>4. ASSUME Head(appEvents).slot = "onSequenceNumberIncremented" PROVE ResetQueued
  BY <1>1, <1>4 DEF ResetQueued
<1>5. QED
  BY <1>1, <1>2, <1>3, <1>4

-----------------------------------------------------------------------------
(***************************************************************************)
(* Initial states                                                          *)
(***************************************************************************)

\* Nothing is asked for, sent or counted.
LEMMA InitIInv == Init => IInv
<1> SUFFICES ASSUME Init PROVE IInv
  OBVIOUS
<1> USE ApplicationAssumption
<1>1. TypeOK
  BY DEF Init, TypeOK, SequenceNumbers, Iterations, Nothing, NoRequest
<1>2. ReadInv /\ StampInv
  BY DEF Init, ReadInv, StampInv, Nothing
<1>3. ASSUME NEW s \in Servers, NEW q PROVE Count(inFlight[s], q) = 0
  <2>1. inFlight[s] = <<>> /\ inFlight[s] \in Seq(Requests) /\ Len(inFlight[s]) = 0
    BY DEF Init
  <2>2. \A i \in 1 .. Len(inFlight[s]) : inFlight[s][i].sequenceNumber # q
    BY <2>1
  <2>3. QED
    BY <2>1, <2>2, CountNone
<1>4. PendingCoversInFlight
  BY <1>3 DEF Init, PendingCoversInFlight, InFlightOf, Count, Positions
<1>5. StaleInv
  BY <1>3 DEF Init, StaleInv
<1>6. FutureInv
  BY DEF Init, FutureInv
<1>7. RequestedIsPrefix
  BY DEF Init, RequestedIsPrefix, SequenceNumbers
<1>8. QED
  BY <1>1, <1>2, <1>4, <1>5, <1>6, <1>7 DEF IInv

-----------------------------------------------------------------------------
(***************************************************************************)
(* Application                                                             *)
(***************************************************************************)

\* A new sequence: no request of it is in flight or asked for, whatever the
\* connections do meanwhile, and the reset of the numbering is queued.
LEMMA IncrementIInv ==
    ASSUME IInv, incrementSequenceNumber, UNCHANGED <<appVars, connectionVars, history>>
    PROVE  /\ m_sequenceNumber' \in SequenceNumbers /\ appEvents' \in Seq(Events)
           /\ ReadInv' /\ StampInv' /\ PendingCoversInFlight' /\ StaleInv'
           /\ FutureInv' /\ RequestedIsPrefix'
<1> USE DEF IInv, appVars, connectionVars, history
<1> USE ApplicationAssumption
<1>1. /\ m_sequenceNumber \in Nat /\ m_sequenceNumber' = m_sequenceNumber + 1
      /\ m_sequenceNumber' \in SequenceNumbers
  BY DEF incrementSequenceNumber, TypeOK, SequenceNumbers
<1> DEFINE e == [slot |-> "onSequenceNumberIncremented",
                 sequenceNumber |-> m_sequenceNumber']
<1>2. e \in Events /\ appEvents' = Append(appEvents, e) /\ appEvents \in Seq(Events)
  BY <1>1 DEF incrementSequenceNumber, Events, TypeOK
<1>3. appEvents' \in Seq(Events) /\ ResetQueued'
  BY <1>2, ResetQueuedAppend
<1>4. ReadInv'
  BY DEF ReadInv
<1>5. StampInv'
  <2> SUFFICES ASSUME NEW s \in Servers PROVE StampInv!(s)'
    BY DEF StampInv
  <2>1. m_lastRenderCommandSequenceNumber[s] \in Nat
    BY DEF TypeOK, SequenceNumbers
  <2>2. tpc[s] = "send" => request[s].sequenceNumber \in Nat
    BY DEF StampInv, Requests, SequenceNumbers
  <2>3. QED
    BY <1>1, <2>1, <2>2 DEF StampInv
<1>6. ASSUME NEW s \in Servers
      PROVE  /\ Count(inFlight[s], m_sequenceNumber') = 0
             /\ m_lastRenderCommandSequenceNumber[s] < m_sequenceNumber'
  <2>1. /\ inFlight[s] \in Seq(Requests)
        /\ m_lastRenderCommandSequenceNumber[s] \in Nat
    BY DEF TypeOK, SequenceNumbers
  <2>2. m_lastRenderCommandSequenceNumber[s] < m_sequenceNumber'
    BY <1>1, <2>1 DEF StampInv
  <2>3. ASSUME NEW i \in 1 .. Len(inFlight[s])
        PROVE  inFlight[s][i].sequenceNumber # m_sequenceNumber'
    <3>1. inFlight[s][i] \in Requests
      BY <2>1
    <3>2. inFlight[s][i].sequenceNumber \in Nat
      BY <3>1 DEF Requests, SequenceNumbers
    <3>3. inFlight[s][i].sequenceNumber <= m_lastRenderCommandSequenceNumber[s]
      BY DEF StampInv
    <3>4. QED
      BY <1>1, <2>1, <2>2, <3>2, <3>3
  <2>4. QED
    BY <2>1, <2>2, <2>3, CountNone
<1>7. PendingCoversInFlight'
  <2>1. ASSUME NEW s \in Servers
        PROVE  /\ 0 <= m_numServerPendingIterations[s]
               /\ m_numServerPendingIterations[s]
                      < PendingIterationsLimit + MaxIterationsPerPacket
    BY DEF PendingCoversInFlight, TypeOK
  <2>2. QED
    BY <1>6, <2>1 DEF PendingCoversInFlight, InFlightOf, Count, Positions
<1>8. StaleInv'
  <2>1. \A s \in Servers : m_lastRenderCommandSequenceNumber'[s] # m_sequenceNumber'
    <3> SUFFICES ASSUME NEW s \in Servers
                 PROVE  m_lastRenderCommandSequenceNumber[s] # m_sequenceNumber'
      OBVIOUS
    <3>1. m_lastRenderCommandSequenceNumber[s] \in Nat
      BY DEF TypeOK, SequenceNumbers
    <3>2. QED
      BY <1>1, <1>6, <3>1
  <2>2. QED
    BY <2>1 DEF StaleInv
<1>9. FutureInv'
  BY <1>1 DEF FutureInv, SequenceNumbers
<1>10. RequestedIsPrefix'
  <2>1. requested[m_sequenceNumber'] = {}
    BY <1>1 DEF FutureInv
  <2>2. QED
    BY <1>3, <2>1 DEF RequestedIsPrefix
<1>11. QED
  BY <1>1, <1>3, <1>4, <1>5, <1>7, <1>8, <1>9, <1>10

\* What the user does: restarts, new settings, another method, a pause.
LEMMA GuiIInv ==
    ASSUME IInv, Gui
    PROVE  IInv'
<1> USE DEF IInv
<1>1. CASE SettingsUpdated
  <2>1. TypeOK'
    BY <1>1, IncrementIInv
       DEF SettingsUpdated, TypeOK, appVars, connectionVars, history
  <2>2. QED
    BY <1>1, <2>1, IncrementIInv DEF SettingsUpdated
<1>2. CASE onRenderRestart
  <2>1. TypeOK'
    BY <1>2, IncrementIInv
       DEF onRenderRestart, TypeOK, appVars, connectionVars, history
  <2>2. QED
    BY <1>2, <2>1, IncrementIInv DEF onRenderRestart
<1>3. CASE TogglePause
  <2>1. TypeOK'
    BY <1>3 DEF TogglePause, TypeOK, appVars, connectionVars, history
  <2>2. StampInv' /\ PendingCoversInFlight' /\ StaleInv'
    BY <1>3, ConnectionsUntouched DEF TogglePause
  <2>3. FutureInv' /\ RequestedIsPrefix'
    BY <1>3, NumberingUntouched DEF TogglePause, appVars, ResetQueued
  <2>4. QED
    BY <1>3, <2>1, <2>2, <2>3 DEF TogglePause, ReadInv, appVars
<1>4. CASE \E method \in RenderMethods : setRenderMethod(method)
  <2>1. TypeOK'
    BY <1>4, IncrementIInv
       DEF setRenderMethod, TypeOK, appVars, connectionVars, history
  <2>2. QED
    BY <1>4, <2>1, IncrementIInv DEF setRenderMethod
<1>5. CASE AssignRenderMethod
  <2>1. TypeOK'
    BY <1>5 DEF AssignRenderMethod, TypeOK, appVars, connectionVars, history
  <2>2. StampInv' /\ PendingCoversInFlight' /\ StaleInv'
    BY <1>5, ConnectionsUntouched DEF AssignRenderMethod
  <2>3. FutureInv' /\ RequestedIsPrefix'
    BY <1>5, NumberingUntouched DEF AssignRenderMethod, appVars, ResetQueued
  <2>4. QED
    BY <1>5, <2>1, <2>2, <2>3 DEF AssignRenderMethod, ReadInv, appVars
<1>6. QED
  BY <1>1, <1>2, <1>3, <1>4, <1>5 DEF Gui

-----------------------------------------------------------------------------
(***************************************************************************)
(* DistributedApplication and the receiver                                 *)
(***************************************************************************)

\* The numbering starts over: only in a sequence that nothing was asked for in,
\* unless a request was too early.
LEMMA OnSequenceNumberIncrementedIInv ==
    ASSUME IInv, onSequenceNumberIncremented
    PROVE  IInv'
<1> USE DEF IInv, onSequenceNumberIncremented
<1>1. appEvents \in Seq(Events)
  BY DEF TypeOK
<1>2. appEvents' \in Seq(Events) /\ ResetQueued
  BY <1>1, ResetQueuedTail
<1>3. TypeOK'
  BY <1>2, ApplicationAssumption
     DEF TypeOK, guiVars, connectionVars, history
<1>4. StampInv' /\ PendingCoversInFlight' /\ StaleInv'
  BY ConnectionsUntouched DEF guiVars
<1>5. FutureInv'
  BY DEF FutureInv, guiVars, history
<1>6. RequestedIsPrefix'
  <2>1. m_sequenceNumber \notin early => requested[m_sequenceNumber] = {}
    BY <1>2 DEF RequestedIsPrefix
  <2>2. 0 .. m_nextRenderServerRenderRequestIteration' - 1 = {}
    OBVIOUS
  <2>3. QED
    BY <2>1, <2>2 DEF RequestedIsPrefix, guiVars, history
<1>7. QED
  BY <1>3, <1>4, <1>5, <1>6 DEF ReadInv

\* The decrement is begun when some packet is pending.
LEMMA OnPacketReceivedIInv ==
    ASSUME IInv, onPacketReceived
    PROVE  IInv'
<1> USE DEF IInv, onPacketReceived
<1>1. appEvents \in Seq(Events)
  BY DEF TypeOK
<1>2. appEvents' \in Seq(Events) /\ (ResetQueued' <=> ResetQueued)
  BY <1>1, ResetQueuedTail
<1>3. TypeOK'
  BY <1>2 DEF TypeOK, guiVars, connectionVars, history, Nothing
<1>4. StampInv' /\ PendingCoversInFlight' /\ StaleInv'
  BY ConnectionsUntouched DEF guiVars
<1>5. FutureInv' /\ RequestedIsPrefix'
  BY <1>2, NumberingUntouched DEF guiVars
<1>6. ReadInv'
  BY DEF ReadInv, Nothing
<1>7. QED
  BY <1>3, <1>4, <1>5, <1>6

\* The value written is a natural number, whatever was pending meanwhile.
LEMMA WriteDecrementIInv ==
    ASSUME IInv, WriteDecrement
    PROVE  IInv'
<1> USE DEF IInv, WriteDecrement
<1>1. readPending \in Nat /\ readPending # 0
  BY DEF TypeOK, ReadInv
<1>2. TypeOK'
  BY <1>1 DEF TypeOK, guiVars, connectionVars, history
<1>3. StampInv' /\ PendingCoversInFlight' /\ StaleInv'
  BY ConnectionsUntouched DEF guiVars
<1>4. FutureInv' /\ RequestedIsPrefix'
  BY NumberingUntouched DEF guiVars, ResetQueued
<1>5. QED
  BY <1>2, <1>3, <1>4 DEF ReadInv, Nothing

\* The receiver's report.
LEMMA MergePacketIInv ==
    ASSUME IInv, MergePacket
    PROVE  IInv'
<1> USE DEF IInv, MergePacket
<1> DEFINE e == [slot |-> "onPacketReceived", sequenceNumber |-> m_sequenceNumber]
<1>1. appEvents \in Seq(Events) /\ e \in Events /\ packets \in Seq(Requests)
  BY DEF TypeOK, Events
<1>2. appEvents' \in Seq(Events) /\ (ResetQueued' <=> ResetQueued)
  <2>1. CASE appEvents' = Append(appEvents, e)
    BY <1>1, <2>1, ResetQueuedAppend
  <2>2. CASE appEvents' = appEvents
    BY <1>1, <2>2 DEF ResetQueued
  <2>3. QED
    BY <2>1, <2>2
<1>3. packets' \in Seq(Requests)
  BY <1>1
<1>4. TypeOK'
  BY <1>2, <1>3 DEF TypeOK, guiVars, appVars, connectionVars, history
<1>5. StampInv' /\ PendingCoversInFlight' /\ StaleInv'
  BY ConnectionsUntouched DEF guiVars
<1>6. FutureInv' /\ RequestedIsPrefix'
  BY <1>2, NumberingUntouched DEF guiVars, appVars
<1>7. QED
  BY <1>4, <1>5, <1>6 DEF ReadInv, appVars

-----------------------------------------------------------------------------
(***************************************************************************)
(* RenderServerConnection and its server                                   *)
(***************************************************************************)

\* A request leaves the queue of a server: none of a sequence that it has not
\* belonged to counts less.
LEMMA TailOfInFlight ==
    ASSUME IInv, NEW s \in Servers, inFlight[s] # <<>>
    PROVE  /\ Head(inFlight[s]) \in Requests
           /\ Tail(inFlight[s]) \in Seq(Requests)
           /\ \A i \in 1 .. Len(Tail(inFlight[s])) :
                  Tail(inFlight[s])[i].sequenceNumber <= m_lastRenderCommandSequenceNumber[s]
           /\ \A q : Count(Tail(inFlight[s]), q) =
                  IF Head(inFlight[s]).sequenceNumber = q THEN Count(inFlight[s], q) - 1
                  ELSE Count(inFlight[s], q)
<1> DEFINE f == inFlight[s]
<1>1. f \in Seq(Requests) /\ f # <<>>
  BY DEF IInv, TypeOK
<1>2. \A i \in 1 .. Len(f) : f[i].sequenceNumber <= m_lastRenderCommandSequenceNumber[s]
  BY DEF IInv, StampInv
<1> HIDE DEF f
<1>3. /\ Head(f) \in Requests /\ Tail(f) \in Seq(Requests)
      /\ \A i \in 1 .. Len(Tail(f)) : i + 1 \in 1 .. Len(f) /\ Tail(f)[i] = f[i + 1]
  BY <1>1
<1>4. \A i \in 1 .. Len(Tail(f)) :
          Tail(f)[i].sequenceNumber <= m_lastRenderCommandSequenceNumber[s]
  BY <1>2, <1>3
<1>5. \A q : Count(Tail(f), q) = IF Head(f).sequenceNumber = q THEN Count(f, q) - 1
                                 ELSE Count(f, q)
  BY <1>1, CountTail
<1>6. QED
  BY <1>3, <1>4, <1>5 DEF f

\* The device information concerns neither requests nor numbers.
LEMMA DetailsIInv ==
    ASSUME IInv, NEW s \in Servers, AskForDetails(s) \/ DetailsArrive(s)
    PROVE  IInv'
<1> USE DEF IInv
<1>1. /\ m_renderServerState[s] # "DISCONNECTED"
      /\ UNCHANGED <<guiVars, appVars, appEvents, m_numServerPendingIterations,
                     m_lastRenderCommandSequenceNumber, tpc, request, readTotal,
                     inFlight, packets, history>>
      /\ \E state \in {"WAITING_FOR_DEVICE_INFORMATION", "RENDERING",
                       "ERROR_INVALID_CONFIRMATION"} :
             m_renderServerState' = [m_renderServerState EXCEPT ![s] = state]
  BY DEF AskForDetails, DetailsArrive, Set
<1>2. TypeOK'
  BY <1>1 DEF TypeOK, guiVars, appVars, history
<1>3. StampInv'
  BY <1>1 DEF StampInv, guiVars
<1>4. PendingCoversInFlight'
  BY <1>1 DEF PendingCoversInFlight, InFlightOf, guiVars
<1>5. StaleInv'
  BY <1>1 DEF StaleInv, TypeOK, Count, Positions, guiVars
<1>6. FutureInv' /\ RequestedIsPrefix'
  BY <1>1, NumberingUntouched DEF guiVars, appVars, ResetQueued
<1>7. QED
  BY <1>1, <1>2, <1>3, <1>4, <1>5, <1>6 DEF ReadInv, appVars

\* The count is reset only when nothing of the current sequence is in flight.
LEMMA CheckTimeoutIInv ==
    ASSUME IInv, NEW s \in Servers, CheckTimeout(s)
    PROVE  IInv'
<1> USE DEF IInv, CheckTimeout
<1> USE ApplicationAssumption
<1>1. TypeOK'
  BY DEF TypeOK, guiVars, appVars, history
<1>2. /\ m_sequenceNumber \in Nat
      /\ m_lastRenderCommandSequenceNumber[s] \in Nat
      /\ m_numServerPendingIterations[s] \in Nat
      /\ inFlight[s] \in Seq(Requests)
  BY DEF TypeOK, SequenceNumbers
<1>3. /\ \A t \in Servers : t # s =>
             /\ tpc'[t] = tpc[t]
             /\ m_numServerPendingIterations'[t] = m_numServerPendingIterations[t]
      /\ m_numServerPendingIterations'[s] =
             IF m_sequenceNumber > m_lastRenderCommandSequenceNumber[s] THEN 0
             ELSE m_numServerPendingIterations[s]
      /\ tpc'[s] = "request"
  BY DEF TypeOK
<1>4. StampInv'
  <2>1. m_numServerPendingIterations'[s] < PendingIterationsLimit
    BY <1>2, <1>3
  <2>2. QED
    BY <1>3, <2>1 DEF StampInv, guiVars
<1>5. m_sequenceNumber > m_lastRenderCommandSequenceNumber[s]
          => Count(inFlight[s], m_sequenceNumber) = 0
  <2> SUFFICES ASSUME m_sequenceNumber > m_lastRenderCommandSequenceNumber[s]
               PROVE  Count(inFlight[s], m_sequenceNumber) = 0
    OBVIOUS
  <2>1. ASSUME NEW i \in 1 .. Len(inFlight[s])
        PROVE  inFlight[s][i].sequenceNumber # m_sequenceNumber
    <3>1. inFlight[s][i] \in Requests
      BY <1>2
    <3>2. inFlight[s][i].sequenceNumber \in Nat
      BY <3>1 DEF Requests, SequenceNumbers
    <3>3. inFlight[s][i].sequenceNumber <= m_lastRenderCommandSequenceNumber[s]
      BY DEF StampInv
    <3>4. QED
      BY <1>2, <3>2, <3>3
  <2>2. QED
    BY <1>2, <2>1, CountNone
<1>6. PendingCoversInFlight'
  <2> SUFFICES ASSUME NEW t \in Servers
               PROVE  /\ Count(inFlight[t], m_sequenceNumber) * MaxIterationsPerPacket
                             <= m_numServerPendingIterations'[t]
                      /\ m_numServerPendingIterations'[t]
                             < PendingIterationsLimit + MaxIterationsPerPacket
    BY DEF PendingCoversInFlight, InFlightOf, Count, Positions, guiVars
  <2>1. /\ Count(inFlight[t], m_sequenceNumber) * MaxIterationsPerPacket
               <= m_numServerPendingIterations[t]
        /\ m_numServerPendingIterations[t]
               < PendingIterationsLimit + MaxIterationsPerPacket
    BY DEF PendingCoversInFlight, InFlightOf, Count, Positions
  <2>2. QED
    BY <1>3, <1>5, <2>1
<1>7. StaleInv'
  <2> SUFFICES ASSUME NEW t \in Servers,
                      m_lastRenderCommandSequenceNumber[t] = m_sequenceNumber,
                      m_renderServerState[t] # "DISCONNECTED"
               PROVE  m_numServerPendingIterations'[t]
                          < Count(inFlight[t], m_sequenceNumber) * MaxIterationsPerPacket
                                + PendingIterationsLimit
    BY DEF StaleInv, Count, Positions, guiVars
  <2>1. m_numServerPendingIterations'[t] = m_numServerPendingIterations[t]
    BY <1>2, <1>3
  <2>2. QED
    BY <2>1 DEF StaleInv
<1>8. FutureInv' /\ RequestedIsPrefix'
  BY NumberingUntouched DEF guiVars, appVars, ResetQueued
<1>9. QED
  BY <1>1, <1>4, <1>6, <1>7, <1>8 DEF ReadInv, appVars

\* A request is stamped with the current sequence, and its iterations follow those
\* asked for in the sequence so far.
LEMMA TakeRequestIInv ==
    ASSUME IInv, NEW s \in Servers, TakeRequest(s)
    PROVE  IInv'
<1> USE DEF IInv, TakeRequest
<1> USE ApplicationAssumption
<1> DEFINE next == m_nextRenderServerRenderRequestIteration
           r == [sequenceNumber |-> m_sequenceNumber, first |-> next]
<1>1. /\ next \in Nat /\ next \in Iterations /\ r \in Requests
      /\ next' = next + MaxIterationsPerPacket /\ next' \in 0 .. NumIterations
      /\ m_sequenceNumber \in SequenceNumbers /\ m_sequenceNumber \in Nat
  BY DEF TypeOK, Requests, Iterations, SequenceNumbers
<1>2. request' = [request EXCEPT ![s] = r] /\ request'[s] = r
  BY DEF TypeOK
<1>3. IterationsIn(r) = next .. next' - 1 /\ IterationsIn(r) \in SUBSET Iterations
  BY <1>1 DEF IterationsIn, Iterations
<1>4. requested' = [requested EXCEPT ![m_sequenceNumber] = @ \cup IterationsIn(r)]
  BY <1>2
<1> HIDE DEF r
<1>5. TypeOK'
  BY <1>1, <1>2, <1>3, <1>4 DEF TypeOK, guiVars
<1>6. StampInv'
  <2> SUFFICES ASSUME NEW t \in Servers PROVE StampInv!(t)'
    BY DEF StampInv
  <2>1. CASE t = s
    <3>1. m_lastRenderCommandSequenceNumber[s] <= m_sequenceNumber
      BY DEF StampInv
    <3>2. r.sequenceNumber = m_sequenceNumber
      BY DEF r
    <3>3. m_numServerPendingIterations[s] < PendingIterationsLimit
      BY DEF StampInv
    <3>4. QED
      BY <1>1, <1>2, <2>1, <3>1, <3>2, <3>3 DEF StampInv, guiVars
  <2>2. CASE t # s
    <3>1. tpc'[t] = tpc[t] /\ request'[t] = request[t]
      BY <2>2 DEF TypeOK
    <3>2. QED
      BY <3>1 DEF StampInv, guiVars
  <2>3. QED
    BY <2>1, <2>2
<1>7. PendingCoversInFlight'
  BY DEF PendingCoversInFlight, InFlightOf, guiVars
<1>8. StaleInv'
  BY DEF StaleInv, Count, Positions, guiVars
<1>9. FutureInv'
  <2>1. \A q \in SequenceNumbers : q > m_sequenceNumber => q # m_sequenceNumber
    BY <1>1
  <2>2. QED
    BY <1>1, <1>4, <2>1 DEF FutureInv, TypeOK, guiVars
<1>10. RequestedIsPrefix'
  <2> SUFFICES ASSUME m_sequenceNumber \notin early', ~ResetQueued
               PROVE  requested'[m_sequenceNumber] = 0 .. next' - 1
    BY DEF RequestedIsPrefix, ResetQueued, guiVars
  <2>1. requested[m_sequenceNumber] = 0 .. next - 1
    BY DEF RequestedIsPrefix
  <2>2. requested'[m_sequenceNumber] = requested[m_sequenceNumber] \cup IterationsIn(r)
    BY <1>1, <1>4 DEF TypeOK
  <2>3. \A k, m \in Nat : m > k => (0 .. k - 1) \cup (k .. m - 1) = 0 .. m - 1
    OBVIOUS
  <2>4. next' \in Nat /\ next' > next
    BY <1>1
  <2>5. QED
    BY <1>1, <1>3, <2>1, <2>2, <2>3, <2>4
<1>11. QED
  BY <1>5, <1>6, <1>7, <1>8, <1>9, <1>10 DEF ReadInv

\* A request that is sent is counted in both places.
LEMMA SendRequestIInv ==
    ASSUME IInv, NEW s \in Servers, SendRequest(s)
    PROVE  IInv'
<1> USE DEF IInv, SendRequest
<1> USE ApplicationAssumption
<1> DEFINE r == request[s]
           f == inFlight[s]
           pending == m_numServerPendingIterations[s]
<1>1. /\ r \in Requests
      /\ m_lastRenderCommandSequenceNumber[s] <= r.sequenceNumber
      /\ r.sequenceNumber <= m_sequenceNumber
      /\ \A i \in 1 .. Len(f) : f[i].sequenceNumber <= m_lastRenderCommandSequenceNumber[s]
      /\ pending < PendingIterationsLimit
  BY DEF StampInv
<1>2. /\ r.sequenceNumber \in SequenceNumbers /\ r.sequenceNumber \in Nat
      /\ m_sequenceNumber \in Nat /\ m_lastRenderCommandSequenceNumber[s] \in Nat
      /\ pending \in Nat /\ f \in Seq(Requests)
  <2>1. r.sequenceNumber \in SequenceNumbers
    BY <1>1 DEF Requests
  <2>2. /\ m_sequenceNumber \in SequenceNumbers
        /\ m_lastRenderCommandSequenceNumber[s] \in SequenceNumbers
        /\ pending \in Nat /\ f \in Seq(Requests)
    BY DEF TypeOK
  <2>3. SequenceNumbers \in SUBSET Nat
    BY DEF SequenceNumbers
  <2>4. QED
    BY <2>1, <2>2, <2>3
<1>3. /\ inFlight'[s] = Append(f, r) /\ Append(f, r) \in Seq(Requests)
      /\ m_lastRenderCommandSequenceNumber'[s] = r.sequenceNumber
      /\ m_numServerPendingIterations'[s] = pending + MaxIterationsPerPacket
      /\ tpc'[s] = "idle"
  <2>1. Append(f, r) \in Seq(Requests)
    BY <1>1, <1>2
  <2>2. inFlight'[s] = Append(f, r)
    BY DEF TypeOK
  <2>3. /\ m_lastRenderCommandSequenceNumber'[s] = r.sequenceNumber
        /\ m_numServerPendingIterations'[s] = pending + MaxIterationsPerPacket
        /\ tpc'[s] = "idle"
    BY DEF TypeOK
  <2>4. QED
    BY <2>1, <2>2, <2>3
<1>4. \A t \in Servers : t # s =>
          /\ inFlight'[t] = inFlight[t]
          /\ m_lastRenderCommandSequenceNumber'[t] = m_lastRenderCommandSequenceNumber[t]
          /\ m_numServerPendingIterations'[t] = m_numServerPendingIterations[t]
          /\ tpc'[t] = tpc[t] /\ request'[t] = request[t]
  BY DEF TypeOK
<1>5. TypeOK'
  <2>1. pending + MaxIterationsPerPacket \in Nat /\ readTotal[s] + 1 \in Nat
    BY <1>2 DEF TypeOK
  <2>2. QED
    BY <1>2, <1>3, <2>1 DEF TypeOK, guiVars, history
<1>6. StampInv'
  <2> SUFFICES ASSUME NEW t \in Servers PROVE StampInv!(t)'
    BY DEF StampInv
  <2>1. CASE t = s
    <3>1. ASSUME NEW i \in 1 .. Len(Append(f, r))
          PROVE  Append(f, r)[i].sequenceNumber <= r.sequenceNumber
      <4>1. CASE i = Len(f) + 1
        BY <1>2, <4>1
      <4>2. CASE i # Len(f) + 1
        <5>1. i \in 1 .. Len(f) /\ Append(f, r)[i] = f[i] /\ f[i] \in Requests
          BY <1>1, <1>2, <4>2
        <5>2. f[i].sequenceNumber \in Nat
          BY <5>1 DEF Requests, SequenceNumbers
        <5>3. QED
          BY <1>1, <1>2, <5>1, <5>2
      <4>3. QED
        BY <4>1, <4>2
    <3>2. QED
      BY <1>1, <1>3, <2>1, <3>1 DEF guiVars
  <2>2. CASE t # s
    BY <1>4, <2>2 DEF StampInv, guiVars
  <2>3. QED
    BY <2>1, <2>2
<1> DEFINE n == Count(f, m_sequenceNumber)
           n2 == Count(Append(f, r), m_sequenceNumber)
<1>7. /\ n \in Nat
      /\ n2 = IF r.sequenceNumber = m_sequenceNumber THEN n + 1 ELSE n
  BY <1>1, <1>2, CountType, CountAppend
<1> HIDE DEF n, n2
<1>8. PendingCoversInFlight'
  <2> SUFFICES ASSUME NEW t \in Servers
               PROVE  /\ Count(inFlight'[t], m_sequenceNumber) * MaxIterationsPerPacket
                             <= m_numServerPendingIterations'[t]
                      /\ m_numServerPendingIterations'[t]
                             < PendingIterationsLimit + MaxIterationsPerPacket
    BY DEF PendingCoversInFlight, InFlightOf, Count, Positions, guiVars
  <2>1. /\ Count(inFlight[t], m_sequenceNumber) * MaxIterationsPerPacket
               <= m_numServerPendingIterations[t]
        /\ m_numServerPendingIterations[t]
               < PendingIterationsLimit + MaxIterationsPerPacket
    BY DEF PendingCoversInFlight, InFlightOf, Count, Positions
  <2>2. CASE t = s
    <3>1. n * MaxIterationsPerPacket <= pending
      BY <2>1, <2>2 DEF n
    <3>2. n2 * MaxIterationsPerPacket <= pending + MaxIterationsPerPacket
      <4>1. (n + 1) * MaxIterationsPerPacket
                = n * MaxIterationsPerPacket + MaxIterationsPerPacket
        BY <1>7
      <4>2. n * MaxIterationsPerPacket \in Nat
        BY <1>7
      <4>3. QED
        BY <1>2, <1>7, <3>1, <4>1, <4>2
    <3>3. QED
      BY <1>1, <1>2, <1>3, <2>2, <3>2 DEF n2
  <2>3. CASE t # s
    BY <1>4, <2>1, <2>3
  <2>4. QED
    BY <2>2, <2>3
<1>9. StaleInv'
  <2> SUFFICES ASSUME NEW t \in Servers,
                      m_lastRenderCommandSequenceNumber'[t] = m_sequenceNumber,
                      m_renderServerState[t] # "DISCONNECTED"
               PROVE  m_numServerPendingIterations'[t]
                          < Count(inFlight'[t], m_sequenceNumber) * MaxIterationsPerPacket
                                + PendingIterationsLimit
    BY DEF StaleInv, Count, Positions, guiVars
  <2>1. CASE t = s
    <3>1. n2 = n + 1
      BY <1>3, <1>7, <2>1
    <3>2. (n + 1) * MaxIterationsPerPacket
              = n * MaxIterationsPerPacket + MaxIterationsPerPacket
      BY <1>7
    <3>3. n * MaxIterationsPerPacket \in Nat
      BY <1>7
    <3>4. pending + MaxIterationsPerPacket
              < n2 * MaxIterationsPerPacket + PendingIterationsLimit
      BY <1>1, <1>2, <3>1, <3>2, <3>3
    <3>5. QED
      BY <1>3, <2>1, <3>4 DEF n2
  <2>2. CASE t # s
    BY <1>4, <2>2 DEF StaleInv
  <2>3. QED
    BY <2>1, <2>2
<1>10. FutureInv' /\ RequestedIsPrefix'
  BY NumberingUntouched DEF guiVars, ResetQueued
<1>11. QED
  BY <1>5, <1>6, <1>8, <1>9, <1>10 DEF ReadInv

\* A result of the current sequence is subtracted where its request was counted.
LEMMA ReceiveResultIInv ==
    ASSUME IInv, NEW s \in Servers, ReceiveResult(s)
    PROVE  IInv'
<1> USE DEF IInv, ReceiveResult
<1> USE ApplicationAssumption
<1> DEFINE f == inFlight[s]
           r == Head(f)
           pending == m_numServerPendingIterations[s]
           n == Count(f, m_sequenceNumber)
           n2 == Count(Tail(f), m_sequenceNumber)
           current == r.sequenceNumber = m_sequenceNumber
<1>1. /\ f \in Seq(Requests) /\ pending \in Nat /\ m_sequenceNumber \in Nat
      /\ packets \in Seq(Requests)
  BY DEF TypeOK, SequenceNumbers
<1>2. /\ r \in Requests /\ Tail(f) \in Seq(Requests)
      /\ \A i \in 1 .. Len(Tail(f)) :
             Tail(f)[i].sequenceNumber <= m_lastRenderCommandSequenceNumber[s]
      /\ n2 = IF current THEN n - 1 ELSE n
  BY TailOfInFlight
<1>3. n \in Nat /\ n2 \in Nat
  BY <1>1, <1>2, CountType
<1>4. /\ n * MaxIterationsPerPacket <= pending
      /\ pending < PendingIterationsLimit + MaxIterationsPerPacket
  BY DEF PendingCoversInFlight, InFlightOf, Count, Positions
<1>5. n * MaxIterationsPerPacket \in Nat /\ n2 * MaxIterationsPerPacket \in Nat
  BY <1>3
<1>6. current => n * MaxIterationsPerPacket
                     = n2 * MaxIterationsPerPacket + MaxIterationsPerPacket
  <2> SUFFICES ASSUME current
               PROVE  n * MaxIterationsPerPacket
                          = n2 * MaxIterationsPerPacket + MaxIterationsPerPacket
    OBVIOUS
  <2>1. n = n2 + 1
    BY <1>2, <1>3
  <2> HIDE DEF n, n2
  <2>2. (n2 + 1) * MaxIterationsPerPacket
            = n2 * MaxIterationsPerPacket + MaxIterationsPerPacket
    BY <1>3
  <2>3. QED
    BY <2>1, <2>2
<1>7. /\ inFlight'[s] = Tail(f)
      /\ m_numServerPendingIterations'[s] =
             IF current THEN pending - MaxIterationsPerPacket ELSE pending
  BY DEF TypeOK
<1>8. \A t \in Servers : t # s =>
          /\ inFlight'[t] = inFlight[t]
          /\ m_numServerPendingIterations'[t] = m_numServerPendingIterations[t]
  BY DEF TypeOK
<1> HIDE DEF n, n2
<1>9. current => pending - MaxIterationsPerPacket \in Nat
  BY <1>1, <1>4, <1>5, <1>6
<1> HIDE DEF r, current
<1>10. TypeOK'
  <2>1. inFlight' \in [Servers -> Seq(Requests)]
    BY <1>2 DEF TypeOK
  <2>2. m_numServerPendingIterations' \in [Servers -> Nat]
    BY <1>9 DEF TypeOK, current, r
  <2>3. packets' \in Seq(Requests)
    <3>1. packets' = packets \/ packets' = Append(packets, r)
      BY DEF r
    <3>2. r \in Requests /\ packets \in Seq(Requests)
      BY <1>1, <1>2
    <3>3. Append(packets, r) \in Seq(Requests)
      BY <3>2
    <3>4. QED
      BY <3>1, <3>2, <3>3
  <2>4. QED
    BY <2>1, <2>2, <2>3 DEF TypeOK, guiVars, appVars, history
<1>11. StampInv'
  <2> SUFFICES ASSUME NEW t \in Servers PROVE StampInv!(t)'
    BY DEF StampInv
  <2>1. CASE t = s
    BY <1>2, <1>7, <2>1 DEF StampInv, guiVars
  <2>2. CASE t # s
    BY <1>8, <2>2 DEF StampInv, guiVars
  <2>3. QED
    BY <2>1, <2>2
<1>12. PendingCoversInFlight'
  <2> SUFFICES ASSUME NEW t \in Servers
               PROVE  /\ Count(inFlight'[t], m_sequenceNumber) * MaxIterationsPerPacket
                             <= m_numServerPendingIterations'[t]
                      /\ m_numServerPendingIterations'[t]
                             < PendingIterationsLimit + MaxIterationsPerPacket
    BY DEF PendingCoversInFlight, InFlightOf, Count, Positions, guiVars
  <2>1. CASE t = s
    <3>1. /\ n2 * MaxIterationsPerPacket <= m_numServerPendingIterations'[s]
          /\ m_numServerPendingIterations'[s]
                 < PendingIterationsLimit + MaxIterationsPerPacket
      <4>1. CASE current
        BY <1>1, <1>4, <1>5, <1>6, <1>7, <4>1
      <4>2. CASE ~current
        BY <1>2, <1>4, <1>7, <4>2 DEF n, n2
      <4>3. QED
        BY <4>1, <4>2
    <3>2. QED
      BY <1>7, <2>1, <3>1 DEF n2
  <2>2. CASE t # s
    BY <1>8, <2>2 DEF PendingCoversInFlight, InFlightOf, Count, Positions
  <2>3. QED
    BY <2>1, <2>2
<1>13. StaleInv'
  <2> SUFFICES ASSUME NEW t \in Servers,
                      m_lastRenderCommandSequenceNumber[t] = m_sequenceNumber,
                      m_renderServerState[t] # "DISCONNECTED"
               PROVE  m_numServerPendingIterations'[t]
                          < Count(inFlight'[t], m_sequenceNumber) * MaxIterationsPerPacket
                                + PendingIterationsLimit
    BY DEF StaleInv, Count, Positions, guiVars
  <2>1. CASE t = s
    <3>1. pending < n * MaxIterationsPerPacket + PendingIterationsLimit
      BY <2>1 DEF StaleInv, n
    <3>2. m_numServerPendingIterations'[s]
              < n2 * MaxIterationsPerPacket + PendingIterationsLimit
      <4>1. CASE current
        BY <1>1, <1>5, <1>6, <1>7, <3>1, <4>1
      <4>2. CASE ~current
        BY <1>2, <1>7, <3>1, <4>2 DEF n, n2
      <4>3. QED
        BY <4>1, <4>2
    <3>3. QED
      BY <1>7, <2>1, <3>2 DEF n2
  <2>2. CASE t # s
    BY <1>8, <2>2 DEF StaleInv
  <2>3. QED
    BY <2>1, <2>2
<1>14. FutureInv' /\ RequestedIsPrefix'
  BY NumberingUntouched DEF guiVars, appVars, ResetQueued
<1>15. QED
  BY <1>10, <1>11, <1>12, <1>13, <1>14 DEF ReadInv, appVars

\* The requests of a server that is lost are not in flight any more.
LEMMA DisconnectedIInv ==
    ASSUME IInv, NEW s \in Servers, Disconnected(s)
    PROVE  IInv'
<1> USE DEF IInv, Disconnected, Set
<1> USE ApplicationAssumption
<1>1. /\ m_renderServerState'[s] = "DISCONNECTED"
      /\ inFlight'[s] = <<>> /\ <<>> \in Seq(Requests)
      /\ \A t \in Servers : t # s =>
             /\ m_renderServerState'[t] = m_renderServerState[t]
             /\ inFlight'[t] = inFlight[t]
  BY DEF TypeOK
<1>2. \A q : Count(<<>>, q) = 0
  <2> SUFFICES ASSUME NEW q PROVE Count(<<>>, q) = 0
    OBVIOUS
  <2>1. Positions(<<>>, q) = {}
    BY DEF Positions
  <2>2. QED
    BY <2>1, FS_EmptySet DEF Count
<1>3. TypeOK'
  BY <1>1 DEF TypeOK, guiVars, appVars, history
<1>4. StampInv'
  <2> SUFFICES ASSUME NEW t \in Servers PROVE StampInv!(t)'
    BY DEF StampInv
  <2>1. CASE t = s
    <3>1. 1 .. Len(inFlight'[s]) = {}
      BY <1>1
    <3>2. QED
      BY <2>1, <3>1 DEF StampInv, guiVars
  <2>2. CASE t # s
    BY <1>1, <2>2 DEF StampInv, guiVars
  <2>3. QED
    BY <2>1, <2>2
<1>5. PendingCoversInFlight'
  <2> SUFFICES ASSUME NEW t \in Servers
               PROVE  /\ Count(inFlight'[t], m_sequenceNumber) * MaxIterationsPerPacket
                             <= m_numServerPendingIterations[t]
                      /\ m_numServerPendingIterations[t]
                             < PendingIterationsLimit + MaxIterationsPerPacket
    BY DEF PendingCoversInFlight, InFlightOf, Count, Positions, guiVars
  <2>1. m_numServerPendingIterations[t] \in Nat
    BY DEF TypeOK
  <2>2. CASE t = s
    BY <1>1, <1>2, <2>1, <2>2 DEF PendingCoversInFlight
  <2>3. CASE t # s
    BY <1>1, <2>3 DEF PendingCoversInFlight, InFlightOf, Count, Positions
  <2>4. QED
    BY <2>2, <2>3
<1>6. StaleInv'
  BY <1>1 DEF StaleInv, Count, Positions, guiVars
<1>7. FutureInv' /\ RequestedIsPrefix'
  BY NumberingUntouched DEF guiVars, appVars, ResetQueued
<1>8. QED
  BY <1>3, <1>4, <1>5, <1>6, <1>7 DEF ReadInv, appVars

\* A server only ignores requests of a sequence that is over.
LEMMA ServerIgnoresIInv ==
    ASSUME IInv, NEW s \in Servers, ServerIgnores(s)
    PROVE  IInv'
<1> USE DEF IInv, ServerIgnores
<1> DEFINE f == inFlight[s]
<1>1. PICK i \in 2 .. Len(f) : Head(f).sequenceNumber < f[i].sequenceNumber
  OBVIOUS
<1>2. f \in Seq(Requests) /\ f # <<>>
  BY <1>1 DEF TypeOK
<1>3. /\ Head(f) \in Requests /\ Tail(f) \in Seq(Requests)
      /\ \A j \in 1 .. Len(Tail(f)) :
             Tail(f)[j].sequenceNumber <= m_lastRenderCommandSequenceNumber[s]
      /\ \A q : Head(f).sequenceNumber # q => Count(Tail(f), q) = Count(f, q)
  BY <1>2, TailOfInFlight
<1>4. Head(f).sequenceNumber # m_sequenceNumber
  <2>1. f[i] \in Requests
    BY <1>1, <1>2
  <2>2. /\ f[i].sequenceNumber \in Nat /\ Head(f).sequenceNumber \in Nat
    BY <1>3, <2>1 DEF Requests, SequenceNumbers
  <2>3. /\ m_sequenceNumber \in Nat /\ m_lastRenderCommandSequenceNumber[s] \in Nat
    BY DEF TypeOK, SequenceNumbers
  <2>4. i \in 1 .. Len(f)
    BY <1>1, <1>2
  <2>5. /\ f[i].sequenceNumber <= m_lastRenderCommandSequenceNumber[s]
        /\ m_lastRenderCommandSequenceNumber[s] <= m_sequenceNumber
    BY <2>4 DEF StampInv
  <2>6. QED
    BY <1>1, <2>2, <2>3, <2>5
<1>5. /\ inFlight'[s] = Tail(f)
      /\ \A t \in Servers : t # s => inFlight'[t] = inFlight[t]
  BY DEF TypeOK
<1>6. \A t \in Servers :
          Count(inFlight'[t], m_sequenceNumber) = Count(inFlight[t], m_sequenceNumber)
  BY <1>3, <1>4, <1>5
<1>7. TypeOK'
  BY <1>3 DEF TypeOK, guiVars, appVars, history
<1>8. StampInv'
  <2> SUFFICES ASSUME NEW t \in Servers PROVE StampInv!(t)'
    BY DEF StampInv
  <2>1. CASE t = s
    BY <1>3, <1>5, <2>1 DEF StampInv, guiVars
  <2>2. CASE t # s
    BY <1>5, <2>2 DEF StampInv, guiVars
  <2>3. QED
    BY <2>1, <2>2
<1>9. PendingCoversInFlight'
  BY <1>6 DEF PendingCoversInFlight, InFlightOf, Count, Positions, guiVars
<1>10. StaleInv'
  BY <1>6 DEF StaleInv, guiVars
<1>11. FutureInv' /\ RequestedIsPrefix'
  BY NumberingUntouched DEF guiVars, appVars, ResetQueued
<1>12. QED
  BY <1>7, <1>8, <1>9, <1>10, <1>11 DEF ReadInv, appVars

-----------------------------------------------------------------------------
(***************************************************************************)
(* Every step                                                              *)
(***************************************************************************)

\* Nothing happens.
LEMMA StutterIInv ==
    ASSUME IInv, UNCHANGED vars
    PROVE  IInv'
<1> USE DEF IInv, vars, guiVars, appVars, history
<1>1. TypeOK'
  BY DEF TypeOK, connectionVars
<1>2. StampInv' /\ PendingCoversInFlight' /\ StaleInv'
  BY ConnectionsUntouched
<1>3. FutureInv' /\ RequestedIsPrefix'
  BY NumberingUntouched DEF ResetQueued
<1>4. QED
  BY <1>1, <1>2, <1>3 DEF ReadInv

\* The invariant is inductive.
LEMMA StepIInv == IInv /\ [Next]_vars => IInv'
<1> SUFFICES ASSUME IInv, [Next]_vars PROVE IInv'
  OBVIOUS
<1>1. CASE Gui
  BY <1>1, GuiIInv
<1>2. CASE AppThread
  BY <1>2, OnSequenceNumberIncrementedIInv, OnPacketReceivedIInv, WriteDecrementIInv
     DEF AppThread
<1>3. ASSUME NEW s \in Servers, Connection(s) \/ ServerIgnores(s) PROVE IInv'
  BY <1>3, DetailsIInv, CheckTimeoutIInv, TakeRequestIInv, SendRequestIInv,
     ReceiveResultIInv, DisconnectedIInv, ServerIgnoresIInv DEF Connection
<1>4. CASE MergePacket
  BY <1>4, MergePacketIInv
<1>5. CASE UNCHANGED vars
  BY <1>5, StutterIInv
<1>6. QED
  BY <1>1, <1>2, <1>3, <1>4, <1>5 DEF Next

\* Every reachable state satisfies the invariant.
THEOREM Invariance == Spec => []IInv
BY InitIInv, StepIInv, PTL DEF Spec

\* Types are respected: neither the total of pending packets nor the pending
\* iterations of a connection, unsigned in the code, go below zero.
THEOREM TypeCorrectness == Spec => []TypeOK
<1>1. IInv => TypeOK
  BY DEF IInv
<1>2. QED
  BY <1>1, Invariance, PTL

\* A connection's count covers what its server has yet to render of the current
\* sequence, and is bounded, for all limits and however onTimeout interleaves with
\* a restart.
THEOREM PendingCoversInFlightHolds == Spec => []PendingCoversInFlight
<1>1. IInv => PendingCoversInFlight
  BY DEF IInv
<1>2. QED
  BY <1>1, Invariance, PTL

\* What a restart leaves in that count never keeps a server without requests.
THEOREM StalePendingDoesNotBlockHolds == Spec => []StalePendingDoesNotBlock
<1>1. IInv => StalePendingDoesNotBlock
  <2> SUFFICES ASSUME IInv, NEW s \in Servers,
                      InFlightOf(s, m_lastRenderCommandSequenceNumber[s]) = 0,
                      ~(m_sequenceNumber > m_lastRenderCommandSequenceNumber[s]),
                      m_renderServerState[s] # "DISCONNECTED"
               PROVE  m_numServerPendingIterations[s] < PendingIterationsLimit
    BY DEF StalePendingDoesNotBlock
  <2>1. /\ m_sequenceNumber \in Nat /\ m_lastRenderCommandSequenceNumber[s] \in Nat
        /\ m_numServerPendingIterations[s] \in Nat
    BY DEF IInv, TypeOK, SequenceNumbers
  <2>2. m_lastRenderCommandSequenceNumber[s] = m_sequenceNumber
    BY <2>1 DEF IInv, StampInv
  <2>3. Count(inFlight[s], m_sequenceNumber) = 0
    BY <2>2 DEF InFlightOf, Count, Positions
  <2>4. m_numServerPendingIterations[s]
            < Count(inFlight[s], m_sequenceNumber) * MaxIterationsPerPacket
                  + PendingIterationsLimit
    BY <2>2 DEF IInv, StaleInv
  <2>5. QED
    BY <2>1, <2>3, <2>4, ApplicationAssumption
<1>2. QED
  BY <1>1, Invariance, PTL

\* Over all servers, the iterations asked for in a sequence have no hole, unless a
\* request of it came before its reset.
THEOREM RequestedIsPrefixHolds == Spec => []RequestedIsPrefix
<1>1. IInv => RequestedIsPrefix
  BY DEF IInv
<1>2. QED
  BY <1>1, Invariance, PTL

\* No iteration of such a sequence is asked for twice, by whatever servers.
THEOREM NoIterationTwiceHolds == Spec => NoIterationTwice
<1>1. IInv /\ [Next]_vars => [AskedForFirst]_vars
  <2> SUFFICES ASSUME IInv, [Next]_vars, NEW s \in Servers,
                      tpc[s] = "request", tpc'[s] = "send",
                      m_sequenceNumber \notin early'
               PROVE  IterationsIn(request'[s]) \cap requested[m_sequenceNumber] = {}
    BY DEF AskedForFirst
  <2>1. /\ tpc \in [Servers -> {"idle", "request", "send"}]
        /\ request \in [Servers -> Requests \cup {NoRequest}]
    BY DEF IInv, TypeOK
  <2>2. TakeRequest(s)
    <3>1. CASE \E t \in Servers : Connection(t) \/ ServerIgnores(t)
      BY <2>1, <3>1 DEF Connection, AskForDetails, DetailsArrive, CheckTimeout, TakeRequest,
                  SendRequest, ReceiveResult, Disconnected, ServerIgnores
    <3>2. CASE ~(\E t \in Servers : Connection(t) \/ ServerIgnores(t))
      <4>1. tpc' = tpc
        BY <3>2 DEF Next, Gui, AppThread, SettingsUpdated, onRenderRestart, TogglePause,
                    setRenderMethod, AssignRenderMethod, onSequenceNumberIncremented,
                    onPacketReceived, WriteDecrement, MergePacket, connectionVars, vars
      <4>2. QED
        BY <4>1
    <3>3. QED
      BY <3>1, <3>2
  <2>3. requested[m_sequenceNumber] = 0 .. m_nextRenderServerRenderRequestIteration - 1
    <3>1. m_sequenceNumber \notin early /\ ~ResetQueued
      BY <2>2 DEF TakeRequest
    <3>2. QED
      BY <3>1 DEF IInv, RequestedIsPrefix
  <2>4. request'[s].first = m_nextRenderServerRenderRequestIteration
    BY <2>1, <2>2 DEF TakeRequest
  <2>5. m_nextRenderServerRenderRequestIteration \in Nat
    BY DEF IInv, TypeOK
  <2>6. QED
    BY <2>3, <2>4, <2>5, ApplicationAssumption DEF IterationsIn
<1>2. QED
  BY <1>1, Invariance, PTL DEF Spec, NoIterationTwice

\* Every iteration of such a sequence is asked for in its turn and once.
THEOREM IterationsAreNumberedOnceHolds == Spec => IterationsAreNumberedOnce
BY RequestedIsPrefixHolds, NoIterationTwiceHolds, PTL
   DEF NoIterationTwice, IterationsAreNumberedOnce

=============================================================================
