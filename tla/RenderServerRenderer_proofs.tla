--------------------- MODULE RenderServerRenderer_proofs ---------------------
(***************************************************************************)
(* Invariance proofs for RenderServerRenderer, for every number of         *)
(* clients, requests, sequences and iterations.                            *)
(***************************************************************************)
EXTENDS RenderServerRenderer, TLAPS

-----------------------------------------------------------------------------
(***************************************************************************)
(* The inductive invariant                                                 *)
(***************************************************************************)

\* The renderer has taken a request and not yet answered or dropped it.
HasRequest == rpc \in {"loop", "compare", "send"}

\* The numbers of a client and of the queue are in range until the program ends.
SequenceInv == mainPc # "join" => m_currentSequenceNumber <= MaxSequenceNumber

\* On its way through the queue, the renderer and the queue of results to the
\* client, a request never overtakes an earlier one and is in one place only.
QueueInv ==
    /\ \A i, j \in 1 .. Len(m_queue) : i < j => m_queue[i].id < m_queue[j].id
    /\ \A i \in 1 .. Len(m_queue) : m_queue[i].id <= numRequests
RequestInv ==
    HasRequest => /\ renderRequest.id <= numRequests
                  /\ \A i \in 1 .. Len(m_queue) : renderRequest.id < m_queue[i].id
ResultInv ==
    /\ \A i, j \in 1 .. Len(resultEvents) :
           i < j => resultEvents[i].request.id < resultEvents[j].request.id
    /\ \A i \in 1 .. Len(resultEvents) :
           /\ resultEvents[i].request.id <= numRequests
           /\ HasRequest => resultEvents[i].request.id < renderRequest.id
           /\ \A j \in 1 .. Len(m_queue) : resultEvents[i].request.id < m_queue[j].id
ReceivedInv ==
    \A i \in 1 .. Len(received) :
        /\ received[i].result.request.id <= numRequests
        /\ HasRequest => received[i].result.request.id < renderRequest.id
        /\ \A j \in 1 .. Len(m_queue) : received[i].result.request.id < m_queue[j].id
        /\ \A j \in 1 .. Len(resultEvents) :
               received[i].result.request.id < resultEvents[j].request.id
OrderInv == QueueInv /\ RequestInv /\ ResultInv /\ ReceivedInv /\ AnswersInOrder

\* No client has disconnected yet.
Undisturbed == connection = 0 \/ (connection = 1 /\ connected)

\* Nothing is there before the first client, and until it disconnects no request
\* is ahead of the current sequence number, which never decreases.
NoClientInv ==
    connection = 0 => ~connected /\ m_queue = <<>> /\ resultEvents = <<>> /\ ~HasRequest
UndisturbedInv ==
    Undisturbed =>
        /\ \A i \in 1 .. Len(rendererEvents) : rendererEvents[i] # "onClientDisconnected"
        /\ \A i \in 1 .. Len(m_queue) : m_queue[i].sequenceNumber <= m_currentSequenceNumber
        /\ HasRequest => renderRequest.sequenceNumber <= m_currentSequenceNumber
        /\ rpc = "compare" =>
               \/ rendered = renderRequest.numIterations
               \/ renderRequest.sequenceNumber < m_currentSequenceNumber
        /\ rpc = "send" => rendered = renderRequest.numIterations
        /\ \A i \in 1 .. Len(resultEvents) : IsComplete(resultEvents[i])
FirstInv == NoClientInv /\ UndisturbedInv /\ FirstClientGetsCompleteResults

IInv == TypeOK /\ SequenceInv /\ OrderInv /\ FirstInv

-----------------------------------------------------------------------------
(***************************************************************************)
(* Lemmas                                                                  *)
(***************************************************************************)

\* Append, element by element.
LEMMA AppendElements ==
    ASSUME NEW S, NEW f \in Seq(S), NEW e \in S
    PROVE  /\ Append(f, e) \in Seq(S) /\ Len(f) \in Nat /\ Len(Append(f, e)) = Len(f) + 1
           /\ \A i \in 1 .. Len(f) + 1 :
                  \/ i \in 1 .. Len(f) /\ Append(f, e)[i] = f[i]
                  \/ i = Len(f) + 1 /\ Append(f, e)[i] = e
OBVIOUS

\* Head and Tail, element by element.
LEMMA TailElements ==
    ASSUME NEW S, NEW f \in Seq(S), f # <<>>
    PROVE  /\ Tail(f) \in Seq(S) /\ Len(f) \in Nat /\ Len(Tail(f)) = Len(f) - 1
           /\ Head(f) = f[1] /\ Head(f) \in S /\ 1 \in 1 .. Len(f)
           /\ \A i \in 1 .. Len(Tail(f)) :
                  i \in Nat /\ i >= 1 /\ i + 1 \in 1 .. Len(f) /\ Tail(f)[i] = f[i + 1]
OBVIOUS

\* The numbers that requests carry.
LEMMA RequestNumbers ==
    ASSUME NEW r \in Requests
    PROVE  r.id \in Nat /\ r.sequenceNumber \in Nat /\ r.sequenceNumber <= MaxSequenceNumber
           /\ r.numIterations \in 1 .. MaxIterations
BY RendererAssumption DEF Requests, SequenceNumbers

\* The requests in the three queues have such numbers.
LEMMA QueuedNumbers ==
    ASSUME TypeOK
    PROVE  /\ m_currentSequenceNumber \in Nat /\ numRequests \in Nat
           /\ \A i \in 1 .. Len(m_queue) :
                  m_queue[i].id \in Nat /\ m_queue[i].sequenceNumber \in Nat
           /\ \A i \in 1 .. Len(resultEvents) : resultEvents[i].request.id \in Nat
           /\ \A i \in 1 .. Len(received) : received[i].result.request.id \in Nat
           /\ renderRequest.id \in Nat /\ renderRequest.sequenceNumber \in Nat
<1> USE RendererAssumption DEF TypeOK
<1>1. m_currentSequenceNumber \in Nat /\ numRequests \in Nat
  OBVIOUS
<1>2. ASSUME NEW i \in 1 .. Len(m_queue)
      PROVE  m_queue[i].id \in Nat /\ m_queue[i].sequenceNumber \in Nat
  <2>1. m_queue[i] \in Requests
    OBVIOUS
  <2>2. QED
    BY <2>1, RequestNumbers
<1>3. ASSUME NEW i \in 1 .. Len(resultEvents) PROVE resultEvents[i].request.id \in Nat
  <2>1. resultEvents[i] \in Results
    OBVIOUS
  <2>2. resultEvents[i].request \in Requests
    BY <2>1 DEF Results
  <2>3. QED
    BY <2>2, RequestNumbers
<1>4. ASSUME NEW i \in 1 .. Len(received) PROVE received[i].result.request.id \in Nat
  <2> DEFINE D == [to : 1 .. MaxConnections, result : Results]
  <2>1. received \in Seq(D)
    OBVIOUS
  <2> HIDE DEF D
  <2>2. received[i] \in D
    BY <2>1
  <2>3. received[i].result.request \in Requests
    BY <2>2 DEF D, Results
  <2>4. QED
    BY <2>3, RequestNumbers
<1>5. renderRequest.id \in Nat /\ renderRequest.sequenceNumber \in Nat
  <2>1. renderRequest \in Requests
    OBVIOUS
  <2>2. QED
    BY <2>1, RequestNumbers
<1>6. QED
  BY <1>1, <1>2, <1>3, <1>4, <1>5

\* The order of the requests, as long as none moves or only the renderer's is
\* dropped.
LEMMA OrderUntouched ==
    ASSUME IInv, UNCHANGED <<numRequests, m_queue, resultVars>>,
           HasRequest' => HasRequest /\ renderRequest' = renderRequest
    PROVE  OrderInv'
<1> USE DEF IInv, OrderInv, resultVars
<1>1. QueueInv'
  BY DEF QueueInv
<1>2. RequestInv'
  BY DEF RequestInv
<1>3. ResultInv'
  BY DEF ResultInv
<1>4. ReceivedInv'
  BY DEF ReceivedInv
<1>5. AnswersInOrder'
  BY DEF AnswersInOrder
<1>6. QED
  BY <1>1, <1>2, <1>3, <1>4, <1>5

\* What the first client is sent, as long as it stays and the renderer does not
\* work on its request.
LEMMA FirstUntouched ==
    ASSUME IInv,
           UNCHANGED <<connection, connected, m_queue, m_currentSequenceNumber,
                       rendererEvents, resultVars>>,
           HasRequest' => UNCHANGED <<rpc, renderRequest, rendered>>
    PROVE  FirstInv'
<1> USE DEF IInv, FirstInv, resultVars
<1>1. NoClientInv'
  BY DEF NoClientInv, HasRequest
<1>2. UndisturbedInv'
  BY DEF UndisturbedInv, Undisturbed, HasRequest, IsComplete
<1>3. FirstClientGetsCompleteResults'
  BY DEF FirstClientGetsCompleteResults, IsComplete
<1>4. QED
  BY <1>1, <1>2, <1>3

-----------------------------------------------------------------------------
(***************************************************************************)
(* Initial states                                                          *)
(***************************************************************************)

\* There is no client and no request.
LEMMA InitIInv == Init => IInv
<1> SUFFICES ASSUME Init PROVE IInv
  OBVIOUS
<1> USE RendererAssumption DEF Init
<1>1. TypeOK
  <2>1. NoRequest \in Requests
    BY DEF NoRequest, Requests, SequenceNumbers
  <2>2. 1 \in SequenceNumbers
    BY DEF SequenceNumbers
  <2>3. /\ resultEvents \in Seq(Results) /\ m_queue \in Seq(Requests)
        /\ received \in Seq([to : 1 .. MaxConnections, result : Results])
        /\ rendererEvents \in Seq({"onClientDisconnected", "onAboutToQuit"})
    OBVIOUS
  <2>4. /\ connection \in 0 .. MaxConnections /\ numRequests \in 0 .. MaxRequests
        /\ m_currentSequenceNumber \in 0 .. MaxSequenceNumber + 1
        /\ rendered \in 0 .. MaxIterations
    OBVIOUS
  <2>5. QED
    BY <2>1, <2>2, <2>3, <2>4 DEF TypeOK
<1>2. SequenceInv
  BY DEF SequenceInv
<1>3. OrderInv
  BY DEF OrderInv, QueueInv, RequestInv, ResultInv, ReceivedInv, AnswersInOrder, HasRequest
<1>4. FirstInv
  BY DEF FirstInv, NoClientInv, UndisturbedInv, Undisturbed, HasRequest, IsComplete,
         FirstClientGetsCompleteResults
<1>5. QED
  BY <1>1, <1>2, <1>3, <1>4 DEF IInv

-----------------------------------------------------------------------------
(***************************************************************************)
(* The main thread                                                         *)
(***************************************************************************)

\* A client finds an empty queue.  The renderer may still be at work for the one
\* before, unless this is the first.
LEMMA NewConnectionIInv ==
    ASSUME IInv, NewConnection
    PROVE  IInv'
<1> USE RendererAssumption DEF IInv, NewConnection, resultVars, rendererVars
<1>1. m_queue' = <<>> /\ m_queue' \in Seq(Requests) /\ 1 .. Len(m_queue') = {}
  OBVIOUS
<1>2. connection \in Nat /\ connection' = connection + 1 /\ connection' \in 0 .. MaxConnections
  BY DEF TypeOK
<1>3. TypeOK'
  BY <1>1, <1>2 DEF TypeOK, SequenceNumbers
<1>4. SequenceInv'
  BY DEF SequenceInv
<1>5. OrderInv'
  <2> USE <1>1 DEF OrderInv, HasRequest
  <2>1. QueueInv' /\ RequestInv'
    BY DEF QueueInv, RequestInv
  <2>2. ResultInv'
    BY DEF ResultInv
  <2>3. ReceivedInv' /\ AnswersInOrder'
    BY DEF ReceivedInv, AnswersInOrder
  <2>4. QED
    BY <2>1, <2>2, <2>3
<1>6. FirstInv'
  <2>1. NoClientInv'
    BY <1>2 DEF NoClientInv
  <2>2. UndisturbedInv'
    <3> SUFFICES ASSUME connection = 0 PROVE UndisturbedInv'
      BY <1>2 DEF UndisturbedInv, Undisturbed
    <3>1. ~HasRequest /\ 1 .. Len(resultEvents) = {}
      BY DEF FirstInv, NoClientInv
    <3>2. \A i \in 1 .. Len(rendererEvents) : rendererEvents[i] # "onClientDisconnected"
      BY DEF FirstInv, UndisturbedInv, Undisturbed
    <3>3. QED
      BY <1>1, <3>1, <3>2 DEF UndisturbedInv, HasRequest
  <2>3. FirstClientGetsCompleteResults'
    BY DEF FirstInv, FirstClientGetsCompleteResults, IsComplete
  <2>4. QED
    BY <2>1, <2>2, <2>3 DEF FirstInv
<1>7. QED
  BY <1>3, <1>4, <1>5, <1>6

\* The disconnection of a client is the end of what is known of the sequences.
LEMMA ClientDisconnectedIInv ==
    ASSUME IInv, ClientDisconnected
    PROVE  IInv'
<1> USE DEF IInv, ClientDisconnected, rendererVars
<1>1. rendererEvents' \in Seq({"onClientDisconnected", "onAboutToQuit"})
  BY DEF TypeOK
<1>2. TypeOK'
  BY <1>1 DEF TypeOK, resultVars
<1>3. SequenceInv'
  BY DEF SequenceInv
<1>4. OrderInv'
  BY OrderUntouched DEF HasRequest
<1>5. FirstInv'
  <2>1. NoClientInv'
    BY DEF FirstInv, NoClientInv, HasRequest, resultVars
  <2>2. UndisturbedInv'
    BY DEF FirstInv, NoClientInv, UndisturbedInv, Undisturbed
  <2>3. FirstClientGetsCompleteResults'
    BY DEF FirstInv, FirstClientGetsCompleteResults, IsComplete, resultVars
  <2>4. QED
    BY <2>1, <2>2, <2>3 DEF FirstInv
<1>6. QED
  BY <1>2, <1>3, <1>4, <1>5

\* A request that is pushed is the latest, and none is ahead of its sequence.
LEMMA PushCommandIInv ==
    ASSUME IInv, NEW s \in SequenceNumbers, NEW n \in 1 .. MaxIterations, PushCommand(s, n)
    PROVE  IInv'
<1> USE DEF IInv, PushCommand, rendererVars
<1> USE RendererAssumption
<1> DEFINE r == [id |-> numRequests', client |-> connection,
                 sequenceNumber |-> s, numIterations |-> n]
<1>1. /\ numRequests \in Nat /\ numRequests' = numRequests + 1
      /\ numRequests' \in 1 .. MaxRequests
  BY DEF TypeOK
<1>2. connection # 0 /\ connection \in 1 .. MaxConnections
  BY DEF TypeOK, FirstInv, NoClientInv
<1>3. r \in Requests /\ r.id = numRequests + 1 /\ r.sequenceNumber = s
  BY <1>1, <1>2 DEF Requests
<1>4. /\ s \in Nat /\ s <= MaxSequenceNumber /\ m_currentSequenceNumber \in Nat
      /\ m_currentSequenceNumber' \in 0 .. MaxSequenceNumber + 1
      /\ m_currentSequenceNumber' >= m_currentSequenceNumber
      /\ m_currentSequenceNumber' >= s
  BY DEF TypeOK, SequenceNumbers
<1>5. m_queue' = Append(m_queue, r) /\ m_queue \in Seq(Requests)
  BY DEF TypeOK
<1> HIDE DEF r
<1>6. /\ m_queue' \in Seq(Requests)
      /\ Len(m_queue) \in Nat /\ Len(m_queue') = Len(m_queue) + 1
      /\ \A i \in 1 .. Len(m_queue') :
             \/ i \in 1 .. Len(m_queue) /\ m_queue'[i] = m_queue[i]
             \/ i = Len(m_queue) + 1 /\ m_queue'[i] = r
  BY <1>3, <1>5, AppendElements
<1>7. TypeOK'
  BY <1>1, <1>4, <1>6 DEF TypeOK, resultVars
<1>8. SequenceInv'
  BY <1>4 DEF SequenceInv
<1>9. OrderInv'
  <2> USE <1>1, <1>3, <1>6, QueuedNumbers DEF OrderInv, HasRequest, resultVars
  <2>1. QueueInv'
    <3>1. ASSUME NEW i \in 1 .. Len(m_queue'), NEW j \in 1 .. Len(m_queue'), i < j
          PROVE  m_queue'[i].id < m_queue'[j].id
      <4>1. i \in 1 .. Len(m_queue) /\ m_queue'[i] = m_queue[i]
        BY <3>1
      <4>2. QED
        BY <3>1, <4>1 DEF QueueInv
    <3>2. \A i \in 1 .. Len(m_queue') : m_queue'[i].id <= numRequests'
      BY DEF QueueInv
    <3>3. QED
      BY <3>1, <3>2 DEF QueueInv
  <2>2. RequestInv'
    BY DEF RequestInv
  <2>3. ResultInv'
    BY DEF ResultInv
  <2>4. ReceivedInv'
    <3> SUFFICES ASSUME NEW i \in 1 .. Len(received)
                 PROVE  /\ received[i].result.request.id <= numRequests'
                        /\ HasRequest => received[i].result.request.id < renderRequest.id
                        /\ \A j \in 1 .. Len(m_queue') :
                               received[i].result.request.id < m_queue'[j].id
                        /\ \A j \in 1 .. Len(resultEvents) :
                               received[i].result.request.id < resultEvents[j].request.id
      BY DEF ReceivedInv
    <3> DEFINE x == received[i].result.request.id
    <3>1. /\ x \in Nat /\ x <= numRequests
          /\ HasRequest => x < renderRequest.id
          /\ \A j \in 1 .. Len(m_queue) : x < m_queue[j].id
          /\ \A j \in 1 .. Len(resultEvents) : x < resultEvents[j].request.id
      BY DEF ReceivedInv
    <3> HIDE DEF x
    <3>2. x <= numRequests' /\ \A j \in 1 .. Len(m_queue') : x < m_queue'[j].id
      BY <3>1
    <3>3. QED
      BY <3>1, <3>2 DEF x
  <2>5. AnswersInOrder'
    BY DEF AnswersInOrder
  <2>6. QED
    BY <2>1, <2>2, <2>3, <2>4, <2>5
<1>10. FirstInv'
  <2>1. NoClientInv'
    BY <1>2 DEF NoClientInv
  <2>2. UndisturbedInv'
    <3> SUFFICES ASSUME Undisturbed PROVE UndisturbedInv'
      BY DEF UndisturbedInv, Undisturbed
    <3>1. ASSUME NEW i \in 1 .. Len(m_queue')
          PROVE  m_queue'[i].sequenceNumber <= m_currentSequenceNumber'
      <4>1. CASE i \in 1 .. Len(m_queue) /\ m_queue'[i] = m_queue[i]
        BY <1>4, <4>1, QueuedNumbers DEF FirstInv, UndisturbedInv
      <4>2. CASE i = Len(m_queue) + 1 /\ m_queue'[i] = r
        BY <1>3, <1>4, <4>2
      <4>3. QED
        BY <1>6, <4>1, <4>2
    <3>2. QED
      BY <1>4, <3>1, QueuedNumbers
         DEF FirstInv, UndisturbedInv, HasRequest, IsComplete, resultVars
  <2>3. FirstClientGetsCompleteResults'
    BY DEF FirstInv, FirstClientGetsCompleteResults, IsComplete, resultVars
  <2>4. QED
    BY <2>1, <2>2, <2>3 DEF FirstInv
<1>11. QED
  BY <1>7, <1>8, <1>9, <1>10

\* A result is written to the client after all that were there before.
LEMMA NewRenderResultPacketIInv ==
    ASSUME IInv, NewRenderResultPacket
    PROVE  IInv'
<1> USE DEF IInv, NewRenderResultPacket, mainVars, sharedVars, rendererVars
<1> USE RendererAssumption
<1> DEFINE result == Head(resultEvents)
           delivery == [to |-> connection, result |-> result]
           D == [to : 1 .. MaxConnections, result : Results]
<1>1. /\ resultEvents' \in Seq(Results) /\ Len(resultEvents) \in Nat
      /\ Len(resultEvents') = Len(resultEvents) - 1
      /\ result = resultEvents[1] /\ result \in Results /\ 1 \in 1 .. Len(resultEvents)
      /\ \A i \in 1 .. Len(resultEvents') :
             /\ i \in Nat /\ i >= 1
             /\ i + 1 \in 1 .. Len(resultEvents) /\ resultEvents'[i] = resultEvents[i + 1]
  BY TailElements DEF TypeOK
<1> HIDE DEF result
<1>2. received \in Seq(D)
  BY DEF TypeOK
<1>3. connected => connection \in 1 .. MaxConnections
  BY DEF TypeOK, FirstInv, NoClientInv
<1>4. connected => delivery \in D
  BY <1>1, <1>3
<1>5. \/ received' = received
      \/ connected /\ received' = Append(received, delivery)
  BY DEF result
<1> HIDE DEF D
<1>6. delivery.result = result /\ delivery.to = connection
  OBVIOUS
<1> HIDE DEF delivery
<1>7. /\ received' \in Seq(D) /\ Len(received') \in Nat
      /\ \A i \in 1 .. Len(received') :
             \/ i \in 1 .. Len(received) /\ received'[i] = received[i]
             \/ connected /\ i = Len(received) + 1 /\ received'[i] = delivery
  <2>1. CASE received' = received
    BY <1>2, <2>1
  <2>2. CASE connected /\ received' = Append(received, delivery)
    BY <1>2, <1>4, <2>2, AppendElements
  <2>3. QED
    BY <1>5, <2>1, <2>2
<1>8. TypeOK'
  BY <1>1, <1>7 DEF TypeOK, D
<1>9. SequenceInv'
  BY DEF SequenceInv
<1>10. OrderInv'
  <2> USE DEF OrderInv, HasRequest
  <2>1. QueueInv' /\ RequestInv'
    BY DEF QueueInv, RequestInv
  <2>2. ResultInv'
    BY <1>1 DEF ResultInv
  <2>3. /\ result.request.id <= numRequests
        /\ HasRequest => result.request.id < renderRequest.id
        /\ \A j \in 1 .. Len(m_queue) : result.request.id < m_queue[j].id
        /\ \A j \in 1 .. Len(resultEvents') : result.request.id < resultEvents'[j].request.id
        /\ \A i \in 1 .. Len(received) : received[i].result.request.id < result.request.id
    <3>1. \A j \in 1 .. Len(resultEvents') : j + 1 > 1
      BY <1>1
    <3>2. QED
      BY <1>1, <3>1 DEF ResultInv, ReceivedInv
  <2>4. ReceivedInv'
    BY <1>1, <1>6, <1>7, <2>3 DEF ReceivedInv
  <2>5. AnswersInOrder'
    <3> SUFFICES ASSUME NEW i \in 1 .. Len(received'), NEW j \in 1 .. Len(received'), i < j
                 PROVE  received'[i].result.request.id < received'[j].result.request.id
      BY DEF AnswersInOrder
    <3>1. i \in 1 .. Len(received) /\ received'[i] = received[i]
      <4>1. Len(received) \in Nat /\ j <= Len(received) + 1
        BY <1>2, <1>7
      <4>2. QED
        BY <1>7, <4>1
    <3>2. QED
      BY <1>6, <1>7, <2>3, <3>1 DEF AnswersInOrder
  <2>6. QED
    BY <2>1, <2>2, <2>4, <2>5
<1>11. FirstInv'
  <2>1. NoClientInv'
    BY <1>1 DEF FirstInv, NoClientInv, HasRequest
  <2>2. UndisturbedInv'
    BY <1>1 DEF FirstInv, UndisturbedInv, Undisturbed, HasRequest, IsComplete
  <2>3. FirstClientGetsCompleteResults'
    <3> SUFFICES ASSUME NEW i \in 1 .. Len(received'), received'[i].to = 1
                 PROVE  IsComplete(received'[i].result)
      BY DEF FirstClientGetsCompleteResults, IsComplete
    <3>1. CASE i \in 1 .. Len(received) /\ received'[i] = received[i]
      BY <3>1 DEF FirstInv, FirstClientGetsCompleteResults
    <3>2. CASE connected /\ i = Len(received) + 1 /\ received'[i] = delivery
      <4>1. Undisturbed
        BY <1>6, <3>2 DEF Undisturbed
      <4>2. IsComplete(result)
        BY <1>1, <4>1 DEF FirstInv, UndisturbedInv
      <4>3. QED
        BY <1>6, <3>2, <4>2
    <3>3. QED
      BY <1>7, <3>1, <3>2
  <2>4. QED
    BY <2>1, <2>2, <2>3 DEF FirstInv
<1>12. QED
  BY <1>8, <1>9, <1>10, <1>11

\* A part of the introduction is no introduction: nothing of a request changes.
LEMMA IntroductionIInv ==
    ASSUME IInv, Introduction
    PROVE  IInv'
<1> USE DEF IInv, Introduction, sharedVars, rendererVars
<1>1. TypeOK'
  BY DEF TypeOK, resultVars
<1>2. SequenceInv'
  BY DEF SequenceInv
<1>3. OrderInv'
  BY OrderUntouched DEF HasRequest
<1>4. FirstInv'
  BY FirstUntouched
<1>5. QED
  BY <1>1, <1>2, <1>3, <1>4

\* Whom wakeAll wakes has no request.
LEMMA WakeIInv ==
    ASSUME IInv, Wake
    PROVE  IInv'
<1> USE DEF IInv, Wake, sharedVars
<1>1. TypeOK'
  BY DEF TypeOK, resultVars
<1>2. SequenceInv'
  BY DEF SequenceInv
<1>3. OrderInv'
  BY OrderUntouched DEF HasRequest
<1>4. FirstInv'
  BY FirstUntouched DEF HasRequest
<1>5. QED
  BY <1>1, <1>2, <1>3, <1>4

\* The program begins to quit.
LEMMA WaitIInv ==
    ASSUME IInv, Wait
    PROVE  IInv'
<1> USE DEF IInv, Wait, rendererVars
<1>1. /\ rendererEvents' \in Seq({"onClientDisconnected", "onAboutToQuit"})
      /\ Len(rendererEvents) \in Nat
      /\ \A i \in 1 .. Len(rendererEvents') :
             \/ i \in 1 .. Len(rendererEvents) /\ rendererEvents'[i] = rendererEvents[i]
             \/ i = Len(rendererEvents) + 1 /\ rendererEvents'[i] = "onAboutToQuit"
  <2>1. "onAboutToQuit" \in {"onClientDisconnected", "onAboutToQuit"}
    OBVIOUS
  <2>2. rendererEvents \in Seq({"onClientDisconnected", "onAboutToQuit"})
    BY DEF TypeOK
  <2>3. QED
    BY <2>1, <2>2, AppendElements
<1>2. TypeOK'
  BY <1>1 DEF TypeOK, resultVars
<1>3. SequenceInv'
  BY DEF SequenceInv
<1>4. OrderInv'
  BY OrderUntouched DEF HasRequest
<1>5. FirstInv'
  <2>1. NoClientInv'
    BY DEF FirstInv, NoClientInv, HasRequest, resultVars
  <2>2. UndisturbedInv'
    <3>1. Undisturbed => \A i \in 1 .. Len(rendererEvents') :
                             rendererEvents'[i] # "onClientDisconnected"
      BY <1>1 DEF FirstInv, UndisturbedInv
    <3>2. QED
      BY <3>1 DEF FirstInv, UndisturbedInv, Undisturbed, HasRequest, IsComplete, resultVars
  <2>3. FirstClientGetsCompleteResults'
    BY DEF FirstInv, FirstClientGetsCompleteResults, IsComplete, resultVars
  <2>4. QED
    BY <2>1, <2>2, <2>3 DEF FirstInv
<1>6. QED
  BY <1>2, <1>3, <1>4, <1>5

\* The number that makes the renderer drop its request is above every sequence.
LEMMA WaitExitIInv ==
    ASSUME IInv, WaitExit
    PROVE  IInv'
<1> USE DEF IInv, WaitExit, rendererVars
<1> USE RendererAssumption
<1>1. /\ m_currentSequenceNumber \in Nat
      /\ m_currentSequenceNumber' = m_currentSequenceNumber + 1
      /\ m_currentSequenceNumber' \in 0 .. MaxSequenceNumber + 1
  BY DEF TypeOK, SequenceInv
<1>2. TypeOK'
  BY <1>1 DEF TypeOK, resultVars
<1>3. SequenceInv'
  BY DEF SequenceInv
<1>4. OrderInv'
  BY OrderUntouched DEF HasRequest
<1>5. FirstInv'
  <2>1. NoClientInv'
    BY DEF FirstInv, NoClientInv, HasRequest, resultVars
  <2>2. UndisturbedInv'
    BY <1>1, QueuedNumbers
       DEF FirstInv, UndisturbedInv, Undisturbed, HasRequest, IsComplete, resultVars
  <2>3. FirstClientGetsCompleteResults'
    BY DEF FirstInv, FirstClientGetsCompleteResults, IsComplete, resultVars
  <2>4. QED
    BY <2>1, <2>2, <2>3 DEF FirstInv
<1>6. QED
  BY <1>2, <1>3, <1>4, <1>5

-----------------------------------------------------------------------------
(***************************************************************************)
(* The renderer's thread                                                   *)
(***************************************************************************)

\* Only the event of a client that is gone sets the number back.
LEMMA ProcessEventIInv ==
    ASSUME IInv, ProcessEvent
    PROVE  IInv'
<1> USE DEF IInv, ProcessEvent, mainVars
<1> USE RendererAssumption
<1> DEFINE E == {"onClientDisconnected", "onAboutToQuit"}
<1>1. rendererEvents \in Seq(E)
  BY DEF TypeOK
<1> HIDE DEF E
<1>2. /\ rendererEvents' \in Seq(E) /\ Head(rendererEvents) = rendererEvents[1]
      /\ 1 \in 1 .. Len(rendererEvents)
      /\ \A i \in 1 .. Len(rendererEvents') :
             /\ i + 1 \in 1 .. Len(rendererEvents)
             /\ rendererEvents'[i] = rendererEvents[i + 1]
  BY <1>1, TailElements
<1>3. \/ m_currentSequenceNumber' = m_currentSequenceNumber
      \/ m_currentSequenceNumber' = 0
  OBVIOUS
<1>4. m_quit' \in BOOLEAN
  BY DEF TypeOK
<1>5. TypeOK'
  BY <1>2, <1>3, <1>4 DEF TypeOK, resultVars, E
<1>6. SequenceInv'
  BY <1>3 DEF SequenceInv
<1>7. ~HasRequest /\ ~HasRequest'
  BY DEF HasRequest
<1>8. OrderInv'
  BY <1>7, OrderUntouched
<1>9. FirstInv'
  <2>1. NoClientInv'
    BY <1>7 DEF FirstInv, NoClientInv, resultVars
  <2>2. UndisturbedInv'
    <3> SUFFICES ASSUME Undisturbed PROVE UndisturbedInv'
      BY DEF UndisturbedInv, Undisturbed
    <3>1. \A i \in 1 .. Len(rendererEvents) : rendererEvents[i] # "onClientDisconnected"
      BY DEF FirstInv, UndisturbedInv
    <3>2. m_currentSequenceNumber' = m_currentSequenceNumber
      <4>1. Head(rendererEvents) \in E /\ Head(rendererEvents) # "onClientDisconnected"
        BY <1>1, <1>2, <3>1
      <4>2. QED
        BY <4>1 DEF E
    <3>3. QED
      BY <1>2, <1>7, <3>1, <3>2
         DEF FirstInv, UndisturbedInv, HasRequest, IsComplete, resultVars
  <2>3. FirstClientGetsCompleteResults'
    BY DEF FirstInv, FirstClientGetsCompleteResults, IsComplete, resultVars
  <2>4. QED
    BY <2>1, <2>2, <2>3 DEF FirstInv
<1>10. QED
  BY <1>5, <1>6, <1>8, <1>9

\* Where the slot has no request, before and after.
LEMMA IdleRendererIInv ==
    ASSUME IInv, EventsProcessed \/ ThreadExits \/ CheckQueue \/ WaitForCommand
                 \/ DequeueFromEmpty
    PROVE  IInv'
<1> USE DEF IInv
<1>1. /\ UNCHANGED <<mainVars, sharedVars, m_quit, renderRequest, rendered, resultVars>>
      /\ rpc' \in {"eventLoop", "check", "finished", "wait", "waiting", "dequeue", "crashed"}
  BY DEF EventsProcessed, ThreadExits, CheckQueue, WaitForCommand, DequeueFromEmpty
<1>2. ~HasRequest'
  BY <1>1 DEF HasRequest
<1>3. TypeOK'
  BY <1>1 DEF TypeOK, mainVars, sharedVars, resultVars
<1>4. SequenceInv'
  BY <1>1 DEF SequenceInv, mainVars, sharedVars
<1>5. OrderInv'
  BY <1>1, <1>2, OrderUntouched DEF mainVars, sharedVars
<1>6. FirstInv'
  BY <1>1, <1>2, FirstUntouched DEF mainVars, sharedVars
<1>7. QED
  BY <1>3, <1>4, <1>5, <1>6

\* The renderer takes the oldest request.
LEMMA DequeueIInv ==
    ASSUME IInv, Dequeue
    PROVE  IInv'
<1> USE DEF IInv, Dequeue, mainVars
<1>1. /\ m_queue' \in Seq(Requests) /\ Len(m_queue) \in Nat
      /\ renderRequest' = m_queue[1] /\ renderRequest' \in Requests
      /\ 1 \in 1 .. Len(m_queue)
      /\ \A i \in 1 .. Len(m_queue') :
             /\ i \in Nat /\ i >= 1 /\ i + 1 \in 1 .. Len(m_queue)
             /\ m_queue'[i] = m_queue[i + 1]
  BY TailElements DEF TypeOK
<1>2. TypeOK'
  BY <1>1, RendererAssumption DEF TypeOK, resultVars
<1>3. SequenceInv'
  BY DEF SequenceInv
<1>4. OrderInv'
  <2> USE DEF OrderInv, HasRequest, resultVars
  <2>1. \A i \in 1 .. Len(m_queue') : i + 1 > 1
    BY <1>1
  <2>2. QueueInv'
    <3>1. ASSUME NEW i \in 1 .. Len(m_queue'), NEW j \in 1 .. Len(m_queue'), i < j
          PROVE  m_queue'[i].id < m_queue'[j].id
      <4>1. i + 1 < j + 1
        BY <1>1, <3>1
      <4>2. QED
        BY <1>1, <4>1 DEF QueueInv
    <3>2. QED
      BY <1>1, <3>1 DEF QueueInv
  <2>3. RequestInv'
    BY <1>1, <2>1 DEF RequestInv, QueueInv
  <2>4. ResultInv'
    BY <1>1 DEF ResultInv
  <2>5. ReceivedInv'
    BY <1>1 DEF ReceivedInv
  <2>6. AnswersInOrder'
    BY DEF AnswersInOrder
  <2>7. QED
    BY <2>2, <2>3, <2>4, <2>5, <2>6
<1>5. FirstInv'
  <2>1. NoClientInv'
    BY DEF FirstInv, NoClientInv, resultVars
  <2>2. UndisturbedInv'
    BY <1>1 DEF FirstInv, UndisturbedInv, Undisturbed, HasRequest, IsComplete, resultVars
  <2>3. FirstClientGetsCompleteResults'
    BY DEF FirstInv, FirstClientGetsCompleteResults, IsComplete, resultVars
  <2>4. QED
    BY <2>1, <2>2, <2>3 DEF FirstInv
<1>6. QED
  BY <1>2, <1>3, <1>4, <1>5

\* Rendering, leaving the loop and the comparison leave the request where it is.  The
\* loop is only left early for a sequence that is over for good.
LEMMA WorkIInv ==
    ASSUME IInv, RenderIteration \/ LeaveLoop \/ Compare
    PROVE  IInv'
<1> USE DEF IInv
<1>1. /\ UNCHANGED <<mainVars, sharedVars, m_quit, renderRequest, resultVars>>
      /\ HasRequest /\ rpc' \in {"loop", "compare", "send"}
  BY DEF RenderIteration, LeaveLoop, Compare, HasRequest
<1>2. /\ renderRequest.sequenceNumber \in Nat /\ m_currentSequenceNumber \in Nat
      /\ renderRequest.numIterations \in 1 .. MaxIterations /\ rendered \in Nat
  BY QueuedNumbers, RequestNumbers DEF TypeOK
<1>3. rendered' \in 0 .. MaxIterations
  BY <1>2, RendererAssumption DEF RenderIteration, LeaveLoop, Compare, TypeOK
<1>4. TypeOK'
  BY <1>1, <1>3 DEF TypeOK, mainVars, sharedVars, resultVars
<1>5. SequenceInv'
  BY <1>1 DEF SequenceInv, mainVars, sharedVars
<1>6. OrderInv'
  BY <1>1, OrderUntouched DEF mainVars, sharedVars
<1>7. FirstInv'
  <2>1. NoClientInv'
    BY <1>1 DEF FirstInv, NoClientInv, mainVars, sharedVars, resultVars
  <2>2. UndisturbedInv'
    <3> SUFFICES ASSUME Undisturbed PROVE UndisturbedInv'
      BY <1>1 DEF UndisturbedInv, Undisturbed, mainVars
    <3>1. renderRequest.sequenceNumber <= m_currentSequenceNumber
      BY <1>1 DEF FirstInv, UndisturbedInv
    <3>2. rpc' = "compare" => \/ rendered' = renderRequest.numIterations
                              \/ renderRequest.sequenceNumber < m_currentSequenceNumber
      BY <1>2, <3>1 DEF RenderIteration, LeaveLoop, Compare, RequestIsCurrent
    <3>3. rpc' = "send" => rendered' = renderRequest.numIterations
      BY <1>2 DEF RenderIteration, LeaveLoop, Compare, RequestIsCurrent, FirstInv,
                  UndisturbedInv
    <3>4. QED
      BY <1>1, <3>1, <3>2, <3>3
         DEF FirstInv, UndisturbedInv, IsComplete, mainVars, sharedVars, resultVars
  <2>3. FirstClientGetsCompleteResults'
    BY <1>1 DEF FirstInv, FirstClientGetsCompleteResults, IsComplete, resultVars
  <2>4. QED
    BY <2>1, <2>2, <2>3 DEF FirstInv
<1>8. QED
  BY <1>4, <1>5, <1>6, <1>7

\* A request that is dropped is nowhere any more.
LEMMA IgnoreIInv ==
    ASSUME IInv, Ignore
    PROVE  IInv'
<1> USE DEF IInv, Ignore, mainVars, sharedVars
<1>1. ~HasRequest'
  BY DEF HasRequest
<1>2. NoRequest \in Requests
  BY RendererAssumption DEF NoRequest, Requests, SequenceNumbers
<1>3. TypeOK'
  BY <1>2, RendererAssumption DEF TypeOK, resultVars
<1>4. SequenceInv'
  BY DEF SequenceInv
<1>5. OrderInv'
  BY <1>1, OrderUntouched
<1>6. FirstInv'
  BY <1>1, FirstUntouched
<1>7. QED
  BY <1>3, <1>4, <1>5, <1>6

\* The result follows those of the requests before.
LEMMA SendResultIInv ==
    ASSUME IInv, SendResult
    PROVE  IInv'
<1> USE DEF IInv, SendResult, mainVars, sharedVars
<1> USE RendererAssumption
<1> DEFINE result == [request |-> renderRequest, rendered |-> rendered]
<1>1. result \in Results /\ resultEvents \in Seq(Results)
  BY DEF TypeOK, Results
<1>2. result.request = renderRequest /\ result.rendered = rendered
  OBVIOUS
<1> HIDE DEF result
<1>3. /\ resultEvents' \in Seq(Results) /\ Len(resultEvents) \in Nat
      /\ Len(resultEvents') = Len(resultEvents) + 1
      /\ \A i \in 1 .. Len(resultEvents') :
             \/ i \in 1 .. Len(resultEvents) /\ resultEvents'[i] = resultEvents[i]
             \/ i = Len(resultEvents) + 1 /\ resultEvents'[i] = result
  BY <1>1, AppendElements DEF result
<1>4. ~HasRequest' /\ HasRequest
  BY DEF HasRequest
<1>5. NoRequest \in Requests
  BY DEF NoRequest, Requests, SequenceNumbers
<1>6. TypeOK'
  BY <1>3, <1>5 DEF TypeOK
<1>7. SequenceInv'
  BY DEF SequenceInv
<1>8. OrderInv'
  <2> USE <1>4 DEF OrderInv
  <2>1. QueueInv' /\ RequestInv'
    BY DEF QueueInv, RequestInv
  <2>2. ResultInv'
    <3>1. ASSUME NEW i \in 1 .. Len(resultEvents'), NEW j \in 1 .. Len(resultEvents'), i < j
          PROVE  resultEvents'[i].request.id < resultEvents'[j].request.id
      <4>1. i \in 1 .. Len(resultEvents) /\ resultEvents'[i] = resultEvents[i]
        BY <1>3, <3>1
      <4>2. QED
        BY <1>2, <1>3, <3>1, <4>1 DEF ResultInv
    <3>2. ASSUME NEW i \in 1 .. Len(resultEvents')
          PROVE  /\ resultEvents'[i].request.id <= numRequests
                 /\ \A j \in 1 .. Len(m_queue) : resultEvents'[i].request.id < m_queue[j].id
      BY <1>2, <1>3 DEF ResultInv, RequestInv
    <3>3. QED
      BY <3>1, <3>2 DEF ResultInv
  <2>3. ReceivedInv'
    BY <1>2, <1>3 DEF ReceivedInv
  <2>4. AnswersInOrder'
    BY DEF AnswersInOrder
  <2>5. QED
    BY <2>1, <2>2, <2>3, <2>4
<1>9. FirstInv'
  <2>1. NoClientInv'
    BY <1>4 DEF FirstInv, NoClientInv
  <2>2. UndisturbedInv'
    <3> SUFFICES ASSUME Undisturbed PROVE UndisturbedInv'
      BY DEF UndisturbedInv, Undisturbed
    <3>1. IsComplete(result)
      BY <1>2 DEF FirstInv, UndisturbedInv, IsComplete
    <3>2. \A i \in 1 .. Len(resultEvents') : IsComplete(resultEvents'[i])
      BY <1>3, <3>1 DEF FirstInv, UndisturbedInv
    <3>3. QED
      BY <1>4, <3>2 DEF FirstInv, UndisturbedInv, IsComplete, HasRequest
  <2>3. FirstClientGetsCompleteResults'
    BY DEF FirstInv, FirstClientGetsCompleteResults, IsComplete
  <2>4. QED
    BY <2>1, <2>2, <2>3 DEF FirstInv
<1>10. QED
  BY <1>6, <1>7, <1>8, <1>9

-----------------------------------------------------------------------------
(***************************************************************************)
(* Every step                                                              *)
(***************************************************************************)

\* The invariant is inductive.
LEMMA StepIInv == IInv /\ [Next]_vars => IInv'
<1> SUFFICES ASSUME IInv, [Next]_vars PROVE IInv'
  OBVIOUS
<1>1. CASE Main
  BY <1>1, NewConnectionIInv, ClientDisconnectedIInv, IntroductionIInv, PushCommandIInv,
     WakeIInv, NewRenderResultPacketIInv, WaitIInv, WaitExitIInv DEF Main
<1>2. CASE Renderer
  BY <1>2, ProcessEventIInv, IdleRendererIInv, DequeueIInv, WorkIInv, IgnoreIInv,
     SendResultIInv DEF Renderer
<1>3. CASE UNCHANGED vars
  <2> USE <1>3 DEF IInv, vars, mainVars, sharedVars, rendererVars
  <2>1. TypeOK' /\ SequenceInv'
    BY DEF TypeOK, SequenceInv, resultVars
  <2>2. OrderInv'
    BY OrderUntouched DEF HasRequest
  <2>3. FirstInv'
    BY FirstUntouched
  <2>4. QED
    BY <2>1, <2>2, <2>3
<1>4. QED
  BY <1>1, <1>2, <1>3 DEF Next

\* Every reachable state satisfies the invariant.
THEOREM Invariance == Spec => []IInv
BY InitIInv, StepIInv, PTL DEF Spec

\* Types are respected.
THEOREM TypeCorrectness == Spec => []TypeOK
<1>1. IInv => TypeOK
  BY DEF IInv
<1>2. QED
  BY <1>1, Invariance, PTL

\* Results reach the clients in the order of the requests and at most once each,
\* wherever the steps of the main thread fall between those of the renderer.
THEOREM AnswersInOrderHolds == Spec => []AnswersInOrder
<1>1. IInv => AnswersInOrder
  BY DEF IInv, OrderInv
<1>2. QED
  BY <1>1, Invariance, PTL

\* The first client is never sent a frame in which iterations are missing.
THEOREM FirstClientGetsCompleteResultsHolds == Spec => []FirstClientGetsCompleteResults
<1>1. IInv => FirstClientGetsCompleteResults
  BY DEF IInv, FirstInv
<1>2. QED
  BY <1>1, Invariance, PTL

\* What reaches the clients is in order, and whole as far as the first is meant.
THEOREM ResultsInOrderAndCompleteHolds == Spec => []ResultsInOrderAndComplete
<1>1. AnswersInOrder /\ FirstClientGetsCompleteResults => ResultsInOrderAndComplete
  BY DEF ResultsInOrderAndComplete
<1>2. QED
  BY <1>1, AnswersInOrderHolds, FirstClientGetsCompleteResultsHolds, PTL

\* While the first client is connected, only a request that a newer sequence, or
\* the end of the program, has overtaken is ignored.
THEOREM FirstClientLosesOldRequestsOnlyHolds == Spec => FirstClientLosesOldRequestsOnly
<1>1. IInv /\ [Next]_vars =>
          [Ignore /\ connection = 1 /\ connected =>
               m_currentSequenceNumber > renderRequest.sequenceNumber]_vars
  <2> SUFFICES ASSUME IInv, Ignore, connection = 1, connected
               PROVE  m_currentSequenceNumber > renderRequest.sequenceNumber
    OBVIOUS
  <2>1. /\ renderRequest.sequenceNumber \in Nat /\ m_currentSequenceNumber \in Nat
    BY QueuedNumbers DEF IInv
  <2>2. renderRequest.sequenceNumber <= m_currentSequenceNumber
    BY DEF IInv, FirstInv, UndisturbedInv, Undisturbed, HasRequest, Ignore
  <2>3. renderRequest.sequenceNumber # m_currentSequenceNumber
    BY DEF Ignore, RequestIsCurrent
  <2>4. QED
    BY <2>1, <2>2, <2>3
<1>2. QED
  BY <1>1, Invariance, PTL DEF Spec, FirstClientLosesOldRequestsOnly
=============================================================================
