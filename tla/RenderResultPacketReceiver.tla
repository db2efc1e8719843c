--------------------- MODULE RenderResultPacketReceiver ---------------------
(***************************************************************************)
(* Client/client/RenderResultPacketReceiver: the object of the client that *)
(* receives the render results of all servers, in its own thread, and      *)
(* merges them into the frame that is displayed.                           *)
(*                                                                         *)
(* The handler onRenderResultPacketReceived is split where it looks at     *)
(* state that another thread writes: it compares sequence numbers, then    *)
(* reads the render method, then merges with m_backBufferMutex held.  The  *)
(* loop that combines neighbours in the back buffer takes one step for     *)
(* each pair, so that it needs no recursion.                               *)
(*                                                                         *)
(* A packet holds consecutive iterations: a request asks for consecutive   *)
(* ones (DistributedApplication.cpp:105-114) and merge appends a packet to *)
(* the one that ends right before it.  Pixels are abstracted to what they  *)
(* are the mean of.                                                        *)
(***************************************************************************)
EXTENDS Integers, FiniteSets, SequencesExt

CONSTANTS
    MaxSequenceNumber,      \* bound: the application is restarted that often
    NumIterations           \* bound: iterations 0..NumIterations-1 are rendered

ASSUME ReceiverAssumption ==
    /\ MaxSequenceNumber \in Nat \ {0, 1}
    /\ NumIterations \in Nat \ {0}

PPM == "PROGRESSIVE_PHOTON_MAPPING"
RenderMethods == {PPM, "PATH_TRACING", "VCM_BIDIRECTIONAL_PATH_TRACING"}

Iterations == 0 .. NumIterations - 1
SequenceNumbers == 0 .. MaxSequenceNumber

Packets == {p \in [sequenceNumber : SequenceNumbers,
                   first : Iterations, last : Iterations] : p.first <= p.last}

\* Between two packets the handler has none: it deletes its argument.
NoPacket == [sequenceNumber |-> 0, first |-> 0, last |-> 0]

\* getIterationNumbersInPacket and getNumIterationsInPacket
IterationsIn(p) == p.first .. p.last
NumIterationsIn(p) == p.last - p.first + 1

VARIABLES
    m_sequenceNumber,               \* Application::m_sequenceNumber
    m_renderMethod,                 \* Application::m_renderMethod
    m_lastSequenceNumber,           \* the sequence the buffers belong to
    m_PPMNextExpectedIteration,     \* the front buffer holds 0..this-1
    m_iterationNumber,              \* reported with the frame
    m_backBuffer,                   \* packets that cannot be shown yet
    m_frontBuffer,                  \* the frame: what it is the mean of
    pc,                             \* where onRenderResultPacketReceived is
    result,                         \* its argument
    photonMapped,                   \* history: iterations merged as PPM and ...
    pathTraced                      \* ... as path tracing, in this sequence

appVars == <<m_sequenceNumber, m_renderMethod>>
bufferVars == <<m_lastSequenceNumber, m_PPMNextExpectedIteration,
                m_iterationNumber, m_backBuffer, m_frontBuffer>>
history == <<photonMapped, pathTraced>>
receiverVars == <<bufferVars, pc, result, history>>
vars == <<appVars, receiverVars>>

Frames == [sequenceNumber : SequenceNumbers, iterations : SUBSET Iterations,
           isMean : BOOLEAN]

TypeOK ==
    /\ m_sequenceNumber \in SequenceNumbers
    /\ m_renderMethod \in RenderMethods
    /\ m_lastSequenceNumber \in SequenceNumbers
    /\ m_PPMNextExpectedIteration \in 0 .. NumIterations
    /\ m_iterationNumber \in Nat
    /\ m_backBuffer \in Seq(Packets)
    /\ m_frontBuffer \in Frames
    /\ pc \in {"idle", "dispatch", "combine", "front"}
    /\ result \in Packets
    /\ photonMapped \in SUBSET Iterations
    /\ pathTraced \in SUBSET Iterations

-----------------------------------------------------------------------------
(***************************************************************************)
(* Data                                                                    *)
(***************************************************************************)

\* mergeBufferRunningAverage(packet, frame, outN): the packet is taken to be the
\* mean of its iterations and the frame the mean of outN iterations.  The new frame is the mean of the iterations of
\* both only if that count is right and no iteration is counted twice.
RunningAverage(packet, frame, outN) ==
    IF outN = 0
    THEN [sequenceNumber |-> packet.sequenceNumber,
          iterations     |-> IterationsIn(packet),
          isMean         |-> TRUE]
    ELSE [sequenceNumber |-> frame.sequenceNumber,
          iterations     |-> frame.iterations \cup IterationsIn(packet),
          isMean         |-> /\ frame.isMean
                             /\ frame.sequenceNumber = packet.sequenceNumber
                             /\ Cardinality(frame.iterations) = outN
                             /\ frame.iterations \cap IterationsIn(packet) = {}]

\* RenderResultPacket::merge
Merge(p, q) == [p EXCEPT !.last = q.last]

\* RenderResultPacket::operator<, over the whole buffer
SortedByFirst(buffer) ==
    \A i \in 1 .. Len(buffer) - 1 : buffer[i].first <= buffer[i + 1].first

\* The test of the loop: packet i + 1 goes on where packet i ends.
Adjacent(buffer, i) == buffer[i].last + 1 = buffer[i + 1].first

FirstAdjacent(buffer, i) ==
    /\ i \in 1 .. Len(buffer) - 1
    /\ Adjacent(buffer, i)
    /\ \A j \in 1 .. i - 1 : ~Adjacent(buffer, j)

\* it->merge(*(it+1)) and the erasure of it+1
MergedAt(buffer, i) ==
    RemoveAt([buffer EXCEPT ![i] = Merge(@, buffer[i + 1])], i + 1)

-----------------------------------------------------------------------------
(***************************************************************************)
(* The handler                                                             *)
(***************************************************************************)

\* The constructor leaves m_iterationNumber unset.  The constructor of
\* Application has incremented the sequence number twice.
ReceiverInit ==
    /\ m_lastSequenceNumber = 0
    /\ m_PPMNextExpectedIteration = 0
    /\ m_iterationNumber \in 0 .. NumIterations
    /\ m_backBuffer = <<>>
    /\ m_frontBuffer = [sequenceNumber |-> 0, iterations |-> {}, isMean |-> FALSE]
    /\ pc = "idle"
    /\ result = NoPacket
    /\ photonMapped = {}
    /\ pathTraced = {}

\* Mutant: the back buffer survives a restart.
resetInternalsKeepsBackBuffer ==
    /\ m_PPMNextExpectedIteration' = 0
    /\ m_iterationNumber' = 0
    /\ m_backBuffer' = m_backBuffer
    /\ photonMapped' = {}
    /\ pathTraced' = {}

resetInternals ==
    /\ m_PPMNextExpectedIteration' = 0
    /\ m_iterationNumber' = 0
    /\ m_backBuffer' = <<>>
    /\ photonMapped' = {}
    /\ pathTraced' = {}

\* The packet is of the current sequence.  The first one of a new sequence
\* resets the buffers, though not the pixels of the front buffer.
AcceptPacket(p) ==
    /\ pc = "idle"
    /\ p.sequenceNumber = m_sequenceNumber
    /\ IF p.sequenceNumber > m_lastSequenceNumber
       THEN resetInternals /\ m_lastSequenceNumber' = p.sequenceNumber
       ELSE UNCHANGED <<m_lastSequenceNumber, m_PPMNextExpectedIteration,
                        m_iterationNumber, m_backBuffer, history>>
    /\ result' = p
    /\ pc' = "dispatch"
    /\ UNCHANGED <<appVars, m_frontBuffer>>

\* A packet of an older sequence is deleted.
DropPacket(p) ==
    /\ pc = "idle"
    /\ p.sequenceNumber # m_sequenceNumber
    /\ UNCHANGED vars

\* mergeRenderResultPathTracing, for every method but photon mapping
MergePathTracing ==
    /\ pc = "dispatch"
    /\ m_renderMethod # PPM
    /\ m_frontBuffer' = RunningAverage(result, m_frontBuffer, m_iterationNumber)
    /\ m_iterationNumber' = m_iterationNumber + NumIterationsIn(result)
    /\ pathTraced' = pathTraced \cup IterationsIn(result)
    /\ pc' = "idle"
    /\ result' = NoPacket
    /\ UNCHANGED <<appVars, m_lastSequenceNumber, m_PPMNextExpectedIteration,
                   m_backBuffer, photonMapped>>

\* Mutant: append without qSort.
AppendToBackBuffer ==
    /\ pc = "dispatch"
    /\ m_renderMethod = PPM
    /\ m_backBuffer' = Append(m_backBuffer, result)
    /\ pc' = "combine"
    /\ UNCHANGED <<appVars, m_lastSequenceNumber, m_PPMNextExpectedIteration,
                   m_iterationNumber, m_frontBuffer, result, history>>

\* append and qSort.  The buffer was sorted, so the packet goes to a place
\* that keeps it sorted; which one of several is up to qSort.
InsertIntoBackBuffer ==
    /\ pc = "dispatch"
    /\ m_renderMethod = PPM
    /\ \E i \in 1 .. Len(m_backBuffer) + 1 :
           LET sorted == InsertAt(m_backBuffer, i, result)
           IN  SortedByFirst(sorted) /\ m_backBuffer' = sorted
    /\ pc' = "combine"
    /\ UNCHANGED <<appVars, m_lastSequenceNumber, m_PPMNextExpectedIteration,
                   m_iterationNumber, m_frontBuffer, result, history>>

\* Mutant: the loop ends after the first pair.
CombineOnePair ==
    /\ pc = "combine"
    /\ \E i \in 1 .. Len(m_backBuffer) - 1 :
           /\ FirstAdjacent(m_backBuffer, i)
           /\ m_backBuffer' = MergedAt(m_backBuffer, i)
    /\ pc' = "front"
    /\ UNCHANGED <<appVars, m_lastSequenceNumber, m_PPMNextExpectedIteration,
                   m_iterationNumber, m_frontBuffer, result, history>>

\* One round of the while loop: the first adjacent pair becomes one packet.
\* The loop also ends when the pair was the last one of the buffer.
CombineAdjacent ==
    /\ pc = "combine"
    /\ \E i \in 1 .. Len(m_backBuffer) - 1 :
           /\ FirstAdjacent(m_backBuffer, i)
           /\ m_backBuffer' = MergedAt(m_backBuffer, i)
           /\ pc' = IF i = Len(m_backBuffer) - 1 THEN "front" ELSE "combine"
    /\ UNCHANGED <<appVars, m_lastSequenceNumber, m_PPMNextExpectedIteration,
                   m_iterationNumber, m_frontBuffer, result, history>>

\* Mutant: the loop only ends when all packets have become one.
NothingLeftToCombine ==
    /\ pc = "combine"
    /\ Len(m_backBuffer) = 1
    /\ pc' = "front"
    /\ UNCHANGED <<appVars, bufferVars, result, history>>

NothingAdjacent ==
    /\ pc = "combine"
    /\ \A i \in 1 .. Len(m_backBuffer) - 1 : ~Adjacent(m_backBuffer, i)
    /\ pc' = "front"
    /\ UNCHANGED <<appVars, bufferVars, result, history>>

\* The end of mergeRenderResultPacketPhotonMapping, in both cases
FinishPhotonMapping ==
    /\ m_iterationNumber' = IF m_PPMNextExpectedIteration' > 0
                            THEN m_PPMNextExpectedIteration' - 1 ELSE 0
    /\ photonMapped' = photonMapped \cup IterationsIn(result)
    /\ pc' = "idle"
    /\ result' = NoPacket
    /\ UNCHANGED <<appVars, m_lastSequenceNumber, pathTraced>>

\* Mutant: the next expected iteration skips one.
MergeIntoFrontSkipsOne ==
    /\ pc = "front"
    /\ m_backBuffer[1].first = m_PPMNextExpectedIteration
    /\ m_frontBuffer' = RunningAverage(m_backBuffer[1], m_frontBuffer,
                                       m_PPMNextExpectedIteration)
    /\ m_PPMNextExpectedIteration' = m_backBuffer[1].last + 2
    /\ m_backBuffer' = Tail(m_backBuffer)
    /\ FinishPhotonMapping

\* Mutant: the frame is weighted with the iteration number on display.
MergeIntoFrontWrongWeight ==
    /\ pc = "front"
    /\ m_backBuffer[1].first = m_PPMNextExpectedIteration
    /\ m_frontBuffer' = RunningAverage(m_backBuffer[1], m_frontBuffer, m_iterationNumber)
    /\ m_PPMNextExpectedIteration' = m_backBuffer[1].last + 1
    /\ m_backBuffer' = Tail(m_backBuffer)
    /\ FinishPhotonMapping

MergeIntoFront ==
    /\ pc = "front"
    /\ m_backBuffer[1].first = m_PPMNextExpectedIteration
    /\ m_frontBuffer' = RunningAverage(m_backBuffer[1], m_frontBuffer,
                                       m_PPMNextExpectedIteration)
    /\ m_PPMNextExpectedIteration' = m_backBuffer[1].last + 1
    /\ m_backBuffer' = Tail(m_backBuffer)
    /\ FinishPhotonMapping

KeepInBackBuffer ==
    /\ pc = "front"
    /\ m_backBuffer[1].first # m_PPMNextExpectedIteration
    /\ UNCHANGED <<m_frontBuffer, m_PPMNextExpectedIteration, m_backBuffer>>
    /\ FinishPhotonMapping

\* What the receiver's thread does once a packet is accepted
Handle ==
    \/ MergePathTracing
    \/ InsertIntoBackBuffer
    \/ CombineAdjacent
    \/ NothingAdjacent
    \/ MergeIntoFront
    \/ KeepInBackBuffer

-----------------------------------------------------------------------------
(***************************************************************************)
(* The receiver on its own: the application restarts the rendering or      *)
(* changes its method at any time, and packets arrive in any order, late   *)
(* or never, but none of an iteration that was merged in the same sequence.*)
(***************************************************************************)

Init ==
    /\ m_sequenceNumber = 2
    /\ m_renderMethod = "VCM_BIDIRECTIONAL_PATH_TRACING"
    /\ ReceiverInit

incrementSequenceNumber ==
    /\ m_sequenceNumber < MaxSequenceNumber
    /\ m_sequenceNumber' = m_sequenceNumber + 1
    /\ UNCHANGED <<m_renderMethod, receiverVars>>

\* The assignment of setRenderMethod: it follows the increment of the sequence
\* number, and the threads of the client run in between.
assignRenderMethod(method) ==
    /\ m_renderMethod' = method
    /\ UNCHANGED <<m_sequenceNumber, receiverVars>>

IsNew(p) ==
    p.sequenceNumber = m_lastSequenceNumber
        => IterationsIn(p) \cap (photonMapped \cup pathTraced) = {}

ReceivePacket(p) == IsNew(p) /\ (AcceptPacket(p) \/ DropPacket(p))

Next ==
    \/ incrementSequenceNumber
    \/ \E method \in RenderMethods : assignRenderMethod(method)
    \/ \E p \in Packets : p.sequenceNumber <= m_sequenceNumber /\ ReceivePacket(p)
    \/ Handle

Spec == Init /\ [][Next]_vars

\* The receiver's thread runs its event loop: a handler that has begun ends.
FairSpec == Spec /\ WF_vars(Handle)

-----------------------------------------------------------------------------
(***************************************************************************)
(* Properties                                                              *)
(***************************************************************************)

InBackBuffer(n) ==
    \E i \in 1 .. Len(m_backBuffer) : n \in IterationsIn(m_backBuffer[i])

\* Between two packets every iteration received for photon mapping is either
\* in the front buffer or, once, in the back buffer; and no packet that could be
\* shown is left in the back buffer.  This is about the loop of
\* mergeRenderResultPacketPhotonMapping: one pass that stops too early strands
\* a packet for ever, since later packets are only compared with neighbours.
NothingStranded ==
    pc = "idle" =>
        /\ m_PPMNextExpectedIteration \notin photonMapped
        /\ \A n \in Iterations :
               n \in photonMapped <=>
                   n < m_PPMNextExpectedIteration \/ InBackBuffer(n)

\* The back buffer is a list of separate runs: in order, disjoint, each ends
\* before the one that is missing in front of the next.  getBackBufferNumIterations
\* counts on no iteration being there twice.
BackBufferIsCoalesced ==
    pc = "idle" =>
        /\ \A i \in 1 .. Len(m_backBuffer) - 1 :
               m_backBuffer[i].last + 1 < m_backBuffer[i + 1].first
        /\ m_backBuffer # <<>> =>
               m_PPMNextExpectedIteration < m_backBuffer[1].first

\* In a sequence rendered by photon mapping only, the frame is the mean of
\* exactly the iterations 0 .. m_PPMNextExpectedIteration - 1 of that sequence,
\* at every step of the handler: the weights of the running average are right.
FrontIsMeanOfPrefix ==
    pathTraced = {} /\ m_PPMNextExpectedIteration > 0 =>
        m_frontBuffer = [sequenceNumber |-> m_lastSequenceNumber,
                         iterations |-> 0 .. m_PPMNextExpectedIteration - 1,
                         isMean |-> TRUE]

\* In a sequence rendered by another method only, the frame is the mean of all
\* iterations received, whatever their order, and m_iterationNumber counts them.
FrontIsMeanOfAll ==
    photonMapped = {} /\ pathTraced # {} =>
        /\ m_frontBuffer = [sequenceNumber |-> m_lastSequenceNumber,
                            iterations |-> pathTraced,
                            isMean |-> TRUE]
        /\ m_iterationNumber = Cardinality(pathTraced)

\* Whichever of its two counters a method is weighted with, an iteration is in the
\* frame with the weight of every other, through restarts and changes of method.
FrontIsMean == FrontIsMeanOfPrefix /\ FrontIsMeanOfAll

\* The receiver implements the abstract frame.
Frame == INSTANCE ProgressiveFrame
             WITH received <- photonMapped, shown <- m_PPMNextExpectedIteration

ImplementsFrame == Frame!Spec

\* A packet that was accepted is merged: the loop over the back buffer ends.
EveryPacketIsMerged == pc # "idle" ~> pc = "idle"

-----------------------------------------------------------------------------
(***************************************************************************)
(* The inductive invariant behind them                                     *)
(***************************************************************************)

\* While a packet is being merged as photon mapping it is in the back buffer,
\* but not yet in the history.
Merging == pc \in {"combine", "front"}

SequenceInv ==
    /\ 2 <= m_sequenceNumber
    /\ m_lastSequenceNumber <= m_sequenceNumber

ResultInv ==
    pc # "idle" =>
        /\ 0 < m_lastSequenceNumber
        /\ result.sequenceNumber = m_lastSequenceNumber
        /\ IterationsIn(result) \cap (photonMapped \cup pathTraced) = {}

OrderInv ==
    /\ \A i \in 1 .. Len(m_backBuffer) :
           /\ m_backBuffer[i].sequenceNumber = m_lastSequenceNumber
           /\ m_PPMNextExpectedIteration <= m_backBuffer[i].first
           /\ \A j \in i + 1 .. Len(m_backBuffer) :
                  m_backBuffer[i].last < m_backBuffer[j].first
    /\ Merging => m_backBuffer # <<>>

GapInv ==
    /\ pc # "combine" =>
           \A i \in 1 .. Len(m_backBuffer) - 1 : ~Adjacent(m_backBuffer, i)
    /\ ~Merging /\ m_backBuffer # <<>> =>
           m_PPMNextExpectedIteration < m_backBuffer[1].first

CoverageInv ==
    \A n \in Iterations :
        (n \in photonMapped \/ (Merging /\ n \in IterationsIn(result)))
            <=> (n < m_PPMNextExpectedIteration \/ InBackBuffer(n))

CountInv ==
    0 < m_lastSequenceNumber /\ photonMapped = {} /\ pathTraced = {} =>
        m_iterationNumber = 0

IInv ==
    /\ TypeOK
    /\ SequenceInv
    /\ ResultInv
    /\ OrderInv
    /\ GapInv
    /\ CoverageInv
    /\ CountInv
    /\ FrontIsMeanOfPrefix
    /\ FrontIsMeanOfAll
=============================================================================
