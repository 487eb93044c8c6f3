-------------------------- MODULE IpcBuffer_proofs --------------------------
(***************************************************************************)
(* Proofs, for every MaxRequests, that the buffer of c_src/main.c keeps    *)
(* its safety properties and implements LatestMailbox.  The invariants of  *)
(* IpcBuffer are not inductive: they are consequences of what the program  *)
(* counters say about the slot, the semaphore and the history.             *)
(***************************************************************************)
EXTENDS IpcBuffer, TLAPS

\* Requests whose sem_post has happened.
Posted == IF populate \in {"start", "header"} THEN request ELSE request - 1

\* What the position of populate_buffer says about the slot.
ProducerInv ==
  /\ ipc_buffer_ptr <=> populate # "start"
  /\ populate = "start" => request = 0
  /\ populate \notin {"start", "header"} => request > 0
  /\ slot = IF populate \in {"payload", "store"} THEN request - 1 ELSE request
  /\ \A n \in 1..slot : payload[n] \/ (populate = "copy" /\ n = request)

\* Every post is still in the semaphore, in the reader's hands or handled.
SemaphoreInv ==
  sem + Len(acted) + (IF act = "wait" THEN 0 ELSE 1) = Posted

\* The reader only has requests that were in the slot, ever later ones.
HistoryInv ==
  /\ \A i \in 1..Len(acted) : acted[i] >= i /\ acted[i] <= slot
  /\ ActedInOrder
  /\ act = "act" => /\ ipc > Len(acted)
                    /\ ipc <= slot
                    /\ \A i \in 1..Len(acted) : acted[i] <= ipc

\* Without an overrun the slot is at most one request ahead of the reader.
PaceInv ==
  ~overrun => /\ slot <= Copied + 1
              /\ \A i \in 1..Len(acted) : acted[i] = i
              /\ act = "act" => ipc = Len(acted) + 1

IInv == TypeOK /\ ProducerInv /\ SemaphoreInv /\ HistoryInv /\ PaceInv

USE MaxRequestsAssumption

LEMMA InitIInv == Init => IInv
<1> SUFFICES ASSUME Init PROVE IInv
  OBVIOUS
<1> USE DEF Init
<1>1. TypeOK
  <2>1. /\ payload \in [Requests -> BOOLEAN]
        /\ ipc_buffer_ptr \in BOOLEAN
        /\ lock \in BOOLEAN
        /\ overrun \in BOOLEAN
    BY Zenon
  <2>2. /\ slot \in 0..MaxRequests
        /\ request \in 0..MaxRequests
        /\ ipc \in 0..MaxRequests
        /\ sem \in Nat
    OBVIOUS
  <2>3. acted \in Seq(0..MaxRequests)
    OBVIOUS
  <2>4. QED
    BY <2>1, <2>2, <2>3, Zenon DEF TypeOK
<1>2. ProducerInv
  BY DEF ProducerInv
<1>3. SemaphoreInv
  BY DEF SemaphoreInv, Posted
<1>4. HistoryInv
  BY DEF HistoryInv, ActedInOrder
<1>5. PaceInv
  BY DEF PaceInv, Copied
<1>6. QED
  BY <1>1, <1>2, <1>3, <1>4, <1>5 DEF IInv

LEMMA NextIInv == IInv /\ [Next]_vars => IInv'
<1> SUFFICES ASSUME IInv, [Next]_vars PROVE IInv'
  OBVIOUS
<1> USE DEF IInv
<1>a. Len(acted) \in Nat
  BY DEF TypeOK
<1>1. CASE PointToSlot
  <2> USE <1>1, <1>a DEF PointToSlot, consumerVars
  <2>1. TypeOK'
    BY DEF TypeOK
  <2>2. ProducerInv' /\ SemaphoreInv'
    BY DEF TypeOK, ProducerInv, SemaphoreInv, Posted
  <2>3. HistoryInv' /\ PaceInv'
    BY DEF HistoryInv, ActedInOrder, PaceInv, Copied
  <2>4. QED
    BY <2>1, <2>2, <2>3
<1>2. CASE DecodeHeader
  <2> USE <1>2, <1>a DEF DecodeHeader, consumerVars
  <2>1. TypeOK'
    BY DEF TypeOK
  <2>2. ProducerInv' /\ SemaphoreInv'
    BY DEF TypeOK, ProducerInv, SemaphoreInv, Posted
  <2>3. HistoryInv' /\ PaceInv'
    BY DEF HistoryInv, ActedInOrder, PaceInv, Copied
  <2>4. QED
    BY <2>1, <2>2, <2>3
<1>3. CASE LockBuffer
  <2> USE <1>3, <1>a DEF LockBuffer, consumerVars
  <2>1. TypeOK'
    BY DEF TypeOK
  <2>2. ProducerInv' /\ SemaphoreInv'
    BY DEF TypeOK, ProducerInv, SemaphoreInv, Posted
  <2>3. HistoryInv' /\ PaceInv'
    BY DEF HistoryInv, ActedInOrder, PaceInv, Copied
  <2>4. QED
    BY <2>1, <2>2, <2>3
<1>4. CASE StoreRequest
  <2> USE <1>4, <1>a DEF StoreRequest, consumerVars
  <2>1. TypeOK'
    BY DEF TypeOK
  <2>2. ProducerInv' /\ SemaphoreInv'
    BY DEF TypeOK, ProducerInv, SemaphoreInv, Posted
  <2>3. HistoryInv'
    BY DEF HistoryInv, ActedInOrder, ProducerInv, TypeOK
  <2>4. ~overrun' => ~overrun /\ ~(Copied < request - 1)
    BY Zenon
  <2>5. PaceInv'
    BY <2>4 DEF PaceInv, Copied, TypeOK
  <2>6. QED
    BY <2>1, <2>2, <2>3, <2>5
<1>5. CASE CopyPayload
  <2> USE <1>5, <1>a DEF CopyPayload, consumerVars
  <2>1. TypeOK'
    BY DEF TypeOK
  <2>2. ProducerInv' /\ SemaphoreInv'
    BY DEF TypeOK, ProducerInv, SemaphoreInv, Posted, Requests
  <2>3. HistoryInv' /\ PaceInv'
    BY DEF HistoryInv, ActedInOrder, PaceInv, Copied
  <2>4. QED
    BY <2>1, <2>2, <2>3
<1>6. CASE UnlockBuffer
  <2> USE <1>6, <1>a DEF UnlockBuffer, consumerVars
  <2>1. TypeOK'
    BY DEF TypeOK
  <2>2. ProducerInv' /\ SemaphoreInv'
    BY DEF TypeOK, ProducerInv, SemaphoreInv, Posted
  <2>3. HistoryInv' /\ PaceInv'
    BY DEF HistoryInv, ActedInOrder, PaceInv, Copied
  <2>4. QED
    BY <2>1, <2>2, <2>3
<1>7. CASE PostRequest
  <2> USE <1>7, <1>a DEF PostRequest, consumerVars
  <2>1. TypeOK'
    BY DEF TypeOK
  <2>2. ProducerInv' /\ SemaphoreInv'
    BY DEF TypeOK, ProducerInv, SemaphoreInv, Posted
  <2>3. HistoryInv' /\ PaceInv'
    BY DEF HistoryInv, ActedInOrder, PaceInv, Copied
  <2>4. QED
    BY <2>1, <2>2, <2>3
<1>8. CASE WaitRequest
  <2> USE <1>8, <1>a DEF WaitRequest, producerVars
  <2>1. TypeOK'
    BY DEF TypeOK
  <2>2. ProducerInv' /\ SemaphoreInv'
    BY DEF TypeOK, ProducerInv, SemaphoreInv, Posted
  <2>3. HistoryInv' /\ PaceInv'
    BY DEF HistoryInv, ActedInOrder, PaceInv, Copied
  <2>4. QED
    BY <2>1, <2>2, <2>3
<1>9. CASE CopyRequest
  <2> USE <1>9, <1>a DEF CopyRequest, producerVars
  <2>1. TypeOK'
    BY DEF TypeOK
  <2>2. ProducerInv' /\ SemaphoreInv'
    BY DEF TypeOK, ProducerInv, SemaphoreInv, Posted
  \* A wake-up was posted for it, so the slot is past every handled request.
  <2>3. slot > Len(acted)
    BY DEF TypeOK, ProducerInv, SemaphoreInv, Posted
  <2>4. HistoryInv'
    BY <2>3 DEF HistoryInv, ActedInOrder, TypeOK
  <2>5. PaceInv'
    BY <2>3 DEF PaceInv, Copied, TypeOK
  <2>6. QED
    BY <2>1, <2>2, <2>4, <2>5
<1>10. CASE ActOnRequest
  <2> USE <1>10, <1>a DEF ActOnRequest, producerVars
  <2>1. /\ Len(acted') = Len(acted) + 1
        /\ \A i \in 1..Len(acted) : acted'[i] = acted[i]
        /\ acted'[Len(acted) + 1] = ipc
        /\ acted' \in Seq(0..MaxRequests)
    BY DEF TypeOK
  <2>2. TypeOK'
    BY <2>1 DEF TypeOK
  <2>3. ProducerInv' /\ SemaphoreInv'
    BY <2>1 DEF TypeOK, ProducerInv, SemaphoreInv, Posted
  <2>4. \A i \in 1..Len(acted') : acted'[i] >= i /\ acted'[i] <= slot
    BY <2>1 DEF HistoryInv, TypeOK
  <2>5. ActedInOrder'
    <3> SUFFICES ASSUME NEW i \in 1..Len(acted'), NEW j \in 1..Len(acted'), i <= j
                 PROVE  acted'[i] <= acted'[j]
      BY DEF ActedInOrder
    <3>1. CASE j \in 1..Len(acted)
      BY <3>1, <2>1 DEF HistoryInv, ActedInOrder
    <3>2. CASE j = Len(acted) + 1
      BY <3>2, <2>1 DEF HistoryInv, TypeOK
    <3>3. QED
      BY <3>1, <3>2, <2>1
  <2>6. HistoryInv'
    <3>1. slot' = slot /\ act' # "act"
      OBVIOUS
    <3>2. QED
      BY <2>4, <2>5, <3>1, Zenon DEF HistoryInv
  <2>7. PaceInv'
    <3> SUFFICES ASSUME ~overrun
                 PROVE  /\ slot <= Copied'  + 1
                        /\ \A i \in 1..Len(acted') : acted'[i] = i
      BY DEF PaceInv
    <3>1. slot <= Copied' + 1
      BY <2>1 DEF PaceInv, Copied
    <3>2. \A i \in 1..Len(acted') : acted'[i] = i
      BY <2>1 DEF PaceInv
    <3>3. QED
      BY <3>1, <3>2
  <2>8. QED
    BY <2>2, <2>3, <2>6, <2>7
<1>11. CASE UNCHANGED vars
  <2> USE <1>11 DEF vars, producerVars, consumerVars
  <2>1. TypeOK' /\ ProducerInv' /\ SemaphoreInv'
    BY DEF TypeOK, ProducerInv, SemaphoreInv, Posted
  <2>2. HistoryInv' /\ PaceInv'
    BY DEF HistoryInv, ActedInOrder, PaceInv, Copied
  <2>3. QED
    BY <2>1, <2>2
<1>12. QED
  BY <1>1, <1>2, <1>3, <1>4, <1>5, <1>6, <1>7, <1>8, <1>9, <1>10, <1>11
     DEF Next, PopulateBuffer, ActOnBuffer

LEMMA Invariance == Spec => []IInv
<1>1. QED
  BY InitIInv, NextIInv, PTL DEF Spec

-----------------------------------------------------------------------------
\* The variables of the two threads keep their types, the semaphore among
\* them: it never goes below zero.
THEOREM TypeCorrect == Spec => []TypeOK
<1>1. IInv => TypeOK
  BY DEF IInv
<1>2. QED
  BY <1>1, Invariance, PTL

\* Although the reader takes no lock, it never follows ipc_buffer_ptr before
\* it is set and never copies the NULL request of the untouched slot.
THEOREM ReadSafety == Spec => []NoNullRead
<1>1. IInv => NoNullRead
  BY DEF IInv, TypeOK, ProducerInv, SemaphoreInv, Posted, NoNullRead
<1>2. QED
  BY <1>1, Invariance, PTL

\* The i-th wake-up of act_on_buffer handles request i or a later one, and the
\* requests it handles never go back in time.
THEOREM Progressive == Spec => []HandlesForward
<1>1. IInv => HandlesForward
  <2> SUFFICES ASSUME IInv PROVE NeverBehind /\ ActedInOrder
    BY DEF HandlesForward
  <2>1. slot <= request
    BY DEF IInv, TypeOK, ProducerInv
  <2>2. QED
    BY <2>1 DEF IInv, TypeOK, HistoryInv, NeverBehind
<1>2. QED
  BY <1>1, Invariance, PTL

\* A request with an uninitialised payload reaches the reader only inside the
\* writer's critical section, on the request being written.
THEOREM PayloadRaceBound == Spec => []PayloadRace
<1>1. IInv => PayloadRace
  BY DEF IInv, TypeOK, ProducerInv, HistoryInv, PayloadRace
<1>2. QED
  BY <1>1, Invariance, PTL

\* If no store ever hits a request that was not copied yet, every request is
\* handled exactly once, in order.
THEOREM Lossless == Spec => []LosslessWithoutOverrun
<1>1. IInv => LosslessWithoutOverrun
  BY DEF IInv, PaceInv, LosslessWithoutOverrun
<1>2. QED
  BY <1>1, Invariance, PTL

-----------------------------------------------------------------------------
\* Every step of the two threads is a step of the mailbox or a stutter.
LEMMA StepSimulation == IInv /\ IInv' /\ [Next]_vars => [Mailbox!Next]_(Mailbox!vars)
<1> SUFFICES ASSUME IInv, IInv', [Next]_vars
             PROVE  [Mailbox!Next]_(Mailbox!vars)
  OBVIOUS
<1> USE DEF Mailbox!vars
<1>1. CASE StoreRequest
  <2>1. slot' = slot + 1 /\ acted' = acted
    BY <1>1 DEF StoreRequest, consumerVars, IInv, ProducerInv, TypeOK
  <2>2. QED
    BY <2>1 DEF Mailbox!Next, Mailbox!Send
<1>2. CASE ActOnRequest
  <2>1. /\ ipc \in 1..slot
        /\ Mailbox!Handle(ipc)
    BY <1>2 DEF ActOnRequest, producerVars, IInv, HistoryInv, TypeOK, Mailbox!Handle
  <2>2. QED
    BY <2>1 DEF Mailbox!Next
<1>3. CASE PointToSlot \/ DecodeHeader \/ LockBuffer \/ CopyPayload
             \/ UnlockBuffer \/ PostRequest
  BY <1>3 DEF PointToSlot, DecodeHeader, LockBuffer, CopyPayload, UnlockBuffer,
              PostRequest, consumerVars
<1>4. CASE WaitRequest \/ CopyRequest \/ UNCHANGED vars
  BY <1>4 DEF WaitRequest, CopyRequest, vars, producerVars, consumerVars
<1>5. QED
  BY <1>1, <1>2, <1>3, <1>4 DEF Next, PopulateBuffer, ActOnBuffer

\* The shared slot implements the lossy mailbox.
THEOREM Refinement == Spec => ImplementsMailbox
<1>1. Init => Mailbox!Init
  BY DEF Init, Mailbox!Init
<1>2. QED
  BY <1>1, StepSimulation, Invariance, PTL DEF Spec, ImplementsMailbox, Mailbox!Spec

=============================================================================
