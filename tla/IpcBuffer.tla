------------------------------ MODULE IpcBuffer ------------------------------
(***************************************************************************)
(* The two threads of the VM process (c_src/main.c) and the memory they    *)
(* share.  populate_buffer assembles requests from stdin and stores each   *)
(* in ipc_buffer[0]; act_on_buffer is woken once per request by a          *)
(* semaphore and copies whatever the slot then holds.  Only the writer     *)
(* takes the mutex: the reader's lock and unlock are commented out.        *)
(*                                                                         *)
(* Requests are numbered in the order their headers are decoded; 0 stands  *)
(* for the NULL pointer of the zeroed static slot.  Bytes and framing are  *)
(* the subject of IpcReader.  The type word of the slot is                 *)
(* CELERY_IPC_REQUEST = 0 from the start and every store writes 0, so only *)
(* the pointer word is kept.                                               *)
(***************************************************************************)
EXTENDS Naturals, Sequences

CONSTANT MaxRequests     \* bound: how many requests arrive on stdin

ASSUME MaxRequestsAssumption == MaxRequests \in Nat

VARIABLES
  ipc_buffer_ptr,  \* whether the global points at the slot yet
  slot,            \* ipc_buffer[0].value.request
  payload,         \* payload[n]: has the payload of request n been copied in
  lock,            \* whether the mutex is held
  sem,             \* the value of the semaphore
  populate,        \* where the populate_buffer thread is
  request,         \* tmp_request: the last request whose header was decoded
  act,             \* where the act_on_buffer thread is
  ipc,             \* the local copy of the slot in act_on_buffer
  acted,           \* history: the requests acted on, in order
  overrun          \* history: has a store replaced a request nobody had copied

producerVars == <<ipc_buffer_ptr, slot, payload, lock, populate, request, overrun>>
consumerVars == <<act, ipc, acted>>
vars == <<producerVars, sem, consumerVars>>

Requests == 1..MaxRequests

\* How many times act_on_buffer has read the slot.
Copied == Len(acted) + (IF act = "act" THEN 1 ELSE 0)

\* Mutant: sem_init(&sem, 0, 1).
InitSemOne == /\ ipc_buffer_ptr = FALSE
              /\ slot = 0
              /\ payload = [n \in Requests |-> FALSE]
              /\ lock = FALSE
              /\ sem = 1
              /\ populate = "start"
              /\ request = 0
              /\ act = "wait"
              /\ ipc = 0
              /\ acted = <<>>
              /\ overrun = FALSE

\* main() initialises the mutex and the semaphore before it starts the threads.
Init == /\ ipc_buffer_ptr = FALSE
        /\ slot = 0
        /\ payload = [n \in Requests |-> FALSE]
        /\ lock = FALSE
        /\ sem = 0
        /\ populate = "start"
        /\ request = 0
        /\ act = "wait"
        /\ ipc = 0
        /\ acted = <<>>
        /\ overrun = FALSE

-----------------------------------------------------------------------------
(* populate_buffer *)

PointToSlot ==
  /\ populate = "start"
  /\ ipc_buffer_ptr' = TRUE
  /\ populate' = "header"
  /\ UNCHANGED <<slot, payload, lock, sem, request, overrun, consumerVars>>

\* The header is complete: the request is allocated, its payload uninitialised.
DecodeHeader ==
  /\ populate = "header"
  /\ request < MaxRequests
  /\ request' = request + 1
  /\ populate' = "payload"
  /\ UNCHANGED <<ipc_buffer_ptr, slot, payload, lock, sem, overrun, consumerVars>>

\* The payload bytes are in the private buffer: enter the critical section.
LockBuffer ==
  /\ populate = "payload"
  /\ ~lock
  /\ lock' = TRUE
  /\ populate' = "store"
  /\ UNCHANGED <<ipc_buffer_ptr, slot, payload, sem, request, overrun, consumerVars>>

\* Mutant: a slot nobody has read yet is kept and the new request dropped.
StoreRequestIfRead ==
  /\ populate = "store"
  /\ slot' = IF Copied < request - 1 THEN slot ELSE request
  /\ overrun' = (overrun \/ Copied < request - 1)
  /\ populate' = "copy"
  /\ UNCHANGED <<ipc_buffer_ptr, payload, lock, sem, request, consumerVars>>

\* memcpy(ipc_buffer_ptr, &ipc, sizeof(ipc)), whatever the reader is doing.
StoreRequest ==
  /\ populate = "store"
  /\ slot' = request
  /\ overrun' = (overrun \/ Copied < request - 1)
  /\ populate' = "copy"
  /\ UNCHANGED <<ipc_buffer_ptr, payload, lock, sem, request, consumerVars>>

\* Mutant: the payload is never copied into the request.
CopyPayloadSkipped ==
  /\ populate = "copy"
  /\ populate' = "unlock"
  /\ UNCHANGED <<ipc_buffer_ptr, slot, payload, lock, sem, request, overrun, consumerVars>>

\* memcpy(ipc_buffer_ptr->value.request->payload, ...): after the store.
CopyPayload ==
  /\ populate = "copy"
  /\ payload' = [payload EXCEPT ![slot] = TRUE]
  /\ populate' = "unlock"
  /\ UNCHANGED <<ipc_buffer_ptr, slot, lock, sem, request, overrun, consumerVars>>

\* Mutant: the slot is cleared before the mutex is released.
UnlockBufferClearing ==
  /\ populate = "unlock"
  /\ lock' = FALSE
  /\ slot' = 0
  /\ populate' = "post"
  /\ UNCHANGED <<ipc_buffer_ptr, payload, sem, request, overrun, consumerVars>>

UnlockBuffer ==
  /\ populate = "unlock"
  /\ lock' = FALSE
  /\ populate' = "post"
  /\ UNCHANGED <<ipc_buffer_ptr, slot, payload, sem, request, overrun, consumerVars>>

\* Mutants: sem_post is called twice, or not at all.
PostRequestTwice ==
  /\ populate = "post"
  /\ sem' = sem + 2
  /\ populate' = "header"
  /\ UNCHANGED <<ipc_buffer_ptr, slot, payload, lock, request, overrun, consumerVars>>

PostRequestForgotten ==
  /\ populate = "post"
  /\ populate' = "header"
  /\ UNCHANGED <<ipc_buffer_ptr, slot, payload, lock, sem, request, overrun, consumerVars>>

PostRequest ==
  /\ populate = "post"
  /\ sem' = sem + 1
  /\ populate' = "header"
  /\ UNCHANGED <<ipc_buffer_ptr, slot, payload, lock, request, overrun, consumerVars>>

-----------------------------------------------------------------------------
(* act_on_buffer *)

\* Mutant: the thread does not block on an empty semaphore.
WaitRequestUnblocked ==
  /\ act = "wait"
  /\ sem' = sem - 1
  /\ act' = "copy"
  /\ UNCHANGED <<producerVars, ipc, acted>>

WaitRequest ==
  /\ act = "wait"
  /\ sem > 0
  /\ sem' = sem - 1
  /\ act' = "copy"
  /\ UNCHANGED <<producerVars, ipc, acted>>

\* memcpy(&ipc, ipc_buffer_ptr, sizeof(celery_ipc_t)), without the mutex.
CopyRequest ==
  /\ act = "copy"
  /\ ipc' = slot
  /\ act' = "act"
  /\ UNCHANGED <<producerVars, sem, acted>>

ActOnRequest ==
  /\ act = "act"
  /\ acted' = Append(acted, ipc)
  /\ act' = "wait"
  /\ UNCHANGED <<producerVars, sem, ipc>>

-----------------------------------------------------------------------------
PopulateBuffer == \/ PointToSlot \/ DecodeHeader \/ LockBuffer \/ StoreRequest
                  \/ CopyPayload \/ UnlockBuffer \/ PostRequest

ActOnBuffer == WaitRequest \/ CopyRequest \/ ActOnRequest

Next == PopulateBuffer \/ ActOnBuffer

Spec == Init /\ [][Next]_vars

\* The OS runs both threads.  Nothing makes the peer send: a thread that waits
\* for the bytes of a header or a payload may wait for ever.
Fairness == /\ WF_vars(PopulateBuffer /\ populate \notin {"header", "payload"})
            /\ WF_vars(ActOnBuffer)

FairSpec == Spec /\ Fairness

-----------------------------------------------------------------------------
(* Properties *)

TypeOK ==
  /\ ipc_buffer_ptr \in BOOLEAN
  /\ slot \in 0..MaxRequests
  /\ payload \in [Requests -> BOOLEAN]
  /\ lock \in BOOLEAN
  /\ sem \in Nat
  /\ populate \in {"start", "header", "payload", "store", "copy", "unlock", "post"}
  /\ request \in 0..MaxRequests
  /\ act \in {"wait", "copy", "act"}
  /\ ipc \in 0..MaxRequests
  /\ acted \in Seq(0..MaxRequests)
  /\ overrun \in BOOLEAN

\* The reader never follows the global before populate_buffer has set it, and
\* never copies the NULL of the untouched slot: both are ordered only by the
\* semaphore, since the reader takes no lock.
NoNullRead == act = "copy" => ipc_buffer_ptr /\ slot # 0

\* The i-th wake-up handles request i or a later one: requests can be skipped
\* by an overwrite but handling never lags behind the semaphore.
NeverBehind == \A i \in 1..Len(acted) : acted[i] >= i /\ acted[i] <= request

\* A request is never handled after one that arrived later.
ActedInOrder ==
  \A i, j \in 1..Len(acted) : i <= j => acted[i] <= acted[j]

\* Handling goes forward, and as fast as the semaphore, however late the
\* reader copies the slot it does not lock.
HandlesForward == NeverBehind /\ ActedInOrder

\* The reader can hold a request whose payload is still uninitialised memory
\* only while populate_buffer is between its two memcpys, on that request.
PayloadRace ==
  act = "act" /\ ~payload[ipc] => populate = "copy" /\ ipc = request

\* As long as no store hit a request the reader had not copied yet, every
\* request is handled exactly once and in order.
LosslessWithoutOverrun ==
  ~overrun => \A i \in 1..Len(acted) : acted[i] = i

\* Every stored request is eventually handled, or a later one is in its place.
ActedOrSuperseded ==
  \A n \in Requests : slot = n ~> \E i \in 1..Len(acted) : acted[i] >= n

\* The buffer implements the lossy mailbox: storing is sending.
Mailbox == INSTANCE LatestMailbox WITH sent <- slot, handled <- acted
ImplementsMailbox == Mailbox!Spec

=============================================================================
