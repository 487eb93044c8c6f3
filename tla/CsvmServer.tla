------------------------------ MODULE CsvmServer ------------------------------
(***************************************************************************)
(* The GenServer that owns the port to the VM (lib/csvm.ex), its callers   *)
(* and its supervisor (lib/csvm/application.ex).  The server handles one   *)
(* message at a time; callers, the port and the VM run beside it.          *)
(*                                                                         *)
(* Calls of Csvm.command are numbered as they are made, the packet of a    *)
(* call and the response to it by the number of the call.  A response is   *)
(* two halves, so that a piece of the byte stream can be a whole response, *)
(* a part of one or more than one: the port is opened without a packet     *)
(* option and promises no message boundaries.                              *)
(***************************************************************************)
EXTENDS Naturals, SequencesExt

CONSTANTS
  MaxCalls,      \* bound: how many calls are made
  Concurrency,   \* bound: how many callers wait at a time
  MaxExits,      \* bound: how often the VM exits by itself
  MaxRestarts    \* max_restarts of the supervisor

ASSUME BoundsAssumption == /\ MaxCalls \in Nat /\ Concurrency \in Nat
                           /\ MaxExits \in Nat /\ MaxRestarts \in Nat

VARIABLES
  server,      \* "up", "down" until restarted, "stopped" with its supervisor
  port,        \* state.port: is it open
  context,     \* state.context, "missing" when the state has only a port
  from,        \* state.from: the call to reply to, 0 for nil
  mailbox,     \* the messages of the server, oldest first
  vm,          \* the program behind the port: is it alive, what it has to read
               \* and what it wrote
  restarts,    \* the restarts the supervisor still counts
  calls,       \* calls[n]: how call n stands
  exits,       \* how often the VM has exited
  commanded,   \* history: the calls whose packet was written to a port
  replies      \* history: the replies given, [to, of]

serverVars == <<server, port, context, from, mailbox, vm, restarts>>
history == <<commanded, replies>>
vars == <<serverVars, calls, exits, history>>

Booted == [alive |-> TRUE, pipe |-> <<>>, out |-> <<>>]

Response(n) == <<[of |-> n, half |-> 1], [of |-> n, half |-> 2]>>

\* ResponsePacket.decode has one clause, for exactly the bytes of a response.
Decodes(data) == \E n \in 1..Len(calls) : data = Response(n)

Message(type) == server = "up" /\ mailbox # <<>> /\ Head(mailbox).type = type

\* start_link registers the server once init has opened the port.
Init == /\ server = "up"
        /\ port = "open"
        /\ context = "idle"
        /\ from = 0
        /\ mailbox = <<>>
        /\ vm = Booted
        /\ restarts = 0
        /\ calls = <<>>
        /\ exits = 0
        /\ commanded = <<>>
        /\ replies = <<>>

-----------------------------------------------------------------------------
(* The callers: GenServer.call with its default timeout *)

Waiting == { n \in DOMAIN calls : calls[n] = "waiting" }

Command ==
  /\ Len(calls) < MaxCalls
  /\ Cardinality(Waiting) < Concurrency
  /\ server = "up"
  /\ calls' = Append(calls, "waiting")
  /\ mailbox' = Append(mailbox, [type |-> "command", from |-> Len(calls) + 1])
  /\ UNCHANGED <<server, port, context, from, vm, restarts, exits, history>>

\* Without a registered server the caller exits with noproc.
CommandNoProc ==
  /\ Len(calls) < MaxCalls
  /\ Cardinality(Waiting) < Concurrency
  /\ server # "up"
  /\ calls' = Append(calls, "exit")
  /\ UNCHANGED <<serverVars, exits, history>>

\* The caller gives up; its message or its reply may still be on the way.
Timeout ==
  /\ \E n \in Waiting : calls' = [calls EXCEPT ![n] = "timeout"]
  /\ UNCHANGED <<serverVars, exits, history>>

-----------------------------------------------------------------------------
(* The server *)

\* An exception in a callback: the process and its messages go, the port is
\* closed with its owner, and whoever waits for a reply exits.
Crash ==
  /\ server' = "down"
  /\ port' = "closed"
  /\ context' = "idle"
  /\ from' = 0
  /\ mailbox' = <<>>
  /\ vm' = [Booted EXCEPT !.alive = FALSE]
  /\ calls' = [n \in DOMAIN calls |-> IF n \in Waiting THEN "exit" ELSE calls[n]]

\* Port.command: bytes for a VM that has died unnoticed go nowhere.
PortCommand(n) ==
  /\ vm' = IF vm.alive THEN [vm EXCEPT !.pipe = Append(@, n)] ELSE vm
  /\ commanded' = Append(commanded, n)

\* Mutant: the packet is written twice.
HandleCommandTwice ==
  /\ Message("command")
  /\ port = "open"
  /\ context # "missing"
  /\ vm' = IF vm.alive THEN [vm EXCEPT !.pipe = @ \o <<Head(mailbox).from, Head(mailbox).from>>]
                       ELSE vm
  /\ commanded' = Append(commanded, Head(mailbox).from)
  /\ context' = "sent"
  /\ from' = Head(mailbox).from
  /\ mailbox' = Tail(mailbox)
  /\ UNCHANGED <<server, port, restarts, calls, exits, replies>>

\* handle_call: the call before this one is forgotten if it has no reply yet.
HandleCommand ==
  /\ Message("command")
  /\ port = "open"
  /\ context # "missing"
  /\ PortCommand(Head(mailbox).from)
  /\ context' = "sent"
  /\ from' = Head(mailbox).from
  /\ mailbox' = Tail(mailbox)
  /\ UNCHANGED <<server, port, restarts, calls, exits, replies>>

\* Mutant: a state without a context is kept as it is.
HandleCommandDegradedKept ==
  /\ Message("command")
  /\ port = "open"
  /\ context = "missing"
  /\ PortCommand(Head(mailbox).from)
  /\ mailbox' = Tail(mailbox)
  /\ UNCHANGED <<server, port, context, from, restarts, calls, exits, replies>>

\* %{state | context: :sent, from: from} raises KeyError on a state that has
\* only a port, after the packet was written.
HandleCommandDegraded ==
  /\ Message("command")
  /\ port = "open"
  /\ context = "missing"
  /\ commanded' = Append(commanded, Head(mailbox).from)
  /\ Crash
  /\ UNCHANGED <<restarts, exits, replies>>

\* Port.command raises ArgumentError on a port that has closed.
HandleCommandClosedPort ==
  /\ Message("command")
  /\ port = "closed"
  /\ Crash
  /\ UNCHANGED <<restarts, exits, history>>

\* GenServer.reply: a caller that has given up ignores it.
ReplyTo(n, of) ==
  /\ calls' = IF n \in Waiting THEN [calls EXCEPT ![n] = "replied"] ELSE calls
  /\ replies' = Append(replies, [to |-> n, of |-> of])

\* Mutants: the state is kept after the reply; the reply is forgotten.
HandleDataStateKept ==
  /\ Message("data")
  /\ context = "sent"
  /\ Decodes(Head(mailbox).data)
  /\ ReplyTo(from, Head(mailbox).data[1].of)
  /\ mailbox' = Tail(mailbox)
  /\ UNCHANGED <<server, port, context, from, vm, restarts, exits, commanded>>

HandleDataNoReply ==
  /\ Message("data")
  /\ context = "sent"
  /\ Decodes(Head(mailbox).data)
  /\ context' = "idle"
  /\ from' = 0
  /\ mailbox' = Tail(mailbox)
  /\ UNCHANGED <<server, port, vm, restarts, calls, exits, history>>

\* The request id of the response is not looked at.
HandleData ==
  /\ Message("data")
  /\ context = "sent"
  /\ Decodes(Head(mailbox).data)
  /\ ReplyTo(from, Head(mailbox).data[1].of)
  /\ context' = "idle"
  /\ from' = 0
  /\ mailbox' = Tail(mailbox)
  /\ UNCHANGED <<server, port, vm, restarts, exits, commanded>>

\* No clause of decode matches a part of a response, or two of them.
HandleDataMalformed ==
  /\ Message("data")
  /\ context = "sent"
  /\ ~Decodes(Head(mailbox).data)
  /\ Crash
  /\ UNCHANGED <<restarts, exits, history>>

\* The second clause for data: logged and dropped, well-formed or not.
HandleDataUnexpected ==
  /\ Message("data")
  /\ context # "sent"
  /\ mailbox' = Tail(mailbox)
  /\ UNCHANGED <<server, port, context, from, vm, restarts, calls, exits, history>>

\* Mutant: the old port stays in the state.
HandleExitStatusSamePort ==
  /\ Message("exit_status")
  /\ context' = "missing"
  /\ from' = 0
  /\ mailbox' = Tail(mailbox)
  /\ UNCHANGED <<server, port, vm, restarts, calls, exits, history>>

\* A new port and a state that has nothing else: who waits is forgotten.
HandleExitStatus ==
  /\ Message("exit_status")
  /\ port' = "open"
  /\ vm' = Booted
  /\ context' = "missing"
  /\ from' = 0
  /\ mailbox' = Tail(mailbox)
  /\ UNCHANGED <<server, restarts, calls, exits, history>>

Handle == \/ HandleCommand \/ HandleCommandDegraded \/ HandleCommandClosedPort
          \/ HandleData \/ HandleDataMalformed \/ HandleDataUnexpected
          \/ HandleExitStatus

-----------------------------------------------------------------------------
(* The supervisor *)

\* Mutant: one restart too many.
RestartOnceMore ==
  /\ server = "down"
  /\ restarts <= MaxRestarts
  /\ server' = "up"
  /\ port' = "open"
  /\ vm' = Booted
  /\ restarts' = restarts + 1
  /\ UNCHANGED <<context, from, mailbox, calls, exits, history>>

\* init opens a new port and starts from an idle state.
Restart ==
  /\ server = "down"
  /\ restarts < MaxRestarts
  /\ server' = "up"
  /\ port' = "open"
  /\ vm' = Booted
  /\ restarts' = restarts + 1
  /\ UNCHANGED <<context, from, mailbox, calls, exits, history>>

GiveUp ==
  /\ server = "down"
  /\ restarts = MaxRestarts
  /\ server' = "stopped"
  /\ UNCHANGED <<port, context, from, mailbox, vm, restarts, calls, exits, history>>

\* max_seconds pass after a restart.
RestartExpires ==
  /\ restarts > 0
  /\ restarts' = restarts - 1
  /\ UNCHANGED <<server, port, context, from, mailbox, vm, calls, exits, history>>

Supervise == Restart \/ GiveUp

-----------------------------------------------------------------------------
(* The port and the VM behind it *)

VmAnswer ==
  /\ vm.alive
  /\ vm.pipe # <<>>
  /\ vm' = [vm EXCEPT !.pipe = Tail(@), !.out = @ \o Response(Head(vm.pipe))]
  /\ UNCHANGED <<server, port, context, from, mailbox, restarts, calls, exits, history>>

\* Requests can be overwritten before the VM acts on them (IpcBuffer).
VmSkip ==
  /\ vm.alive
  /\ vm.pipe # <<>>
  /\ vm' = [vm EXCEPT !.pipe = Tail(@)]
  /\ UNCHANGED <<server, port, context, from, mailbox, restarts, calls, exits, history>>

\* What the VM wrote before it exited can still be read.
VmExit ==
  /\ vm.alive
  /\ exits < MaxExits
  /\ exits' = exits + 1
  /\ vm' = [vm EXCEPT !.alive = FALSE, !.pipe = <<>>]
  /\ UNCHANGED <<server, port, context, from, mailbox, restarts, calls, history>>

\* The port sends what it has read, however much that is.
PortData ==
  /\ port = "open"
  /\ \E k \in 1..Len(vm.out) :
       /\ mailbox' = Append(mailbox, [type |-> "data", data |-> SubSeq(vm.out, 1, k)])
       /\ vm' = [vm EXCEPT !.out = SubSeq(@, k + 1, Len(@))]
  /\ UNCHANGED <<server, port, context, from, restarts, calls, exits, history>>

\* The port sees the end of the VM, tells its owner and closes.
PortExit ==
  /\ port = "open"
  /\ ~vm.alive
  /\ vm.out = <<>>
  /\ port' = "closed"
  /\ mailbox' = Append(mailbox, [type |-> "exit_status"])
  /\ UNCHANGED <<server, context, from, vm, restarts, calls, exits, history>>

Environment == VmAnswer \/ VmSkip \/ VmExit \/ PortData \/ PortExit

-----------------------------------------------------------------------------
Next == \/ Command \/ CommandNoProc \/ Timeout
        \/ Handle
        \/ Supervise \/ RestartExpires
        \/ Environment

Spec == Init /\ [][Next]_vars

\* The BEAM schedules the server and its supervisor; neither the callers nor the
\* VM have to do anything.
FairSpec == Spec /\ WF_vars(Handle) /\ WF_vars(Supervise)

-----------------------------------------------------------------------------
(* Properties *)

Half == [of : 1..Len(calls), half : 1..2]

TypeOK ==
  /\ server \in {"up", "down", "stopped"}
  /\ port \in {"open", "closed"}
  /\ context \in {"idle", "sent", "missing"}
  /\ from \in 0..Len(calls)
  /\ context = "sent" <=> from # 0
  /\ \A i \in DOMAIN mailbox :
       \/ mailbox[i].type = "command" /\ mailbox[i].from \in 1..Len(calls)
       \/ mailbox[i].type = "data" /\ mailbox[i].data \in Seq(Half)
       \/ mailbox[i].type = "exit_status"
  /\ vm.alive \in BOOLEAN /\ vm.pipe \in Seq(1..Len(calls)) /\ vm.out \in Seq(Half)
  /\ restarts \in 0..MaxRestarts
  /\ Len(calls) <= MaxCalls
  /\ \A n \in DOMAIN calls : calls[n] \in {"waiting", "replied", "timeout", "exit"}
  /\ exits \in 0..MaxExits
  /\ commanded \in Seq(1..Len(calls))

Replied(n) == \E i \in DOMAIN replies : replies[i].to = n

\* A caller is given the response to another command only when some earlier
\* command had none by then and never gets one: the server replies to the
\* caller it was asked by last, with whatever response arrives.
WrongOnlyAfterLost ==
  \A i \in DOMAIN replies : replies[i].of # replies[i].to =>
    \E n \in ToSet(commanded) : n < replies[i].to /\ ~Replied(n)

\* A caller that waits, and is neither queued nor the one to reply to, was
\* displaced by a later command or lost its place when the VM exited; it can
\* only time out.
Queued(n) == \E i \in DOMAIN mailbox : mailbox[i] = [type |-> "command", from |-> n]

ForgottenExplained ==
  \A n \in Waiting : ~Queued(n) /\ from # n =>
    \/ \E m \in ToSet(commanded) : m > n
    \/ context = "missing"

\* A running server that holds a closed port has been told so: the message that
\* makes it open another is in its mailbox.
ClosedPortHasNotice ==
  server = "up" /\ port = "closed" =>
    \E i \in DOMAIN mailbox : mailbox[i].type = "exit_status"

\* After an exit of the VM the state is beyond repair until the server crashes:
\* with a command waiting it does, and is started afresh or given up.
DegradedHeals ==
  (server = "up" /\ context = "missing" /\ \E n \in DOMAIN calls : Queued(n))
    ~> ((server = "up" /\ context # "missing") \/ server = "stopped")

\* The server implements the calls with late replies.
Calls == INSTANCE LateReplies WITH Commands <- 1..MaxCalls
ImplementsLateReplies == Calls!Spec

\* Segment 0 of a response is the originating channel number, so a caller that
\* is given a response gets the one to its own command.  It need not: handle_info
\* replies to the last caller without comparing the numbers.
OwnAnswer ==
  \A i \in DOMAIN replies :
    calls[replies[i].to] = "replied" => replies[i].of = replies[i].to

=============================================================================
