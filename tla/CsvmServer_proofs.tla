------------------------- MODULE CsvmServer_proofs -------------------------
(***************************************************************************)
(* Proofs, for any number of calls, callers, exits and restarts, that the  *)
(* server of lib/csvm.ex is typed, knows of a port that closed, forgets    *)
(* only the callers it has a reason to, and implements LateReplies.  What  *)
(* they rest on is the order of numbers: along the mailbox, from the       *)
(* commands and replies there were to the commands that wait, and along    *)
(* the stream of responses, from the oldest data in the mailbox to the     *)
(* newest packet in the pipe.                                              *)
(***************************************************************************)
EXTENDS CsvmServer, SequenceTheorems, TLAPS

USE BoundsAssumption

Halves == [of : Nat, half : 1..2]

Messages == [type : {"command"}, from : Nat \ {0}]
            \cup [type : {"data"}, data : Seq(Halves)]
            \cup [type : {"exit_status"}]

Replies == [to : Nat, of : Nat]

\* What a message holds of the stream of responses.
Piece(message) == IF message.type = "data" THEN message.data ELSE <<>>

\* Halves in the order they are written, and how pieces lie in that order.
Before(g, h) == g.of < h.of \/ (g.of = h.of /\ g.half < h.half)
Rising(s) == \A a, b \in 1..Len(s) : a < b => Before(s[a], s[b])
Precedes(s, t) == \A a \in 1..Len(s), b \in 1..Len(t) : Before(s[a], t[b])
Below(s, n) == \A a \in 1..Len(s) : s[a].of < n
Above(s, n) == \A a \in 1..Len(s) : s[a].of > n
Within(s, C) == \A a \in 1..Len(s) : s[a].of \in C

-----------------------------------------------------------------------------
(* Pieces *)

\* A piece of no bytes is in order with everything.
LEMMA EmptyPiece ==
  /\ Rising(<<>>)
  /\ \A s : Precedes(<<>>, s) /\ Precedes(s, <<>>)
  /\ \A n : Below(<<>>, n) /\ Above(<<>>, n)
  /\ \A C : Within(<<>>, C)
BY DEF Rising, Precedes, Below, Above, Within

\* The port cuts the stream anywhere.
LEMMA CutPiece ==
  ASSUME NEW s \in Seq(Halves), NEW k \in 1..Len(s)
  PROVE  LET first == SubSeq(s, 1, k)
             rest == SubSeq(s, k + 1, Len(s))
         IN /\ first \in Seq(Halves) /\ rest \in Seq(Halves)
            /\ Rising(s) => Rising(first) /\ Rising(rest) /\ Precedes(first, rest)
            /\ \A d : Precedes(d, s) => Precedes(d, first) /\ Precedes(d, rest)
            /\ \A n : Below(s, n) => Below(first, n) /\ Below(rest, n)
            /\ \A n : Above(s, n) => Above(first, n) /\ Above(rest, n)
            /\ \A C : Within(s, C) => Within(first, C) /\ Within(rest, C)
<1> DEFINE first == SubSeq(s, 1, k)
           rest == SubSeq(s, k + 1, Len(s))
<1>0. Len(s) \in Nat /\ \A i \in 1..Len(s) : s[i] \in Halves
  BY ElementOfSeq, LenProperties
<1>1. /\ first \in Seq(Halves)
      /\ Len(first) = k
      /\ \A a \in 1..k : first[a] = s[a]
  <2>1. 1 \in Int /\ k \in Int /\ \A i \in 1..k : s[i] \in Halves
    BY <1>0
  <2>2. QED
    BY <2>1, SubSeqProperties
<1>2. /\ rest \in Seq(Halves)
      /\ Len(rest) = Len(s) - k
      /\ \A b \in 1..(Len(s) - k) : rest[b] = s[k + b]
  <2>1. k + 1 \in Int /\ Len(s) \in Int /\ \A i \in (k + 1)..Len(s) : s[i] \in Halves
    BY <1>0
  <2>2. QED
    BY <1>0, <2>1, SubSeqProperties
<1> HIDE DEF first, rest
<1>3. \A a \in 1..k : a \in 1..Len(s)
  BY <1>0
<1>4. \A b \in 1..(Len(s) - k) : k + b \in 1..Len(s) /\ \A a \in 1..k : a < k + b
  BY <1>0
<1>5. Rising(s) => Rising(first) /\ Rising(rest) /\ Precedes(first, rest)
  <2> SUFFICES ASSUME Rising(s) PROVE Rising(first) /\ Rising(rest) /\ Precedes(first, rest)
    OBVIOUS
  <2>1. Rising(first)
    BY <1>1, <1>3 DEF Rising
  <2>2. Rising(rest)
    <3> SUFFICES ASSUME NEW a \in 1..(Len(s) - k), NEW b \in 1..(Len(s) - k), a < b
                 PROVE  Before(rest[a], rest[b])
      BY <1>2 DEF Rising
    <3>1. k + a < k + b
      BY <1>0
    <3>2. QED
      BY <3>1, <1>2, <1>4 DEF Rising
  <2>3. Precedes(first, rest)
    BY <1>1, <1>2, <1>3, <1>4 DEF Rising, Precedes
  <2>4. QED
    BY <2>1, <2>2, <2>3
<1>6. \A d : Precedes(d, s) => Precedes(d, first) /\ Precedes(d, rest)
  BY <1>1, <1>2, <1>3, <1>4 DEF Precedes
<1>7. /\ \A n : Below(s, n) => Below(first, n) /\ Below(rest, n)
      /\ \A n : Above(s, n) => Above(first, n) /\ Above(rest, n)
      /\ \A C : Within(s, C) => Within(first, C) /\ Within(rest, C)
  BY <1>1, <1>2, <1>3, <1>4 DEF Below, Above, Within
<1>8. QED
  BY <1>1, <1>2, <1>5, <1>6, <1>7 DEF first, rest

\* A response is written behind what there is of earlier ones.
LEMMA AnswerPiece ==
  ASSUME NEW s \in Seq(Halves), NEW n \in Nat
  PROVE  LET more == s \o Response(n)
         IN /\ more \in Seq(Halves)
            /\ Rising(s) /\ Below(s, n) => Rising(more)
            /\ \A d \in Seq(Halves) : Precedes(d, s) /\ Below(d, n) => Precedes(d, more)
            /\ \A m \in Nat : Below(s, m) /\ n < m => Below(more, m)
            /\ \A m \in Nat : Above(s, m) /\ m < n => Above(more, m)
            /\ \A C : Within(s, C) /\ n \in C => Within(more, C)
<1> DEFINE more == s \o Response(n)
<1>0. Len(s) \in Nat /\ \A i \in 1..Len(s) : s[i] \in Halves
  BY ElementOfSeq, LenProperties
<1>1. /\ Response(n) \in Seq(Halves)
      /\ Len(Response(n)) = 2
      /\ Response(n)[1].of = n /\ Response(n)[2].of = n
      /\ Response(n)[1].half = 1 /\ Response(n)[2].half = 2
  BY DEF Response, Halves
<1>2. /\ more \in Seq(Halves)
      /\ Len(more) = Len(s) + Len(Response(n))
      /\ \A i \in 1..(Len(s) + Len(Response(n))) :
           more[i] = IF i <= Len(s) THEN s[i] ELSE Response(n)[i - Len(s)]
  BY <1>1, ConcatProperties, Zenon
<1> HIDE DEF more
<1>x. /\ Len(more) = Len(s) + 2
      /\ \A i \in 1..(Len(s) + 2) :
           more[i] = IF i <= Len(s) THEN s[i] ELSE Response(n)[i - Len(s)]
  BY <1>1, <1>2, Zenon
<1>3. /\ Len(more) = Len(s) + 2
      /\ \A i \in 1..Len(more) : i \in 1..Len(s) \/ i = Len(s) + 1 \/ i = Len(s) + 2
      /\ \A i \in 1..Len(s) : more[i] = s[i]
  BY <1>0, <1>x
<1>4. more[Len(s) + 1] = Response(n)[1] /\ more[Len(s) + 2] = Response(n)[2]
  BY <1>0, <1>x
<1>5. /\ \A i \in 1..Len(more) : i \notin 1..Len(s) => more[i].of = n
      /\ more[Len(s) + 1].half = 1 /\ more[Len(s) + 2].half = 2
      /\ more[Len(s) + 1].of = n /\ more[Len(s) + 2].of = n
  BY <1>1, <1>3, <1>4
<1>6. Rising(s) /\ Below(s, n) => Rising(more)
  <2> SUFFICES ASSUME Rising(s), Below(s, n),
                      NEW a \in 1..Len(more), NEW b \in 1..Len(more), a < b
               PROVE  Before(more[a], more[b])
    BY DEF Rising
  <2>1. CASE b \in 1..Len(s)
    <3>1. a \in 1..Len(s)
      BY <2>1, <1>0, <1>3
    <3>2. QED
      BY <3>1, <2>1, <1>3 DEF Rising
  <2>2. CASE b \notin 1..Len(s) /\ a \in 1..Len(s)
    BY <2>2, <1>3, <1>5 DEF Below, Before
  <2>3. CASE b \notin 1..Len(s) /\ a \notin 1..Len(s)
    <3>1. a = Len(s) + 1 /\ b = Len(s) + 2
      BY <2>3, <1>0, <1>3
    <3>2. QED
      BY <3>1, <1>5 DEF Before
  <2>4. QED
    BY <2>1, <2>2, <2>3
<1>7. \A d \in Seq(Halves) : Precedes(d, s) /\ Below(d, n) => Precedes(d, more)
  BY <1>3, <1>5 DEF Precedes, Below, Before
<1>8. /\ \A m \in Nat : Below(s, m) /\ n < m => Below(more, m)
      /\ \A m \in Nat : Above(s, m) /\ m < n => Above(more, m)
      /\ \A C : Within(s, C) /\ n \in C => Within(more, C)
  BY <1>3, <1>5 DEF Below, Above, Within
<1>9. QED
  BY <1>2, <1>6, <1>7, <1>8 DEF more

\* Nothing behind a whole response is of it, or of an earlier one.
LEMMA BehindResponse ==
  ASSUME NEW n \in Nat
  PROVE  /\ \A s \in Seq(Halves) : Precedes(Response(n), s) => Above(s, n)
         /\ \A m \in Nat : Below(Response(n), m) => n < m
         /\ \A m \in Nat : Above(Response(n), m) => m < n
         /\ \A C : Within(Response(n), C) => n \in C
<1>1. /\ Len(Response(n)) = 2
      /\ Response(n)[2].of = n /\ Response(n)[2].half = 2
  BY DEF Response
<1>2. ASSUME NEW s \in Seq(Halves), Precedes(Response(n), s), NEW b \in 1..Len(s)
      PROVE  s[b].of > n
  <2>1. s[b].of \in Nat /\ s[b].half \in 1..2
    <3>1. s[b] \in Halves
      BY ElementOfSeq
    <3>2. QED
      BY <3>1 DEF Halves
  <2>2. Before(Response(n)[2], s[b])
    BY <1>1, <1>2 DEF Precedes
  <2>3. QED
    BY <2>1, <2>2, <1>1 DEF Before
<1>3. QED
  BY <1>1, <1>2 DEF Above, Below, Within

-----------------------------------------------------------------------------
(* Types, with numbers that need not be those of calls *)

Standings == {"waiting", "replied", "timeout", "exit"}

Typed ==
  /\ server \in {"up", "down", "stopped"}
  /\ port \in {"open", "closed"}
  /\ context \in {"idle", "sent", "missing"}
  /\ from \in Nat
  /\ context = "sent" <=> from # 0
  /\ mailbox \in Seq(Messages)
  /\ vm \in [alive : BOOLEAN, pipe : Seq(Nat), out : Seq(Halves)]
  /\ restarts \in 0..MaxRestarts
  /\ calls \in Seq(Standings)
  /\ Len(calls) <= MaxCalls
  /\ exits \in 0..MaxExits
  /\ commanded \in Seq(Nat)
  /\ replies \in Seq(Replies)

\* A message is one of three.
LEMMA MessageCases ==
  ASSUME NEW m \in Messages
  PROVE  /\ m.type \in {"command", "data", "exit_status"}
         /\ m.type = "command" => m.from \in Nat /\ m.from # 0
         /\ m.type = "data" => m.data \in Seq(Halves)
         /\ Piece(m) \in Seq(Halves)
BY EmptySeq DEF Messages, Piece

\* The server takes the oldest message.
LEMMA OldestMessage ==
  ASSUME Typed, mailbox # <<>>
  PROVE  Head(mailbox) \in Messages /\ Tail(mailbox) \in Seq(Messages)
BY HeadTailProperties DEF Typed

\* Who waits when the server crashes exits, and the others stay as they are.
LEMMA CrashTyped ==
  ASSUME Typed, Crash
  PROVE  /\ calls' \in Seq(Standings)
         /\ Len(calls') = Len(calls)
         /\ \A n \in 1..Len(calls) :
              calls'[n] = IF calls[n] = "waiting" THEN "exit" ELSE calls[n]
<1> DEFINE standing(n) == IF n \in Waiting THEN "exit" ELSE calls[n]
<1>1. /\ Len(calls) \in Nat
      /\ DOMAIN calls = 1..Len(calls)
      /\ \A n \in 1..Len(calls) : calls[n] \in Standings
  BY ElementOfSeq, LenProperties DEF Typed
<1>2. calls' = [n \in 1..Len(calls) |-> standing(n)]
  BY <1>1 DEF Crash
<1>3. \A n \in 1..Len(calls) :
        /\ standing(n) = IF calls[n] = "waiting" THEN "exit" ELSE calls[n]
        /\ standing(n) \in Standings
  BY <1>1 DEF Waiting, Standings
<1> HIDE DEF standing
<1>4. calls' \in [1..Len(calls) -> Standings]
  BY <1>2, <1>3
<1>5. calls' \in Seq(Standings)
  BY <1>1, <1>4, SeqDef
<1>6. Len(calls') = Len(calls)
  BY <1>1, <1>4, <1>5, LenProperties
<1>7. QED
  BY <1>2, <1>3, <1>5, <1>6

\* The reply goes to who is waited for, with whatever response was decoded.
LEMMA ReplyGiven ==
  ASSUME Typed, HandleData
  PROVE  /\ from \in Nat /\ from # 0
         /\ \E n \in 1..Len(calls) :
              /\ n \in Nat
              /\ Head(mailbox).data = Response(n)
              /\ [to |-> from, of |-> n] \in Replies
              /\ replies' = Append(replies, [to |-> from, of |-> n])
         /\ calls' \in Seq(Standings)
         /\ Len(calls') = Len(calls)
         /\ \A n \in 1..Len(calls) :
              calls'[n] = IF n = from /\ calls[n] = "waiting" THEN "replied" ELSE calls[n]
<1>0. Len(calls) \in Nat /\ DOMAIN calls = 1..Len(calls) /\ calls \in Seq(Standings)
  BY LenProperties DEF Typed
<1>1. PICK n \in 1..Len(calls) : Head(mailbox).data = Response(n)
  BY DEF HandleData, Decodes
<1>2. Head(mailbox).data[1].of = n /\ n \in Nat
  BY <1>0, <1>1 DEF Response
<1>3. ReplyTo(from, n)
  BY <1>2 DEF HandleData
<1>4. /\ calls' \in Seq(Standings)
      /\ Len(calls') = Len(calls)
      /\ \A m \in 1..Len(calls) :
           calls'[m] = IF m = from /\ calls[m] = "waiting" THEN "replied" ELSE calls[m]
  <2>1. CASE from \in Waiting
    <3>1. /\ from \in 1..Len(calls) /\ calls[from] = "waiting"
          /\ calls' = [calls EXCEPT ![from] = "replied"] /\ "replied" \in Standings
      BY <1>0, <1>3, <2>1 DEF ReplyTo, Waiting, Standings
    <3>2. QED
      BY <1>0, <3>1, ExceptSeq
  <2>2. CASE from \notin Waiting
    BY <1>0, <1>3, <2>2 DEF ReplyTo, Waiting
  <2>3. QED
    BY <2>1, <2>2
<1>5. from \in Nat /\ from # 0
  BY DEF HandleData, Typed
<1>6. /\ [to |-> from, of |-> n] \in Replies
      /\ replies' = Append(replies, [to |-> from, of |-> n])
  BY <1>2, <1>3, <1>5 DEF ReplyTo, Replies
<1>7. QED
  BY <1>1, <1>2, <1>4, <1>5, <1>6

\* The types hold at the start.
LEMMA TypedInit == Init => Typed
BY EmptySeq DEF Init, Typed, Booted

\* Every step keeps the types.
LEMMA TypedStep == Typed /\ [Next]_vars => Typed'
<1> SUFFICES ASSUME Typed, [Next]_vars PROVE Typed'
  OBVIOUS
<1> USE DEF Standings
<1>0. /\ Len(calls) \in Nat /\ DOMAIN calls = 1..Len(calls)
      /\ vm.alive \in BOOLEAN /\ vm.pipe \in Seq(Nat) /\ vm.out \in Seq(Halves)
      /\ Booted \in [alive : BOOLEAN, pipe : Seq(Nat), out : Seq(Halves)]
      /\ [Booted EXCEPT !.alive = FALSE] \in [alive : BOOLEAN, pipe : Seq(Nat), out : Seq(Halves)]
  BY LenProperties, EmptySeq DEF Typed, Booted
<1>1. ASSUME Len(calls) < MaxCalls, NEW standing \in Standings, calls' = Append(calls, standing)
      PROVE  calls' \in Seq(Standings) /\ Len(calls') <= MaxCalls
  <2>1. calls \in Seq(Standings)
    BY DEF Typed
  <2>2. calls' \in Seq(Standings) /\ Len(calls') = Len(calls) + 1
    BY <1>1, <2>1, AppendProperties
  <2>3. QED
    BY <1>0, <1>1, <2>2
<1>2. CASE Command
  <2>1. [type |-> "command", from |-> Len(calls) + 1] \in Messages
    BY <1>0 DEF Messages
  <2>2. mailbox' \in Seq(Messages)
    BY <2>1, <1>2, AppendProperties DEF Command, Typed
  <2>3. calls' \in Seq(Standings) /\ Len(calls') <= MaxCalls
    BY <1>1, <1>2 DEF Command
  <2>4. QED
    BY <1>2, <2>2, <2>3 DEF Command, Typed, history
<1>3. CASE CommandNoProc
  <2>1. calls' \in Seq(Standings) /\ Len(calls') <= MaxCalls
    BY <1>1, <1>3 DEF CommandNoProc
  <2>2. QED
    BY <1>3, <2>1 DEF CommandNoProc, Typed, serverVars, history
<1>4. CASE Timeout
  <2>1. calls' \in Seq(Standings) /\ Len(calls') <= MaxCalls
    BY <1>0, <1>4, ExceptSeq DEF Timeout, Typed, Waiting
  <2>2. QED
    BY <1>4, <2>1 DEF Timeout, Typed, serverVars, history
<1>5. ASSUME Crash, UNCHANGED <<restarts, exits, replies>>, commanded' \in Seq(Nat)
      PROVE  Typed'
  <2>1. calls' \in Seq(Standings) /\ Len(calls') <= MaxCalls
    BY <1>5, CrashTyped DEF Typed
  <2>2. mailbox' \in Seq(Messages)
    BY <1>5, EmptySeq DEF Crash
  <2>3. QED
    BY <1>0, <1>5, <2>1, <2>2 DEF Crash, Typed
<1>6. ASSUME NEW type, Message(type)
      PROVE  /\ Head(mailbox) \in Messages /\ Tail(mailbox) \in Seq(Messages)
             /\ Head(mailbox).type = type
             /\ type = "command" => Head(mailbox).from \in Nat /\ Head(mailbox).from # 0
             /\ type = "data" => Head(mailbox).data \in Seq(Halves)
  BY <1>6, OldestMessage, MessageCases DEF Message
<1>7. CASE HandleCommand
  <2>1. Message("command")
    BY <1>7 DEF HandleCommand
  <2> DEFINE n == Head(mailbox).from
  <2>2. n \in Nat /\ n # 0 /\ Tail(mailbox) \in Seq(Messages)
    BY <1>6, <2>1
  <2> HIDE DEF n
  <2>3. PortCommand(n) /\ from' = n /\ mailbox' = Tail(mailbox)
    BY <1>7 DEF HandleCommand, n
  <2>4. commanded' \in Seq(Nat) /\ Append(vm.pipe, n) \in Seq(Nat)
    BY <1>0, <2>2, <2>3, AppendProperties DEF PortCommand, Typed
  <2>5. vm' \in [alive : BOOLEAN, pipe : Seq(Nat), out : Seq(Halves)]
    BY <1>0, <2>3, <2>4 DEF PortCommand, Typed
  <2>6. QED
    BY <1>7, <2>2, <2>3, <2>4, <2>5 DEF HandleCommand, Typed
<1>8. CASE HandleCommandDegraded
  <2>1. Head(mailbox).from \in Nat
    BY <1>6, <1>8 DEF HandleCommandDegraded
  <2>2. commanded' \in Seq(Nat)
    BY <1>8, <2>1, AppendProperties DEF HandleCommandDegraded, Typed
  <2>3. QED
    BY <1>5, <1>8, <2>2 DEF HandleCommandDegraded
<1>9. CASE HandleCommandClosedPort \/ HandleDataMalformed
  BY <1>5, <1>9 DEF HandleCommandClosedPort, HandleDataMalformed, history, Typed
<1>10. CASE HandleData
  <2>1. replies' \in Seq(Replies)
    <3>1. PICK reply \in Replies : replies' = Append(replies, reply)
      BY <1>10, ReplyGiven
    <3>2. QED
      BY <3>1, AppendProperties DEF Typed
  <2>2. Tail(mailbox) \in Seq(Messages)
    BY <1>6, <1>10 DEF HandleData
  <2>3. calls' \in Seq(Standings) /\ Len(calls') <= MaxCalls
    BY <1>10, ReplyGiven DEF Typed
  <2>4. QED
    BY <1>10, <2>1, <2>2, <2>3 DEF HandleData, Typed
<1>11. CASE HandleDataUnexpected
  BY <1>6, <1>11 DEF HandleDataUnexpected, Typed, history
<1>12. CASE HandleExitStatus
  BY <1>0, <1>6, <1>12 DEF HandleExitStatus, Typed, history
<1>13. CASE Restart \/ GiveUp \/ RestartExpires
  <2>1. restarts' \in 0..MaxRestarts
    BY <1>13 DEF Restart, GiveUp, RestartExpires, Typed
  <2>2. vm' \in [alive : BOOLEAN, pipe : Seq(Nat), out : Seq(Halves)]
    BY <1>0, <1>13 DEF Restart, GiveUp, RestartExpires, Typed
  <2>3. QED
    BY <1>13, <2>1, <2>2 DEF Restart, GiveUp, RestartExpires, Typed, history
<1>14. CASE VmAnswer
  <2>1. Tail(vm.pipe) \in Seq(Nat) /\ Head(vm.pipe) \in Nat
    BY <1>0, <1>14, HeadTailProperties DEF VmAnswer
  <2>2. vm.out \o Response(Head(vm.pipe)) \in Seq(Halves)
    BY <1>0, <2>1, AnswerPiece
  <2>3. QED
    BY <1>0, <1>14, <2>1, <2>2 DEF VmAnswer, Typed, history
<1>15. CASE VmSkip
  <2>1. Tail(vm.pipe) \in Seq(Nat)
    BY <1>0, <1>15, HeadTailProperties DEF VmSkip
  <2>2. QED
    BY <1>0, <1>15, <2>1 DEF VmSkip, Typed, history
<1>16. CASE VmExit
  <2>1. vm' \in [alive : BOOLEAN, pipe : Seq(Nat), out : Seq(Halves)]
    BY <1>0, <1>16, EmptySeq DEF VmExit, Typed
  <2>2. exits' \in 0..MaxExits
    BY <1>16 DEF VmExit, Typed
  <2>3. QED
    BY <1>16, <2>1, <2>2 DEF VmExit, Typed, history
<1>17. CASE PortData
  <2>1. PICK k \in 1..Len(vm.out) :
          /\ mailbox' = Append(mailbox, [type |-> "data", data |-> SubSeq(vm.out, 1, k)])
          /\ vm' = [vm EXCEPT !.out = SubSeq(@, k + 1, Len(@))]
    BY <1>17 DEF PortData
  <2>2. SubSeq(vm.out, 1, k) \in Seq(Halves) /\ SubSeq(vm.out, k + 1, Len(vm.out)) \in Seq(Halves)
    BY <1>0, CutPiece
  <2>3. mailbox' \in Seq(Messages)
    BY <2>1, <2>2, AppendProperties DEF Messages, Typed
  <2>4. vm' \in [alive : BOOLEAN, pipe : Seq(Nat), out : Seq(Halves)]
    BY <1>0, <2>1, <2>2 DEF Typed
  <2>5. QED
    BY <1>17, <2>3, <2>4 DEF PortData, Typed, history
<1>18. CASE PortExit
  <2>1. mailbox' \in Seq(Messages)
    BY <1>18, AppendProperties DEF PortExit, Messages, Typed
  <2>2. QED
    BY <1>18, <2>1 DEF PortExit, Typed, history
<1>19. CASE UNCHANGED vars
  BY <1>19 DEF vars, serverVars, history, Typed
<1>20. QED
  BY <1>2, <1>3, <1>4, <1>7, <1>8, <1>9, <1>10, <1>11, <1>12, <1>13, <1>14, <1>15, <1>16,
     <1>17, <1>18, <1>19 DEF Next, Handle, Supervise, Environment

-----------------------------------------------------------------------------
(* The mailbox as a queue *)

Has(mb, m) == \E i \in 1..Len(mb) : mb[i] = m

\* Taking the oldest message leaves all others.
LEMMA HasTail ==
  ASSUME NEW mb \in Seq(Messages), mb # <<>>
  PROVE  \A m : Has(mb, m) <=> m = Head(mb) \/ Has(Tail(mb), m)
<1>1. /\ Len(mb) \in Nat /\ Len(mb) > 0 /\ Head(mb) = mb[1]
      /\ Len(Tail(mb)) = Len(mb) - 1
      /\ \A i \in 1..Len(Tail(mb)) : Tail(mb)[i] = mb[i + 1]
  BY HeadTailProperties, LenProperties, EmptySeq
<1>2. ASSUME NEW m, NEW i \in 1..Len(mb), mb[i] = m
      PROVE  m = Head(mb) \/ Has(Tail(mb), m)
  <2>1. i = 1 \/ (i - 1 \in 1..Len(Tail(mb)) /\ Tail(mb)[i - 1] = m)
    BY <1>1, <1>2
  <2>2. QED
    BY <1>1, <1>2, <2>1 DEF Has
<1>3. ASSUME NEW m, NEW i \in 1..Len(Tail(mb)), Tail(mb)[i] = m
      PROVE  Has(mb, m)
  <2>1. i + 1 \in 1..Len(mb) /\ mb[i + 1] = m
    BY <1>1, <1>3
  <2>2. QED
    BY <2>1 DEF Has
<1>4. \A m : m = Head(mb) => Has(mb, m)
  BY <1>1 DEF Has
<1>5. QED
  BY <1>2, <1>3, <1>4 DEF Has

\* A message that joins is there, with all that were.
LEMMA HasAppend ==
  ASSUME NEW mb \in Seq(Messages), NEW x \in Messages
  PROVE  \A m : Has(Append(mb, x), m) <=> Has(mb, m) \/ m = x
<1>1. /\ Len(mb) \in Nat
      /\ Len(Append(mb, x)) = Len(mb) + 1
      /\ \A i \in 1..Len(mb) : Append(mb, x)[i] = mb[i]
      /\ Append(mb, x)[Len(mb) + 1] = x
  BY AppendProperties, LenProperties
<1>2. QED
  BY <1>1 DEF Has

CommandOf(n) == [type |-> "command", from |-> n]
Notice == [type |-> "exit_status"]

\* What the properties say of the mailbox.
LEMMA QueuedHas ==
  ASSUME Typed
  PROVE  /\ \A n : Queued(n) <=> Has(mailbox, CommandOf(n))
         /\ (\E i \in DOMAIN mailbox : mailbox[i].type = "exit_status") <=> Has(mailbox, Notice)
<1>1. DOMAIN mailbox = 1..Len(mailbox) /\ \A i \in 1..Len(mailbox) : mailbox[i] \in Messages
  BY ElementOfSeq, LenProperties DEF Typed
<1>2. \A m \in Messages : m.type = "exit_status" <=> m = Notice
  BY DEF Messages, Notice
<1>3. QED
  BY <1>1, <1>2 DEF Queued, Has, CommandOf

\* What the server takes, by type, and what it has left.
LEMMA Taken ==
  ASSUME Typed, NEW type, Message(type)
  PROVE  /\ server = "up" /\ mailbox # <<>>
         /\ Head(mailbox) \in Messages /\ Tail(mailbox) \in Seq(Messages)
         /\ Head(mailbox).type = type
         /\ type = "command" =>
              /\ Head(mailbox).from \in Nat /\ Head(mailbox).from # 0
              /\ Head(mailbox) = CommandOf(Head(mailbox).from)
         /\ type = "exit_status" => Head(mailbox) = Notice
         /\ type = "data" => Head(mailbox).data \in Seq(Halves)
         /\ type # "command" => \A n : Has(mailbox, CommandOf(n)) <=> Has(Tail(mailbox), CommandOf(n))
         /\ type # "exit_status" => (Has(mailbox, Notice) <=> Has(Tail(mailbox), Notice))
<1>1. /\ server = "up" /\ mailbox # <<>> /\ Head(mailbox).type = type
      /\ Head(mailbox) \in Messages /\ Tail(mailbox) \in Seq(Messages)
  BY OldestMessage DEF Message
<1>2. /\ type = "command" =>
           /\ Head(mailbox).from \in Nat /\ Head(mailbox).from # 0
           /\ Head(mailbox) = CommandOf(Head(mailbox).from)
      /\ type = "exit_status" => Head(mailbox) = Notice
      /\ type = "data" => Head(mailbox).data \in Seq(Halves)
  BY <1>1 DEF Messages, CommandOf, Notice
<1>3. \A m : Has(mailbox, m) <=> m = Head(mailbox) \/ Has(Tail(mailbox), m)
  BY <1>1, HasTail DEF Typed
<1>4. /\ type # "command" => \A n : CommandOf(n) # Head(mailbox)
      /\ type # "exit_status" => Notice # Head(mailbox)
  BY <1>1 DEF CommandOf, Notice
<1>5. QED
  BY <1>1, <1>2, <1>3, <1>4

-----------------------------------------------------------------------------
(* A server that is not up *)

Down == server # "up" => /\ mailbox = <<>>
                         /\ from = 0
                         /\ port = "closed"
                         /\ Waiting = {}

\* Of a server that crashes nobody waits for a reply any more.
LEMMA CrashEmpties ==
  ASSUME Typed, Crash
  PROVE  Waiting' = {} /\ Down'
<1>1. DOMAIN calls = 1..Len(calls) /\ DOMAIN calls' = 1..Len(calls)
  BY CrashTyped, LenProperties DEF Typed
<1>2. Waiting' = {}
  BY <1>1, CrashTyped DEF Waiting
<1>3. QED
  BY <1>2 DEF Crash, Down

\* Every step keeps a server that is not up empty.
LEMMA DownStep == Typed /\ Down /\ [Next]_vars => Down'
<1> SUFFICES ASSUME Typed, Down, [Next]_vars PROVE Down'
  OBVIOUS
<1>1. CASE Command
  BY <1>1 DEF Command, Down
<1>2. CASE CommandNoProc
  <2>1. /\ Len(calls) \in Nat /\ DOMAIN calls = 1..Len(calls)
        /\ calls' \in Seq(Standings)
        /\ Len(calls') = Len(calls) + 1
        /\ DOMAIN calls' = 1..Len(calls')
        /\ \A n \in 1..Len(calls) : calls'[n] = calls[n]
        /\ calls'[Len(calls) + 1] = "exit"
    BY <1>2, AppendProperties, LenProperties DEF CommandNoProc, Typed, Standings
  <2>2. \A n \in 1..Len(calls') : n \in 1..Len(calls) \/ n = Len(calls) + 1
    BY <2>1
  <2>3. Waiting' = {}
    BY <1>2, <2>1, <2>2 DEF CommandNoProc, Down, Waiting
  <2>4. QED
    BY <1>2, <2>3 DEF CommandNoProc, Down, serverVars
<1>3. CASE Timeout
  BY <1>3 DEF Timeout, Down, serverVars
<1>4. CASE HandleCommandDegraded \/ HandleCommandClosedPort \/ HandleDataMalformed
  BY <1>4, CrashEmpties DEF HandleCommandDegraded, HandleCommandClosedPort, HandleDataMalformed
<1>5. CASE HandleCommand \/ HandleData \/ HandleDataUnexpected \/ HandleExitStatus
  BY <1>5 DEF HandleCommand, HandleData, HandleDataUnexpected, HandleExitStatus, Message, Down
<1>6. CASE Restart \/ GiveUp \/ RestartExpires
  BY <1>6 DEF Restart, GiveUp, RestartExpires, Down, Waiting
<1>7. CASE VmAnswer \/ VmSkip \/ VmExit
  BY <1>7 DEF VmAnswer, VmSkip, VmExit, Down, Waiting
<1>8. CASE PortData \/ PortExit
  BY <1>8 DEF PortData, PortExit, Down
<1>9. CASE UNCHANGED vars
  BY <1>9 DEF vars, serverVars, Down, Waiting
<1>10. QED
  BY <1>1, <1>2, <1>3, <1>4, <1>5, <1>6, <1>7, <1>8, <1>9
     DEF Next, Handle, Supervise, Environment

-----------------------------------------------------------------------------
(* The notice of a closed port *)

Told == server = "up" /\ port = "closed" => Has(mailbox, Notice)

\* What joins the mailbox.
LEMMA Joined ==
  ASSUME Typed
  PROVE  /\ CommandOf(Len(calls) + 1) \in Messages
         /\ Notice \in Messages
         /\ \A s \in Seq(Halves) : /\ [type |-> "data", data |-> s] \in Messages
                                 /\ [type |-> "data", data |-> s] # Notice
                                 /\ \A n : [type |-> "data", data |-> s] # CommandOf(n)
         /\ \A n : Notice # CommandOf(n)
<1>1. Len(calls) \in Nat
  BY LenProperties DEF Typed
<1>2. QED
  BY <1>1 DEF Messages, CommandOf, Notice

\* Every step keeps the notice while the port is closed.
LEMMA ToldStep == Typed /\ Told /\ [Next]_vars => Told'
<1> SUFFICES ASSUME Typed, Told, [Next]_vars PROVE Told'
  OBVIOUS
<1>1. CASE Command
  <2>1. mailbox' = Append(mailbox, CommandOf(Len(calls) + 1))
    BY <1>1 DEF Command, CommandOf
  <2>2. Has(mailbox, Notice) => Has(mailbox', Notice)
    BY <2>1, Joined, HasAppend DEF Typed
  <2>3. QED
    BY <1>1, <2>2 DEF Command, Told
<1>2. CASE CommandNoProc \/ Timeout
  BY <1>2 DEF CommandNoProc, Timeout, serverVars, Told
<1>3. CASE HandleCommandDegraded \/ HandleCommandClosedPort \/ HandleDataMalformed
  BY <1>3 DEF HandleCommandDegraded, HandleCommandClosedPort, HandleDataMalformed, Crash, Told
<1>4. CASE HandleCommand \/ HandleExitStatus
  BY <1>4 DEF HandleCommand, HandleExitStatus, Told
<1>5. CASE HandleData \/ HandleDataUnexpected
  <2>1. Message("data") /\ mailbox' = Tail(mailbox) /\ UNCHANGED <<server, port>>
    BY <1>5 DEF HandleData, HandleDataUnexpected
  <2>2. Has(mailbox, Notice) => Has(mailbox', Notice)
    BY <2>1, Taken
  <2>3. QED
    BY <2>1, <2>2 DEF Told
<1>6. CASE Restart \/ GiveUp \/ RestartExpires
  BY <1>6 DEF Restart, GiveUp, RestartExpires, Told
<1>7. CASE VmAnswer \/ VmSkip \/ VmExit \/ PortData
  BY <1>7 DEF VmAnswer, VmSkip, VmExit, PortData, Told
<1>8. CASE PortExit
  <2>1. mailbox' = Append(mailbox, Notice)
    BY <1>8 DEF PortExit, Notice
  <2>2. Has(mailbox', Notice)
    BY <2>1, Joined, HasAppend DEF Typed
  <2>3. QED
    BY <2>2 DEF Told
<1>9. CASE UNCHANGED vars
  BY <1>9 DEF vars, serverVars, Told
<1>10. QED
  BY <1>1, <1>2, <1>3, <1>4, <1>5, <1>6, <1>7, <1>8, <1>9
     DEF Next, Handle, Supervise, Environment

-----------------------------------------------------------------------------
(* The numbers of commands *)

\* The numbers in com were sent, and those in mb wait to be, in order.
Numbered(last, mb, com) ==
  /\ \A i \in 1..Len(com) : com[i] \in 1..last
  /\ \A i, j \in 1..Len(com) : i < j => com[i] < com[j]
  /\ \A i \in 1..Len(mb) : mb[i].type = "command" =>
       /\ mb[i].from \in 1..last
       /\ \A j \in 1..Len(com) : com[j] < mb[i].from
  /\ \A i, j \in 1..Len(mb) :
       i < j /\ mb[i].type = "command" /\ mb[j].type = "command" => mb[i].from < mb[j].from

\* The command to reply to was sent last, and has no reply yet.
Asked(number, com, rep) ==
  /\ \A k \in 1..Len(rep) : \E i \in 1..Len(com) : rep[k].to = com[i]
  /\ number # 0 => /\ Len(com) > 0 /\ number = com[Len(com)]
                   /\ \A k \in 1..Len(rep) : rep[k].to < number

Queue == Numbered(Len(calls), mailbox, commanded) /\ Asked(from, commanded, replies)

\* The order of numbers when a message joins or all are gone.
LEMMA NumberedJoin ==
  ASSUME NEW mb \in Seq(Messages), NEW x \in Messages, NEW com \in Seq(Nat), NEW last \in Nat,
         Numbered(last, mb, com)
  PROVE  /\ x.type # "command" => Numbered(last, Append(mb, x), com)
         /\ x = CommandOf(last + 1) => Numbered(last + 1, Append(mb, x), com)
         /\ Numbered(last + 1, mb, com)
         /\ Numbered(last, <<>>, com)
<1>1. /\ Len(mb) \in Nat
      /\ Len(Append(mb, x)) = Len(mb) + 1
      /\ \A i \in 1..Len(mb) : Append(mb, x)[i] = mb[i]
      /\ Append(mb, x)[Len(mb) + 1] = x
      /\ \A i \in 1..(Len(mb) + 1) : i \in 1..Len(mb) \/ i = Len(mb) + 1
      /\ \A i \in 1..Len(mb) : i < Len(mb) + 1 /\ ~(Len(mb) + 1 < i)
  BY AppendProperties, LenProperties
<1>2. /\ Len(com) \in Nat
      /\ \A i \in 1..Len(com) : com[i] \in 1..(last + 1) /\ com[i] < last + 1
      /\ \A i \in 1..Len(mb) : mb[i].type = "command" => mb[i].from \in 1..(last + 1) /\ mb[i].from < last + 1
  BY LenProperties DEF Numbered
<1>3. x.type # "command" => Numbered(last, Append(mb, x), com)
  BY <1>1 DEF Numbered
<1>4. Numbered(last + 1, mb, com)
  BY <1>2 DEF Numbered
<1>5. x = CommandOf(last + 1) => Numbered(last + 1, Append(mb, x), com)
  <2>1. x = CommandOf(last + 1) => x.from = last + 1 /\ x.from \in 1..(last + 1)
    BY DEF CommandOf
  <2>2. QED
    BY <1>1, <1>2, <1>4, <2>1 DEF Numbered
<1>6. Numbered(last, <<>>, com)
  BY DEF Numbered
<1>7. QED
  BY <1>3, <1>4, <1>5, <1>6

\* The order of numbers when the oldest message is taken.
LEMMA NumberedTake ==
  ASSUME NEW mb \in Seq(Messages), mb # <<>>, NEW com \in Seq(Nat), NEW last \in Nat,
         Numbered(last, mb, com)
  PROVE  /\ Numbered(last, Tail(mb), com)
         /\ Head(mb).type = "command" =>
              /\ Head(mb).from \in 1..last
              /\ \A i \in 1..Len(com) : com[i] < Head(mb).from
              /\ Numbered(last, Tail(mb), Append(com, Head(mb).from))
<1>1. /\ Len(mb) \in Nat /\ Len(mb) > 0 /\ Head(mb) = mb[1]
      /\ Len(Tail(mb)) = Len(mb) - 1
      /\ \A i \in 1..Len(Tail(mb)) : Tail(mb)[i] = mb[i + 1]
      /\ \A i \in 1..Len(Tail(mb)) : i + 1 \in 1..Len(mb) /\ 1 < i + 1
      /\ \A i, j \in 1..Len(Tail(mb)) : i < j => i + 1 < j + 1
      /\ 1 \in 1..Len(mb)
  BY HeadTailProperties, LenProperties, EmptySeq
<1>2. Numbered(last, Tail(mb), com)
  BY <1>1 DEF Numbered
<1>3. ASSUME Head(mb).type = "command"
      PROVE  /\ Head(mb).from \in 1..last
             /\ \A i \in 1..Len(com) : com[i] < Head(mb).from
             /\ \A i \in 1..Len(Tail(mb)) :
                  Tail(mb)[i].type = "command" => Head(mb).from < Tail(mb)[i].from
  BY <1>1, <1>3 DEF Numbered
<1>4. ASSUME Head(mb).type = "command"
      PROVE  Numbered(last, Tail(mb), Append(com, Head(mb).from))
  <2> DEFINE n == Head(mb).from
  <2>1. /\ n \in 1..last /\ n \in Nat
        /\ \A i \in 1..Len(com) : com[i] < n
        /\ \A i \in 1..Len(Tail(mb)) : Tail(mb)[i].type = "command" => n < Tail(mb)[i].from
    BY <1>3, <1>4
  <2> HIDE DEF n
  <2>2. /\ Len(com) \in Nat
        /\ Len(Append(com, n)) = Len(com) + 1
        /\ \A i \in 1..Len(com) : Append(com, n)[i] = com[i]
        /\ Append(com, n)[Len(com) + 1] = n
        /\ \A i \in 1..(Len(com) + 1) : i \in 1..Len(com) \/ i = Len(com) + 1
        /\ \A i \in 1..Len(com) : i < Len(com) + 1 /\ ~(Len(com) + 1 < i)
    BY <2>1, AppendProperties, LenProperties
  <2>3. Numbered(last, Tail(mb), Append(com, n))
    BY <1>2, <2>1, <2>2 DEF Numbered
  <2>4. QED
    BY <2>3 DEF n
<1>5. QED
  BY <1>2, <1>3, <1>4

\* Every step keeps the order of numbers.
LEMMA QueueStep == Typed /\ Queue /\ [Next]_vars => Queue'
<1> SUFFICES ASSUME Typed, Queue, [Next]_vars PROVE Queue'
  OBVIOUS
<1>0. /\ Len(calls) \in Nat /\ mailbox \in Seq(Messages) /\ commanded \in Seq(Nat)
      /\ Numbered(Len(calls), mailbox, commanded)
      /\ Asked(from, commanded, replies)
      /\ Asked(0, commanded, replies)
  BY LenProperties DEF Typed, Queue, Asked
<1>1. CASE Command
  <2>1. mailbox' = Append(mailbox, CommandOf(Len(calls) + 1)) /\ Len(calls') = Len(calls) + 1
    BY <1>1, AppendProperties DEF Command, CommandOf, Typed
  <2>2. Numbered(Len(calls) + 1, Append(mailbox, CommandOf(Len(calls) + 1)), commanded)
    BY <1>0, Joined, NumberedJoin
  <2>3. Numbered(Len(calls'), mailbox', commanded)
    BY <2>1, <2>2, Zenon
  <2>4. QED
    BY <1>0, <1>1, <2>3 DEF Command, history, Queue
<1>2. CASE CommandNoProc
  <2>1. Len(calls') = Len(calls) + 1
    BY <1>2, AppendProperties DEF CommandNoProc, Typed, Standings
  <2>2. Numbered(Len(calls) + 1, mailbox, commanded)
    BY <1>0, Joined, NumberedJoin
  <2>3. QED
    BY <1>0, <1>2, <2>1, <2>2 DEF CommandNoProc, serverVars, history, Queue
<1>3. ASSUME Len(calls') = Len(calls), UNCHANGED <<mailbox, from, commanded, replies>>
      PROVE  Queue'
  BY <1>0, <1>3 DEF Queue
<1>4. CASE Timeout
  <2>1. Len(calls') = Len(calls)
    BY <1>0, <1>4, ExceptSeq DEF Timeout, Typed, Standings, Waiting
  <2>2. QED
    BY <1>3, <1>4, <2>1 DEF Timeout, serverVars, history
<1>5. \A m \in Seq(Nat) : Numbered(Len(calls), mailbox, m) => Numbered(Len(calls), <<>>, m)
  BY DEF Numbered
<1>6. CASE HandleCommandClosedPort \/ HandleDataMalformed
  <2>1. Crash /\ UNCHANGED <<commanded, replies>>
    BY <1>6 DEF HandleCommandClosedPort, HandleDataMalformed, history
  <2>2. Len(calls') = Len(calls) /\ mailbox' = <<>> /\ from' = 0
    BY <2>1, CrashTyped DEF Crash
  <2>3. QED
    BY <1>0, <1>5, <2>1, <2>2 DEF Queue
<1>7. ASSUME NEW n, Message("command"), n = Head(mailbox).from, commanded' = Append(commanded, n),
             UNCHANGED replies
      PROVE  /\ Numbered(Len(calls), Tail(mailbox), commanded')
             /\ Asked(n, commanded', replies')
             /\ Asked(0, commanded', replies')
  <2>1. mailbox # <<>> /\ Head(mailbox).type = "command"
    BY <1>7 DEF Message
  <2>2. /\ Numbered(Len(calls), Tail(mailbox), Append(commanded, Head(mailbox).from))
        /\ Head(mailbox).from \in 1..Len(calls)
        /\ \A i \in 1..Len(commanded) : commanded[i] < Head(mailbox).from
    BY <1>0, <2>1, NumberedTake
  <2>3. Numbered(Len(calls), Tail(mailbox), commanded')
    BY <1>7, <2>2
  <2>4. n \in Nat /\ \A i \in 1..Len(commanded) : commanded[i] < n
    BY <1>0, <1>7, <2>2
  <2>5. /\ Len(commanded) \in Nat
        /\ Len(commanded') = Len(commanded) + 1
        /\ \A i \in 1..Len(commanded) : commanded'[i] = commanded[i] /\ i \in 1..Len(commanded')
        /\ commanded'[Len(commanded')] = n
    BY <1>0, <1>7, <2>4, AppendProperties, LenProperties
  <2>6. \A k \in 1..Len(replies) :
          /\ \E i \in 1..Len(commanded') : replies[k].to = commanded'[i]
          /\ replies[k].to < n
    BY <1>0, <2>4, <2>5 DEF Asked
  <2>7. QED
    BY <1>7, <2>3, <2>5, <2>6 DEF Asked
<1>8. CASE HandleCommand
  BY <1>7, <1>8 DEF HandleCommand, PortCommand, Queue
<1>9. CASE HandleCommandDegraded
  <2>1. /\ Numbered(Len(calls), Tail(mailbox), commanded')
        /\ Asked(0, commanded', replies')
    BY <1>7, <1>9 DEF HandleCommandDegraded
  <2>2. Numbered(Len(calls), <<>>, commanded')
    BY <2>1 DEF Numbered
  <2>3. Len(calls') = Len(calls) /\ mailbox' = <<>> /\ from' = 0
    BY <1>9, CrashTyped DEF HandleCommandDegraded, Crash
  <2>4. QED
    BY <2>1, <2>2, <2>3 DEF Queue
<1>10. ASSUME NEW type, Message(type)
       PROVE  Numbered(Len(calls), Tail(mailbox), commanded)
  BY <1>0, <1>10, NumberedTake DEF Message
<1>11. CASE HandleData
  <2>1. Message("data") /\ mailbox' = Tail(mailbox) /\ from' = 0 /\ commanded' = commanded
    BY <1>11 DEF HandleData
  <2>2. PICK n \in 1..Len(calls) :
          /\ [to |-> from, of |-> n] \in Replies
          /\ replies' = Append(replies, [to |-> from, of |-> n])
    BY <1>11, ReplyGiven
  <2>3. Len(calls') = Len(calls) /\ from # 0
    BY <1>11, ReplyGiven
  <2>4. Len(commanded) \in 1..Len(commanded) /\ from = commanded[Len(commanded)]
    BY <1>0, <2>3, LenProperties DEF Asked
  <2>5. \A k \in 1..Len(replies') :
          (k \in 1..Len(replies) /\ replies'[k] = replies[k]) \/ replies'[k].to = from
    <3>1. /\ Len(replies) \in Nat
          /\ Len(replies') = Len(replies) + 1
          /\ \A k \in 1..Len(replies) : replies'[k] = replies[k]
          /\ replies'[Len(replies) + 1] = [to |-> from, of |-> n]
      BY <2>2, AppendProperties, LenProperties DEF Typed
    <3>2. \A k \in 1..(Len(replies) + 1) : k \in 1..Len(replies) \/ k = Len(replies) + 1
      BY <3>1
    <3>3. QED
      BY <3>1, <3>2
  <2>6. Asked(0, commanded, replies')
    BY <1>0, <2>4, <2>5 DEF Asked
  <2>7. Numbered(Len(calls), Tail(mailbox), commanded)
    BY <1>10, <2>1
  <2>8. QED
    BY <2>1, <2>3, <2>6, <2>7 DEF Queue
<1>12. CASE HandleDataUnexpected
  BY <1>0, <1>10, <1>12 DEF HandleDataUnexpected, history, Queue
<1>13. CASE HandleExitStatus
  BY <1>0, <1>10, <1>13 DEF HandleExitStatus, history, Queue
<1>14. CASE Restart \/ GiveUp \/ RestartExpires
  BY <1>3, <1>14 DEF Restart, GiveUp, RestartExpires, history
<1>15. CASE VmAnswer \/ VmSkip \/ VmExit
  BY <1>3, <1>15 DEF VmAnswer, VmSkip, VmExit, history
<1>16. CASE PortData
  <2>1. PICK k \in 1..Len(vm.out) :
          mailbox' = Append(mailbox, [type |-> "data", data |-> SubSeq(vm.out, 1, k)])
    BY <1>16 DEF PortData
  <2> DEFINE x == [type |-> "data", data |-> SubSeq(vm.out, 1, k)]
  <2>2. x \in Messages /\ x.type # "command"
    BY CutPiece, Joined DEF Typed
  <2> HIDE DEF x
  <2>3. Numbered(Len(calls), Append(mailbox, x), commanded)
    BY <1>0, <2>2, NumberedJoin
  <2>4. QED
    BY <1>0, <1>16, <2>1, <2>3 DEF PortData, history, Queue, x
<1>17. CASE PortExit
  <2>1. mailbox' = Append(mailbox, Notice) /\ Notice.type # "command"
    BY <1>17 DEF PortExit, Notice
  <2>2. Numbered(Len(calls), Append(mailbox, Notice), commanded)
    BY <1>0, <2>1, Joined, NumberedJoin
  <2>3. QED
    BY <1>0, <1>17, <2>1, <2>2 DEF PortExit, history, Queue
<1>18. CASE UNCHANGED vars
  BY <1>3, <1>18 DEF vars, serverVars, history
<1>19. QED
  BY <1>1, <1>2, <1>4, <1>6, <1>8, <1>9, <1>11, <1>12, <1>13, <1>14, <1>15, <1>16, <1>17, <1>18
     DEF Next, Handle, Supervise, Environment

-----------------------------------------------------------------------------
(* Who is forgotten *)

\* A caller that waits is queued, or is replied to next, or has a reason not to be.
Explained(n) == \/ Has(mailbox, CommandOf(n))
                \/ from = n
                \/ \E m \in ToSet(commanded) : m > n
                \/ context = "missing"

NobodyForgotten == \A n \in Waiting : Explained(n)

\* No step forgets a caller without a reason.
LEMMA ForgottenStep ==
  Typed /\ Down /\ Queue /\ NobodyForgotten /\ [Next]_vars => NobodyForgotten'
<1> SUFFICES ASSUME Typed, Down, Queue, NobodyForgotten, [Next]_vars PROVE NobodyForgotten'
  OBVIOUS
<1>0. /\ Len(calls) \in Nat /\ DOMAIN calls = 1..Len(calls)
      /\ mailbox \in Seq(Messages)
      /\ \A n \in Waiting : n \in Nat /\ n # 0
  BY LenProperties DEF Typed, Waiting
<1>1. ASSUME Waiting' \subseteq Waiting,
             UNCHANGED <<from, commanded, context>>,
             \A n : Has(mailbox, CommandOf(n)) => Has(mailbox', CommandOf(n))
      PROVE  NobodyForgotten'
  BY <1>1 DEF NobodyForgotten, Explained
<1>2. CASE Command
  <2>1. /\ mailbox' = Append(mailbox, CommandOf(Len(calls) + 1))
        /\ UNCHANGED <<from, commanded, context>>
    BY <1>2 DEF Command, CommandOf, history
  <2>2. /\ DOMAIN calls' = 1..(Len(calls) + 1)
        /\ \A n \in 1..Len(calls) : calls'[n] = calls[n]
    BY <1>0, <1>2, AppendProperties, LenProperties DEF Command, Typed, Standings
  <2>3. \A n \in Waiting' : n \in Waiting \/ n = Len(calls) + 1
    BY <1>0, <2>2 DEF Waiting
  <2>4. /\ \A n : Has(mailbox, CommandOf(n)) => Has(mailbox', CommandOf(n))
        /\ Has(mailbox', CommandOf(Len(calls) + 1))
    BY <1>0, <2>1, Joined, HasAppend
  <2>5. QED
    BY <2>1, <2>3, <2>4 DEF NobodyForgotten, Explained
<1>3. CASE CommandNoProc
  BY <1>3, DownStep DEF CommandNoProc, serverVars, Down, NobodyForgotten
<1>4. CASE Timeout
  <2>1. PICK n \in Waiting : calls' = [calls EXCEPT ![n] = "timeout"]
    BY <1>4 DEF Timeout
  <2>2. DOMAIN calls' = DOMAIN calls /\ \A m \in DOMAIN calls : calls'[m] = "waiting" => calls[m] = "waiting"
    BY <2>1 DEF Waiting
  <2>3. QED
    BY <1>1, <1>4, <2>2 DEF Timeout, Waiting, serverVars, history
<1>5. CASE HandleCommandDegraded \/ HandleCommandClosedPort \/ HandleDataMalformed
  <2>1. Waiting' = {}
    BY <1>5, CrashEmpties DEF HandleCommandDegraded, HandleCommandClosedPort, HandleDataMalformed
  <2>2. QED
    BY <2>1 DEF NobodyForgotten
<1>6. CASE HandleCommand
  <2> DEFINE h == Head(mailbox).from
  <2>1. /\ Message("command") /\ context # "missing"
        /\ from' = h /\ commanded' = Append(commanded, h)
        /\ mailbox' = Tail(mailbox)
        /\ Waiting' = Waiting
    BY <1>6 DEF HandleCommand, PortCommand, Waiting
  <2>2. /\ mailbox # <<>>
        /\ Head(mailbox) = CommandOf(h) /\ h \in Nat
        /\ \A i \in 1..Len(commanded) : commanded[i] < h
    BY <1>0, <2>1, Taken, NumberedTake DEF Queue, Typed
  <2> HIDE DEF h
  <2>3. ToSet(commanded') = ToSet(commanded) \cup {h}
    <3>1. /\ Len(commanded) \in Nat
          /\ DOMAIN commanded = 1..Len(commanded)
          /\ DOMAIN commanded' = 1..(Len(commanded) + 1)
          /\ \A i \in 1..Len(commanded) : commanded'[i] = commanded[i]
          /\ commanded'[Len(commanded) + 1] = h
      BY <2>1, <2>2, AppendProperties, LenProperties DEF Typed
    <3>2. QED
      BY <3>1 DEF ToSet
  <2>4. from # 0 => from < h
    BY <2>2, LenProperties DEF Queue, Asked, Typed
  <2>5. ASSUME NEW n \in Waiting PROVE Explained(n)'
    <3>1. CASE Has(mailbox, CommandOf(n))
      <4>1. CommandOf(n) = CommandOf(h) \/ Has(Tail(mailbox), CommandOf(n))
        BY <1>0, <2>2, <3>1, HasTail
      <4>2. CommandOf(n).from = n /\ CommandOf(h).from = h
        BY DEF CommandOf
      <4>3. n = h \/ Has(Tail(mailbox), CommandOf(n))
        BY <4>1, <4>2
      <4>4. QED
        BY <2>1, <4>3 DEF Explained
    <3>2. CASE from = n
      BY <1>0, <2>3, <2>4, <2>2, <3>2 DEF Explained
    <3>3. CASE \E m \in ToSet(commanded) : m > n
      BY <2>3, <3>3 DEF Explained
    <3>4. QED
      BY <2>1, <3>1, <3>2, <3>3 DEF NobodyForgotten, Explained
  <2>6. QED
    BY <2>1, <2>5 DEF NobodyForgotten
<1>7. ASSUME NEW type, type # "command", Message(type), mailbox' = Tail(mailbox)
      PROVE  \A n : Has(mailbox, CommandOf(n)) => Has(mailbox', CommandOf(n))
  BY <1>7, Taken
<1>8. CASE HandleData
  <2>1. /\ Message("data") /\ mailbox' = Tail(mailbox) /\ context = "sent"
        /\ from' = 0 /\ commanded' = commanded
    BY <1>8 DEF HandleData
  <2>2. \A n \in Waiting' : n \in Waiting /\ n # from
    <3>1. DOMAIN calls' = 1..Len(calls)
      BY <1>8, ReplyGiven, LenProperties
    <3>2. QED
      BY <1>0, <1>8, <3>1, ReplyGiven DEF Waiting
  <2>3. \A n : Has(mailbox, CommandOf(n)) => Has(mailbox', CommandOf(n))
    BY <1>7, <2>1
  <2>4. QED
    BY <2>1, <2>2, <2>3 DEF NobodyForgotten, Explained
<1>9. CASE HandleDataUnexpected
  <2>1. Waiting' = Waiting /\ UNCHANGED <<from, commanded, context>>
    BY <1>9 DEF HandleDataUnexpected, Waiting, history
  <2>2. QED
    BY <1>1, <1>7, <1>9, <2>1 DEF HandleDataUnexpected
<1>10. CASE HandleExitStatus
  BY <1>10 DEF HandleExitStatus, NobodyForgotten, Explained
<1>11. CASE Restart \/ GiveUp \/ RestartExpires
  BY <1>1, <1>11 DEF Restart, GiveUp, RestartExpires, Waiting, history
<1>12. CASE VmAnswer \/ VmSkip \/ VmExit
  BY <1>1, <1>12 DEF VmAnswer, VmSkip, VmExit, Waiting, history
<1>13. CASE PortData
  <2>1. PICK k \in 1..Len(vm.out) :
          mailbox' = Append(mailbox, [type |-> "data", data |-> SubSeq(vm.out, 1, k)])
    BY <1>13 DEF PortData
  <2>2. [type |-> "data", data |-> SubSeq(vm.out, 1, k)] \in Messages
    BY CutPiece, Joined DEF Typed
  <2>3. \A n : Has(mailbox, CommandOf(n)) => Has(mailbox', CommandOf(n))
    BY <1>0, <2>1, <2>2, HasAppend
  <2>4. QED
    BY <1>1, <1>13, <2>3 DEF PortData, Waiting, history
<1>14. CASE PortExit
  <2>1. \A n : Has(mailbox, CommandOf(n)) => Has(mailbox', CommandOf(n))
    BY <1>0, <1>14, Joined, HasAppend DEF PortExit, Notice
  <2>2. QED
    BY <1>1, <1>14, <2>1 DEF PortExit, Waiting, history
<1>15. CASE UNCHANGED vars
  BY <1>1, <1>15 DEF vars, serverVars, history, Waiting
<1>16. QED
  BY <1>2, <1>3, <1>4, <1>5, <1>6, <1>8, <1>9, <1>10, <1>11, <1>12, <1>13, <1>14, <1>15
     DEF Next, Handle, Supervise, Environment

-----------------------------------------------------------------------------
(* The stream of responses *)

\* A piece lies between the responses replied with and those not yet written,
\* and is of commands that were sent.
Placed(s, pipe, com, rep) ==
  /\ Rising(s)
  /\ Within(s, com)
  /\ \A p \in 1..Len(pipe) : Below(s, pipe[p])
  /\ \A r \in rep : Above(s, r)

\* The data in the mailbox is ahead of what the port has to read, in order.
Pieces(mb, out, pipe, com, rep) ==
  /\ \A i \in 1..Len(mb) : /\ Placed(Piece(mb[i]), pipe, com, rep)
                           /\ Precedes(Piece(mb[i]), out)
  /\ \A i, j \in 1..Len(mb) : i < j => Precedes(Piece(mb[i]), Piece(mb[j]))

\* The packets in the pipe are of commands sent after those replied with.
Pending(pipe, com, rep) ==
  /\ rep \subseteq com
  /\ \A p, q \in 1..Len(pipe) : p < q => pipe[p] < pipe[q]
  /\ \A p \in 1..Len(pipe) : pipe[p] \in com /\ \A r \in rep : r < pipe[p]

StreamOf(mb, out, pipe, com, rep) ==
  /\ Pieces(mb, out, pipe, com, rep)
  /\ Placed(out, pipe, com, rep)
  /\ Pending(pipe, com, rep)

\* Nothing is where there is nothing.
LEMMA PlacedNothing ==
  ASSUME NEW pipe, NEW com, NEW rep
  PROVE  Placed(<<>>, pipe, com, rep)
BY EmptyPiece DEF Placed

\* The messages of the mailbox, one by one.
LEMMA MailboxPieces ==
  ASSUME NEW mb \in Seq(Messages)
  PROVE  /\ Len(mb) \in Nat
         /\ \A i \in 1..Len(mb) : mb[i] \in Messages /\ Piece(mb[i]) \in Seq(Halves)
BY ElementOfSeq, LenProperties, MessageCases

\* The oldest message is taken.
LEMMA StreamTake ==
  ASSUME NEW mb \in Seq(Messages), mb # <<>>, NEW out, NEW pipe, NEW com, NEW rep,
         StreamOf(mb, out, pipe, com, rep)
  PROVE  StreamOf(Tail(mb), out, pipe, com, rep)
<1>1. /\ \A i \in 1..Len(Tail(mb)) : i + 1 \in 1..Len(mb) /\ Tail(mb)[i] = mb[i + 1]
      /\ \A i, j \in 1..Len(Tail(mb)) : i < j => i + 1 < j + 1
  BY HeadTailProperties, LenProperties
<1>2. QED
  BY <1>1 DEF StreamOf, Pieces

\* A message without data joins.
LEMMA StreamJoin ==
  ASSUME NEW mb \in Seq(Messages), NEW x \in Messages, x.type # "data",
         NEW out, NEW pipe, NEW com, NEW rep,
         StreamOf(mb, out, pipe, com, rep)
  PROVE  StreamOf(Append(mb, x), out, pipe, com, rep)
<1>1. /\ Len(mb) \in Nat
      /\ \A i \in 1..Len(Append(mb, x)) :
           \/ i \in 1..Len(mb) /\ Append(mb, x)[i] = mb[i]
           \/ Append(mb, x)[i] = x /\ \A j \in 1..Len(mb) : ~(i < j)
  <2>1. /\ Len(mb) \in Nat
        /\ Len(Append(mb, x)) = Len(mb) + 1
        /\ \A i \in 1..Len(mb) : Append(mb, x)[i] = mb[i]
        /\ Append(mb, x)[Len(mb) + 1] = x
        /\ \A i \in 1..(Len(mb) + 1) : i \in 1..Len(mb) \/ i = Len(mb) + 1
        /\ \A j \in 1..Len(mb) : ~(Len(mb) + 1 < j)
    BY AppendProperties, LenProperties
  <2>2. QED
    BY <2>1
<1>2. Piece(x) = <<>>
  BY DEF Piece
<1>3. /\ Placed(Piece(x), pipe, com, rep) /\ Precedes(Piece(x), out)
      /\ \A s : Precedes(s, Piece(x)) /\ Precedes(Piece(x), s)
  BY <1>2, PlacedNothing, EmptyPiece
<1>4. Pieces(Append(mb, x), out, pipe, com, rep)
  BY <1>1, <1>3 DEF StreamOf, Pieces
<1>5. QED
  BY <1>4 DEF StreamOf

\* The VM has gone, with its packets or with what it wrote as well.
LEMMA StreamGone ==
  ASSUME NEW mb, NEW out, NEW pipe, NEW com, NEW rep, StreamOf(mb, out, pipe, com, rep)
  PROVE  /\ StreamOf(mb, out, <<>>, com, rep)
         /\ StreamOf(mb, <<>>, <<>>, com, rep)
         /\ StreamOf(<<>>, <<>>, <<>>, com, rep)
<1>1. /\ \A s : Placed(s, pipe, com, rep) => Placed(s, <<>>, com, rep)
      /\ Pending(<<>>, com, rep)
      /\ Placed(<<>>, <<>>, com, rep)
      /\ \A s : Precedes(s, <<>>)
  BY PlacedNothing, EmptyPiece DEF Placed, Pending, StreamOf
<1>2. QED
  BY <1>1 DEF StreamOf, Pieces

\* A command is sent; its packet may be lost on a VM that has died.
LEMMA StreamSend ==
  ASSUME NEW mb \in Seq(Messages), NEW out \in Seq(Halves), NEW pipe \in Seq(Nat),
         NEW com \in SUBSET Nat, NEW rep, NEW n \in Nat, \A c \in com : c < n,
         StreamOf(mb, out, pipe, com, rep)
  PROVE  /\ StreamOf(mb, out, Append(pipe, n), com \cup {n}, rep)
         /\ StreamOf(mb, out, pipe, com \cup {n}, rep)
<1>1. /\ Len(pipe) \in Nat
      /\ \A p \in 1..Len(Append(pipe, n)) :
           \/ p \in 1..Len(pipe) /\ Append(pipe, n)[p] = pipe[p]
           \/ Append(pipe, n)[p] = n /\ \A q \in 1..Len(pipe) : ~(p < q)
      /\ \A p, q \in 1..Len(Append(pipe, n)) :
           p < q => p \in 1..Len(pipe) /\ Append(pipe, n)[p] = pipe[p]
  <2>1. /\ Len(pipe) \in Nat
        /\ Len(Append(pipe, n)) = Len(pipe) + 1
        /\ \A i \in 1..Len(pipe) : Append(pipe, n)[i] = pipe[i]
        /\ Append(pipe, n)[Len(pipe) + 1] = n
    BY AppendProperties, LenProperties
  <2>2. /\ \A i \in 1..(Len(pipe) + 1) : i \in 1..Len(pipe) \/ i = Len(pipe) + 1
        /\ \A j \in 1..Len(pipe) : ~(Len(pipe) + 1 < j)
        /\ \A i, j \in 1..(Len(pipe) + 1) : i < j => i \in 1..Len(pipe)
    BY <2>1
  <2>3. QED
    BY <2>1, <2>2
<1>2. \A s : Placed(s, pipe, com, rep) =>
        /\ Below(s, n)
        /\ Within(s, com \cup {n})
        /\ Placed(s, pipe, com \cup {n}, rep)
        /\ Placed(s, Append(pipe, n), com \cup {n}, rep)
  <2>1. \A s : Within(s, com) => Below(s, n) /\ Within(s, com \cup {n})
    BY DEF Within, Below
  <2>2. QED
    BY <1>1, <2>1 DEF Placed
<1>3. Pending(pipe, com \cup {n}, rep) /\ Pending(Append(pipe, n), com \cup {n}, rep)
  <2>1. Pending(pipe, com \cup {n}, rep)
    BY DEF StreamOf, Pending
  <2>2. /\ \A p \in 1..Len(pipe) : pipe[p] < n
        /\ \A r \in rep : r < n
    BY DEF StreamOf, Pending
  <2>3. QED
    BY <1>1, <2>1, <2>2 DEF Pending
<1>4. QED
  BY <1>2, <1>3 DEF StreamOf, Pieces

\* The VM takes the oldest packet, and may answer it.
LEMMA StreamAct ==
  ASSUME NEW mb \in Seq(Messages), NEW out \in Seq(Halves), NEW pipe \in Seq(Nat), pipe # <<>>,
         NEW com \in SUBSET Nat, NEW rep \in SUBSET Nat,
         StreamOf(mb, out, pipe, com, rep)
  PROVE  /\ StreamOf(mb, out, Tail(pipe), com, rep)
         /\ StreamOf(mb, out \o Response(Head(pipe)), Tail(pipe), com, rep)
<1> DEFINE n == Head(pipe)
           rest == Tail(pipe)
           more == out \o Response(n)
<1>1. /\ n \in Nat /\ n \in com /\ \A r \in rep : r < n
      /\ \A p \in 1..Len(rest) : n < rest[p] /\ rest[p] \in Nat
      /\ \A s : Placed(s, pipe, com, rep) => Below(s, n)
      /\ \A s : Placed(s, pipe, com, rep) => Placed(s, rest, com, rep)
      /\ Pending(rest, com, rep)
  <2>1. /\ Len(pipe) \in Nat /\ 1 \in 1..Len(pipe) /\ n = pipe[1] /\ n \in Nat
        /\ \A p \in 1..Len(rest) :
             rest[p] = pipe[p + 1] /\ p + 1 \in 1..Len(pipe) /\ 1 < p + 1 /\ pipe[p + 1] \in Nat
        /\ \A p, q \in 1..Len(rest) : p < q => p + 1 < q + 1
    BY HeadTailProperties, LenProperties, EmptySeq, ElementOfSeq
  <2> HIDE DEF n, rest
  <2>2. n \in com /\ \A r \in rep : r < n
    BY <2>1 DEF StreamOf, Pending
  <2>3. \A p \in 1..Len(rest) : n < rest[p] /\ rest[p] \in Nat
    BY <2>1 DEF StreamOf, Pending
  <2>4. \A s : Placed(s, pipe, com, rep) => Below(s, n) /\ Placed(s, rest, com, rep)
    BY <2>1 DEF Placed
  <2>5. Pending(rest, com, rep)
    BY <2>1 DEF StreamOf, Pending
  <2>6. QED
    BY <2>1, <2>2, <2>3, <2>4, <2>5
<1> HIDE DEF n, rest
<1>2. StreamOf(mb, out, rest, com, rep)
  BY <1>1 DEF StreamOf, Pieces
<1>3. /\ Rising(out) /\ Below(out, n) => Rising(more)
      /\ \A d \in Seq(Halves) : Precedes(d, out) /\ Below(d, n) => Precedes(d, more)
      /\ \A m \in Nat : Below(out, m) /\ n < m => Below(more, m)
      /\ \A m \in Nat : Above(out, m) /\ m < n => Above(more, m)
      /\ Within(out, com) /\ n \in com => Within(more, com)
  BY <1>1, AnswerPiece
<1> HIDE DEF more
<1>4. Placed(more, rest, com, rep)
  <2>1. Below(out, n) /\ Placed(out, rest, com, rep)
    BY <1>1 DEF StreamOf
  <2>2. QED
    BY <1>1, <1>3, <2>1 DEF Placed
<1>5. Pieces(mb, more, rest, com, rep)
  BY <1>1, <1>2, <1>3, MailboxPieces DEF StreamOf, Pieces
<1>6. StreamOf(mb, more, rest, com, rep)
  BY <1>1, <1>4, <1>5 DEF StreamOf
<1>7. QED
  BY <1>2, <1>6 DEF n, rest, more

\* The port sends a part of what the VM wrote.
LEMMA StreamRead ==
  ASSUME NEW mb \in Seq(Messages), NEW out \in Seq(Halves), NEW k \in 1..Len(out),
         NEW pipe, NEW com, NEW rep,
         StreamOf(mb, out, pipe, com, rep)
  PROVE  StreamOf(Append(mb, [type |-> "data", data |-> SubSeq(out, 1, k)]),
                  SubSeq(out, k + 1, Len(out)), pipe, com, rep)
<1> DEFINE first == SubSeq(out, 1, k)
           rest == SubSeq(out, k + 1, Len(out))
           x == [type |-> "data", data |-> first]
<1>1. /\ first \in Seq(Halves)
      /\ Rising(out) => Rising(first) /\ Rising(rest) /\ Precedes(first, rest)
      /\ \A d : Precedes(d, out) => Precedes(d, first) /\ Precedes(d, rest)
      /\ \A n : Below(out, n) => Below(first, n) /\ Below(rest, n)
      /\ \A n : Above(out, n) => Above(first, n) /\ Above(rest, n)
      /\ \A C : Within(out, C) => Within(first, C) /\ Within(rest, C)
  BY CutPiece
<1> HIDE DEF first, rest
<1>2. x \in Messages /\ Piece(x) = first
  BY <1>1 DEF Messages, Piece
<1> HIDE DEF x
<1>3. /\ Placed(first, pipe, com, rep) /\ Placed(rest, pipe, com, rep)
      /\ Precedes(first, rest)
  BY <1>1 DEF StreamOf, Placed
<1>4. /\ \A i \in 1..Len(Append(mb, x)) :
           \/ i \in 1..Len(mb) /\ Append(mb, x)[i] = mb[i]
           \/ Append(mb, x)[i] = x
      /\ \A i, j \in 1..Len(Append(mb, x)) : i < j => i \in 1..Len(mb) /\ Append(mb, x)[i] = mb[i]
  <2>1. /\ Len(mb) \in Nat
        /\ Len(Append(mb, x)) = Len(mb) + 1
        /\ \A i \in 1..Len(mb) : Append(mb, x)[i] = mb[i]
        /\ Append(mb, x)[Len(mb) + 1] = x
    BY <1>2, AppendProperties, LenProperties
  <2>2. /\ \A i \in 1..(Len(mb) + 1) : i \in 1..Len(mb) \/ i = Len(mb) + 1
        /\ \A i, j \in 1..(Len(mb) + 1) : i < j => i \in 1..Len(mb)
    BY <2>1
  <2>3. QED
    BY <2>1, <2>2
<1>5. \A i \in 1..Len(mb) : Precedes(Piece(mb[i]), first) /\ Precedes(Piece(mb[i]), rest)
  BY <1>1 DEF StreamOf, Pieces
<1>6. Pieces(Append(mb, x), rest, pipe, com, rep)
  BY <1>2, <1>3, <1>4, <1>5 DEF StreamOf, Pieces
<1>7. StreamOf(Append(mb, x), rest, pipe, com, rep)
  BY <1>3, <1>6 DEF StreamOf
<1>8. QED
  BY <1>7 DEF first, rest, x

\* A whole response is taken and replied with.
LEMMA StreamReply ==
  ASSUME NEW mb \in Seq(Messages), mb # <<>>, NEW n \in Nat, Piece(Head(mb)) = Response(n),
         NEW out \in Seq(Halves), NEW pipe \in Seq(Nat), NEW com, NEW rep \in SUBSET Nat,
         StreamOf(mb, out, pipe, com, rep)
  PROVE  /\ n \in com /\ \A r \in rep : r < n
         /\ StreamOf(Tail(mb), out, pipe, com, rep \cup {n})
<1>1. /\ Len(mb) \in Nat /\ 1 \in 1..Len(mb) /\ Head(mb) = mb[1]
      /\ \A i \in 1..Len(Tail(mb)) :
           Tail(mb)[i] = mb[i + 1] /\ i + 1 \in 1..Len(mb) /\ 1 < i + 1
  BY HeadTailProperties, LenProperties, EmptySeq
<1>2. /\ \A s \in Seq(Halves) : Precedes(Response(n), s) => Above(s, n)
      /\ \A m \in Nat : Below(Response(n), m) => n < m
      /\ \A m \in Nat : Above(Response(n), m) => m < n
      /\ Within(Response(n), com) => n \in com
  BY BehindResponse
<1>3. Placed(Response(n), pipe, com, rep) /\ Precedes(Response(n), out)
  BY <1>1 DEF StreamOf, Pieces
<1>4. n \in com /\ \A r \in rep : r < n
  BY <1>2, <1>3 DEF Placed
<1>5. \A p \in 1..Len(pipe) : n < pipe[p]
  <2>1. \A p \in 1..Len(pipe) : pipe[p] \in Nat
    BY ElementOfSeq
  <2>2. QED
    BY <1>2, <1>3, <2>1 DEF Placed
<1>6. \A s \in Seq(Halves) : Placed(s, pipe, com, rep) /\ Precedes(Response(n), s)
                               => Placed(s, pipe, com, rep \cup {n})
  BY <1>2 DEF Placed
<1>7. StreamOf(Tail(mb), out, pipe, com, rep)
  BY StreamTake
<1>8. \A i \in 1..Len(Tail(mb)) : Precedes(Response(n), Piece(Tail(mb)[i]))
  BY <1>1 DEF StreamOf, Pieces
<1>9. \A i \in 1..Len(Tail(mb)) : Piece(Tail(mb)[i]) \in Seq(Halves)
  BY <1>1, MailboxPieces
<1>10. Pieces(Tail(mb), out, pipe, com, rep \cup {n}) /\ Placed(out, pipe, com, rep \cup {n})
  BY <1>3, <1>6, <1>7, <1>8, <1>9 DEF StreamOf, Pieces
<1>11. Pending(pipe, com, rep \cup {n})
  BY <1>4, <1>5, <1>7 DEF StreamOf, Pending
<1>12. QED
  BY <1>4, <1>10, <1>11 DEF StreamOf

Numbers(s) == { s[i] : i \in 1..Len(s) }
Responses(s) == { s[k].of : k \in 1..Len(s) }

Sent == Numbers(commanded)
Used == Responses(replies)

Streamed == StreamOf(mailbox, vm.out, vm.pipe, Sent, Used)

\* A new element joins those of a sequence.
LEMMA MoreSent ==
  ASSUME NEW S, NEW s \in Seq(S), NEW n \in S
  PROVE  Numbers(Append(s, n)) = Numbers(s) \cup {n}
<1>1. /\ Len(s) \in Nat
      /\ Len(Append(s, n)) = Len(s) + 1
      /\ \A i \in 1..Len(s) : Append(s, n)[i] = s[i]
      /\ Append(s, n)[Len(s) + 1] = n
  BY AppendProperties, LenProperties
<1>2. /\ \A i \in 1..(Len(s) + 1) : i \in 1..Len(s) \/ i = Len(s) + 1
      /\ \A i \in 1..Len(s) : i \in 1..(Len(s) + 1)
      /\ Len(s) + 1 \in 1..(Len(s) + 1)
  BY <1>1
<1>3. QED
  BY <1>1, <1>2 DEF Numbers

\* The same of the responses of a sequence of replies.
LEMMA MoreUsed ==
  ASSUME NEW s \in Seq(Replies), NEW r \in Replies
  PROVE  Responses(Append(s, r)) = Responses(s) \cup {r.of}
<1>1. /\ Len(s) \in Nat
      /\ Len(Append(s, r)) = Len(s) + 1
      /\ \A i \in 1..Len(s) : Append(s, r)[i] = s[i]
      /\ Append(s, r)[Len(s) + 1] = r
  BY AppendProperties, LenProperties
<1>2. /\ \A i \in 1..(Len(s) + 1) : i \in 1..Len(s) \/ i = Len(s) + 1
      /\ \A i \in 1..Len(s) : i \in 1..(Len(s) + 1)
      /\ Len(s) + 1 \in 1..(Len(s) + 1)
  BY <1>1
<1>3. QED
  BY <1>1, <1>2 DEF Responses

\* What the types say of the parts of the stream.
LEMMA StreamTyped ==
  ASSUME Typed
  PROVE  /\ mailbox \in Seq(Messages) /\ vm.out \in Seq(Halves) /\ vm.pipe \in Seq(Nat)
         /\ Sent \in SUBSET Nat /\ Used \in SUBSET Nat
<1>1. /\ \A i \in 1..Len(commanded) : commanded[i] \in Nat
      /\ \A k \in 1..Len(replies) : replies[k] \in Replies
  BY ElementOfSeq DEF Typed
<1>2. \A r \in Replies : r.of \in Nat
  BY DEF Replies
<1>3. QED
  BY <1>1, <1>2 DEF Typed, Sent, Numbers, Used, Responses

\* The command that is handled was sent after all others.
LEMMA SentNext ==
  ASSUME Typed, Queue, Message("command"), commanded' = Append(commanded, Head(mailbox).from)
  PROVE  /\ Head(mailbox).from \in Nat
         /\ \A c \in Sent : c < Head(mailbox).from
         /\ Sent' = Sent \cup {Head(mailbox).from}
<1>1. Head(mailbox).from \in Nat
  BY Taken
<1>2. \A i \in 1..Len(commanded) : commanded[i] < Head(mailbox).from
  BY NumberedTake, LenProperties DEF Typed, Queue, Message
<1>3. Sent' = Sent \cup {Head(mailbox).from}
  <2>1. commanded \in Seq(Nat)
    BY DEF Typed
  <2>2. Numbers(Append(commanded, Head(mailbox).from)) = Numbers(commanded) \cup {Head(mailbox).from}
    BY <1>1, <2>1, MoreSent
  <2>3. QED
    BY <2>2 DEF Sent
<1>4. QED
  BY <1>1, <1>2, <1>3 DEF Sent, Numbers

\* The response that is decoded is of a command that was sent, after all those
\* replied with and not after the one it is given to.
LEMMA ReplyDue ==
  ASSUME Typed, Queue, Streamed, HandleData
  PROVE  \E of \in Sent :
           /\ of \in Nat
           /\ [to |-> from, of |-> of] \in Replies
           /\ replies' = Append(replies, [to |-> from, of |-> of])
           /\ \A u \in Used : u < of
           /\ \A k \in 1..Len(replies) : replies[k].to < from /\ replies[k].of < of
           /\ of <= from
           /\ Used' = Used \cup {of}
           /\ StreamOf(Tail(mailbox), vm.out, vm.pipe, Sent, Used \cup {of})
<1>1. Message("data")
  BY DEF HandleData
<1>2. PICK n \in 1..Len(calls) :
        /\ n \in Nat
        /\ Head(mailbox).data = Response(n)
        /\ [to |-> from, of |-> n] \in Replies
        /\ replies' = Append(replies, [to |-> from, of |-> n])
  BY ReplyGiven
<1>3. mailbox # <<>> /\ Piece(Head(mailbox)) = Response(n)
  BY <1>1, <1>2 DEF Message, Piece
<1>4. /\ n \in Sent /\ \A u \in Used : u < n
      /\ StreamOf(Tail(mailbox), vm.out, vm.pipe, Sent, Used \cup {n})
  BY <1>2, <1>3, StreamTyped, StreamReply DEF Streamed
<1>5. Used' = Used \cup {n}
  <2>1. [to |-> from, of |-> n].of = n
    OBVIOUS
  <2>2. replies \in Seq(Replies)
    BY DEF Typed
  <2>3. Responses(replies') = Responses(replies) \cup {n}
    BY <1>2, <2>1, <2>2, MoreUsed, Zenon
  <2>4. QED
    BY <2>3 DEF Used
<1>6. /\ from # 0
      /\ \A k \in 1..Len(replies) : replies[k].to < from
      /\ Len(commanded) \in 1..Len(commanded) /\ from = commanded[Len(commanded)]
  <2>1. from # 0 /\ Asked(from, commanded, replies)
    BY ReplyGiven DEF Queue
  <2>2. Len(commanded) \in Nat
    BY LenProperties DEF Typed
  <2>3. QED
    BY <2>1, <2>2 DEF Asked
<1>7. n <= from
  <2>1. PICK i \in 1..Len(commanded) : n = commanded[i]
    BY <1>4 DEF Sent, Numbers
  <2>2. i = Len(commanded) \/ i < Len(commanded)
    BY LenProperties DEF Typed
  <2>3. i < Len(commanded) => commanded[i] < commanded[Len(commanded)]
    BY <1>6, <2>1 DEF Queue, Numbered
  <2>4. from \in Nat
    BY DEF Typed
  <2>5. QED
    BY <1>2, <1>6, <2>1, <2>2, <2>3, <2>4
<1>8. \A k \in 1..Len(replies) : replies[k].of < n
  BY <1>4 DEF Used, Responses
<1>9. QED
  BY <1>2, <1>4, <1>5, <1>6, <1>7, <1>8

\* Every step keeps the order of the stream.
LEMMA StreamStep == Typed /\ Queue /\ Streamed /\ [Next]_vars => Streamed'
<1> SUFFICES ASSUME Typed, Queue, Streamed, [Next]_vars PROVE Streamed'
  OBVIOUS
<1>0. /\ StreamOf(mailbox, vm.out, vm.pipe, Sent, Used)
      /\ mailbox \in Seq(Messages) /\ vm.out \in Seq(Halves) /\ vm.pipe \in Seq(Nat)
      /\ Sent \in SUBSET Nat /\ Used \in SUBSET Nat
  BY StreamTyped DEF Streamed
<1>1. ASSUME UNCHANGED <<commanded, replies>>
      PROVE  Sent' = Sent /\ Used' = Used
  BY <1>1 DEF Sent, Numbers, Used, Responses
<1>2. ASSUME UNCHANGED <<mailbox, vm, commanded, replies>>
      PROVE  Streamed'
  BY <1>0, <1>1, <1>2 DEF Streamed
<1>3. ASSUME NEW type, Message(type), mailbox' = Tail(mailbox), UNCHANGED <<commanded, replies>>
      PROVE  StreamOf(mailbox', vm.out, vm.pipe, Sent', Used')
  <2>1. StreamOf(Tail(mailbox), vm.out, vm.pipe, Sent, Used)
    BY <1>0, <1>3, StreamTake DEF Message
  <2>2. QED
    BY <1>1, <1>3, <2>1
<1>4. CASE Command
  <2>1. mailbox' = Append(mailbox, CommandOf(Len(calls) + 1))
    BY <1>4 DEF Command, CommandOf
  <2>2. CommandOf(Len(calls) + 1) \in Messages /\ CommandOf(Len(calls) + 1).type # "data"
    BY Joined DEF CommandOf
  <2>3. StreamOf(mailbox', vm.out, vm.pipe, Sent, Used)
    BY <1>0, <2>1, <2>2, StreamJoin
  <2>4. QED
    BY <1>1, <1>4, <2>3 DEF Command, history, Streamed
<1>5. CASE CommandNoProc \/ Timeout
  BY <1>2, <1>5 DEF CommandNoProc, Timeout, serverVars, history
<1>6. CASE HandleCommand
  <2> DEFINE n == Head(mailbox).from
  <2>1. /\ Message("command") /\ mailbox' = Tail(mailbox) /\ replies' = replies
        /\ commanded' = Append(commanded, n)
        /\ vm' = IF vm.alive THEN [vm EXCEPT !.pipe = Append(@, n)] ELSE vm
    BY <1>6 DEF HandleCommand, PortCommand
  <2>2. n \in Nat /\ (\A c \in Sent : c < n) /\ Sent' = Sent \cup {n} /\ Used' = Used
    BY <2>1, SentNext DEF Used, Responses
  <2>3. Tail(mailbox) \in Seq(Messages) /\ StreamOf(Tail(mailbox), vm.out, vm.pipe, Sent, Used)
    BY <1>0, <2>1, StreamTake, Taken DEF Message
  <2> HIDE DEF n
  <2>4. /\ StreamOf(Tail(mailbox), vm.out, Append(vm.pipe, n), Sent \cup {n}, Used)
        /\ StreamOf(Tail(mailbox), vm.out, vm.pipe, Sent \cup {n}, Used)
    BY <1>0, <2>2, <2>3, StreamSend
  <2>5. /\ vm'.out = vm.out
        /\ vm'.pipe = vm.pipe \/ vm'.pipe = Append(vm.pipe, n)
    BY <2>1 DEF Typed
  <2>6. QED
    BY <2>1, <2>2, <2>4, <2>5 DEF Streamed
<1>7. ASSUME Crash, replies' = replies,
             StreamOf(mailbox, vm.out, vm.pipe, Sent', Used)
      PROVE  Streamed'
  <2>1. mailbox' = <<>> /\ vm'.out = <<>> /\ vm'.pipe = <<>> /\ Used' = Used
    BY <1>7 DEF Crash, Booted, Used, Responses
  <2>2. StreamOf(<<>>, <<>>, <<>>, Sent', Used)
    BY <1>7, StreamGone
  <2>3. QED
    BY <2>1, <2>2 DEF Streamed
<1>8. CASE HandleCommandDegraded
  <2> DEFINE n == Head(mailbox).from
  <2>1. n \in Nat /\ (\A c \in Sent : c < n) /\ Sent' = Sent \cup {n}
    BY <1>8, SentNext DEF HandleCommandDegraded
  <2> HIDE DEF n
  <2>2. StreamOf(mailbox, vm.out, vm.pipe, Sent \cup {n}, Used)
    BY <1>0, <2>1, StreamSend
  <2>3. QED
    BY <1>7, <1>8, <2>1, <2>2 DEF HandleCommandDegraded
<1>9. CASE HandleCommandClosedPort \/ HandleDataMalformed
  BY <1>0, <1>1, <1>7, <1>9 DEF HandleCommandClosedPort, HandleDataMalformed, history
<1>10. CASE HandleData
  <2>1. PICK of \in Sent :
          /\ Used' = Used \cup {of}
          /\ StreamOf(Tail(mailbox), vm.out, vm.pipe, Sent, Used \cup {of})
    BY <1>10, ReplyDue
  <2>2. mailbox' = Tail(mailbox) /\ vm' = vm /\ Sent' = Sent
    BY <1>10 DEF HandleData, Sent, Numbers
  <2>3. QED
    BY <2>1, <2>2 DEF Streamed
<1>11. CASE HandleDataUnexpected
  BY <1>3, <1>11 DEF HandleDataUnexpected, history, Streamed
<1>12. ASSUME mailbox' = mailbox \/ (mailbox' = Tail(mailbox) /\ mailbox # <<>>), vm' = Booted,
              UNCHANGED <<commanded, replies>>
       PROVE  Streamed'
  <2>1. StreamOf(mailbox', vm.out, vm.pipe, Sent, Used)
    BY <1>0, <1>12, StreamTake
  <2>2. vm'.out = <<>> /\ vm'.pipe = <<>>
    BY <1>12 DEF Booted
  <2>3. QED
    BY <1>1, <1>12, <2>1, <2>2, StreamGone DEF Streamed
<1>13. CASE HandleExitStatus
  BY <1>12, <1>13 DEF HandleExitStatus, Message, history
<1>14. CASE Restart
  <2>1. mailbox' = mailbox /\ vm' = Booted /\ UNCHANGED <<commanded, replies>>
    BY <1>14 DEF Restart, history
  <2>2. QED
    BY <1>12, <2>1
<1>15. CASE GiveUp \/ RestartExpires
  BY <1>2, <1>15 DEF GiveUp, RestartExpires, history
<1>16. CASE VmAnswer
  <2>1. /\ vm.pipe # <<>>
        /\ vm'.pipe = Tail(vm.pipe)
        /\ vm'.out = vm.out \o Response(Head(vm.pipe))
        /\ UNCHANGED <<mailbox, commanded, replies>>
    BY <1>16 DEF VmAnswer, history, Typed
  <2>2. StreamOf(mailbox, vm.out \o Response(Head(vm.pipe)), Tail(vm.pipe), Sent, Used)
    BY <1>0, <2>1, StreamAct
  <2>3. QED
    BY <1>1, <2>1, <2>2 DEF Streamed
<1>17. CASE VmSkip
  <2>1. /\ vm.pipe # <<>>
        /\ vm'.pipe = Tail(vm.pipe)
        /\ vm'.out = vm.out
        /\ UNCHANGED <<mailbox, commanded, replies>>
    BY <1>17 DEF VmSkip, history, Typed
  <2>2. StreamOf(mailbox, vm.out, Tail(vm.pipe), Sent, Used)
    BY <1>0, <2>1, StreamAct
  <2>3. QED
    BY <1>1, <2>1, <2>2 DEF Streamed
<1>18. CASE VmExit
  <2>1. /\ vm'.pipe = <<>> /\ vm'.out = vm.out
        /\ UNCHANGED <<mailbox, commanded, replies>>
    BY <1>18 DEF VmExit, history, Typed
  <2>2. QED
    BY <1>0, <1>1, <2>1, StreamGone DEF Streamed
<1>19. CASE PortData
  <2>1. PICK k \in 1..Len(vm.out) :
          /\ mailbox' = Append(mailbox, [type |-> "data", data |-> SubSeq(vm.out, 1, k)])
          /\ vm' = [vm EXCEPT !.out = SubSeq(@, k + 1, Len(@))]
    BY <1>19 DEF PortData
  <2>2. vm'.pipe = vm.pipe /\ vm'.out = SubSeq(vm.out, k + 1, Len(vm.out))
    BY <2>1 DEF Typed
  <2>3. StreamOf(Append(mailbox, [type |-> "data", data |-> SubSeq(vm.out, 1, k)]),
                 SubSeq(vm.out, k + 1, Len(vm.out)), vm.pipe, Sent, Used)
    BY <1>0, StreamRead
  <2>4. Sent' = Sent /\ Used' = Used
    BY <1>1, <1>19 DEF PortData, history
  <2>5. QED
    BY <2>1, <2>2, <2>3, <2>4 DEF Streamed
<1>20. CASE PortExit
  <2>1. mailbox' = Append(mailbox, Notice) /\ Notice.type # "data"
    BY <1>20 DEF PortExit, Notice
  <2>2. StreamOf(mailbox', vm.out, vm.pipe, Sent, Used)
    BY <1>0, <2>1, Joined, StreamJoin
  <2>3. QED
    BY <1>1, <1>20, <2>2 DEF PortExit, history, Streamed
<1>21. CASE UNCHANGED vars
  BY <1>2, <1>21 DEF vars, serverVars, history
<1>22. QED
  BY <1>4, <1>5, <1>6, <1>8, <1>9, <1>10, <1>11, <1>13, <1>14, <1>15, <1>16, <1>17, <1>18, <1>19,
     <1>20, <1>21 DEF Next, Handle, Supervise, Environment

-----------------------------------------------------------------------------
(* The inductive invariant, and what it says *)

\* WrongOnlyAfterLost is inductive with the others: when the response given is to
\* a command that was given an earlier one, that reply was wrong before.
IInv == /\ Typed
        /\ Down
        /\ Told
        /\ Queue
        /\ NobodyForgotten
        /\ Streamed
        /\ WrongOnlyAfterLost

\* A wrong reply leaves an earlier command without one.
LEMMA WrongStep == Typed /\ Queue /\ Streamed /\ WrongOnlyAfterLost /\ [Next]_vars => WrongOnlyAfterLost'
<1> SUFFICES ASSUME Typed, Queue, Streamed, WrongOnlyAfterLost, [Next]_vars
             PROVE  WrongOnlyAfterLost'
  OBVIOUS
<1>0. /\ Len(commanded) \in Nat /\ DOMAIN commanded = 1..Len(commanded)
      /\ Len(replies) \in Nat /\ DOMAIN replies = 1..Len(replies)
      /\ ToSet(commanded) = Sent
      /\ Sent \in SUBSET Nat
      /\ \A k \in 1..Len(replies) : replies[k] \in Replies
  BY LenProperties, ElementOfSeq, StreamTyped DEF Typed, Sent, Numbers, ToSet
<1>1. CASE UNCHANGED <<commanded, replies>>
  BY <1>1 DEF WrongOnlyAfterLost, Replied
<1>2. ASSUME NEW n, commanded' = Append(commanded, n), replies' = replies
      PROVE  WrongOnlyAfterLost'
  <2>1. ToSet(commanded) \subseteq ToSet(commanded')
    BY <1>0, <1>2 DEF ToSet, Typed
  <2>2. QED
    BY <1>2, <2>1 DEF WrongOnlyAfterLost, Replied
<1>3. CASE HandleData
  <2>1. PICK of \in Sent :
          /\ of \in Nat
          /\ [to |-> from, of |-> of] \in Replies
          /\ replies' = Append(replies, [to |-> from, of |-> of])
          /\ \A k \in 1..Len(replies) : replies[k].to < from /\ replies[k].of < of
          /\ of <= from
    BY <1>3, ReplyDue
  <2>2. /\ commanded' = commanded /\ from \in Nat
        /\ \A r \in Replies : r.to \in Nat /\ r.of \in Nat
    BY <1>3 DEF HandleData, Typed, Replies
  <2>3. /\ DOMAIN replies' = 1..(Len(replies) + 1)
        /\ \A k \in 1..Len(replies) : replies'[k] = replies[k]
        /\ replies'[Len(replies) + 1] = [to |-> from, of |-> of]
        /\ \A k \in 1..(Len(replies) + 1) : k \in 1..Len(replies) \/ k = Len(replies) + 1
    <3>1. /\ replies \in Seq(Replies)
          /\ replies' \in Seq(Replies)
          /\ Len(replies') = Len(replies) + 1
          /\ \A k \in 1..Len(replies) : replies'[k] = replies[k]
          /\ replies'[Len(replies) + 1] = [to |-> from, of |-> of]
      BY <2>1, AppendProperties DEF Typed
    <3>2. DOMAIN replies' = 1..Len(replies')
      BY <3>1, LenProperties
    <3>3. \A k \in 1..(Len(replies) + 1) : k \in 1..Len(replies) \/ k = Len(replies) + 1
      BY <1>0
    <3>4. QED
      BY <3>1, <3>2, <3>3
  <2>4. \A n : Replied(n)' <=> Replied(n) \/ n = from
    BY <1>0, <2>3 DEF Replied
  <2>5. ASSUME NEW k \in 1..Len(replies), replies[k].of # replies[k].to
        PROVE  \E n \in Sent : n < replies[k].to /\ ~Replied(n)'
    <3>1. PICK n \in Sent : n < replies[k].to /\ ~Replied(n)
      BY <1>0, <2>5 DEF WrongOnlyAfterLost
    <3>2. n # from
      BY <1>0, <2>1, <2>2, <3>1
    <3>3. QED
      BY <2>4, <3>1, <3>2
  <2>6. ASSUME of # from
        PROVE  \E n \in Sent : n < from /\ ~Replied(n)'
    <3>1. of < from
      BY <2>1, <2>2, <2>6
    <3>2. CASE ~Replied(of)
      <4>1. of # from
        BY <2>1, <2>2, <3>1
      <4>2. QED
        BY <2>4, <3>1, <3>2, <4>1
    <3>3. CASE Replied(of)
      <4>1. PICK k \in 1..Len(replies) : replies[k].to = of
        BY <1>0, <3>3 DEF Replied
      <4>2. replies[k].of < of /\ replies[k].to < from /\ replies[k] \in Replies
        BY <1>0, <2>1
      <4>3. replies[k].of # replies[k].to
        BY <2>1, <2>2, <4>1, <4>2
      <4>4. PICK n \in Sent : n < replies[k].to /\ ~Replied(n)'
        BY <2>5, <4>3
      <4>5. n < from
        BY <1>0, <2>1, <2>2, <4>1, <4>2, <4>4
      <4>6. QED
        BY <4>4, <4>5
    <3>4. QED
      BY <3>2, <3>3
  <2>7. ToSet(commanded') = Sent
    BY <1>0, <2>2
  <2>8. \A k \in DOMAIN replies' : replies'[k].of # replies'[k].to =>
           \E n \in Sent : n < replies'[k].to /\ ~Replied(n)'
    BY <2>3, <2>5, <2>6
  <2>9. QED
    BY <2>7, <2>8 DEF WrongOnlyAfterLost
<1>4. CASE HandleCommand \/ HandleCommandDegraded
  BY <1>2, <1>4 DEF HandleCommand, HandleCommandDegraded, PortCommand
<1>5. CASE Command \/ CommandNoProc \/ Timeout \/ UNCHANGED vars
  BY <1>1, <1>5 DEF Command, CommandNoProc, Timeout, vars, serverVars, history
<1>6. CASE HandleCommandClosedPort \/ HandleDataMalformed \/ HandleDataUnexpected \/ HandleExitStatus
  BY <1>1, <1>6 DEF HandleCommandClosedPort, HandleDataMalformed, HandleDataUnexpected,
     HandleExitStatus, history
<1>7. CASE Restart \/ GiveUp \/ RestartExpires
  BY <1>1, <1>7 DEF Restart, GiveUp, RestartExpires, history
<1>8. CASE VmAnswer \/ VmSkip \/ VmExit \/ PortData \/ PortExit
  BY <1>1, <1>8 DEF VmAnswer, VmSkip, VmExit, PortData, PortExit, history
<1>9. QED
  BY <1>3, <1>4, <1>5, <1>6, <1>7, <1>8 DEF Next, Handle, Supervise, Environment

\* The invariant holds at the start.
LEMMA IInvInit == Init => IInv
<1> SUFFICES ASSUME Init PROVE IInv
  OBVIOUS
<1>1. Typed
  BY TypedInit
<1>2. Down /\ Told /\ Queue /\ NobodyForgotten
  <2>1. Waiting = {}
    BY DEF Init, Waiting
  <2>2. QED
    BY <2>1 DEF Init, Down, Told, Queue, Numbered, Asked, NobodyForgotten
<1>3. Sent = {} /\ Used = {}
  BY DEF Init, Sent, Numbers, Used, Responses
<1>4. Streamed
  <2>1. Placed(<<>>, <<>>, {}, {}) /\ Pending(<<>>, {}, {}) /\ Pieces(<<>>, <<>>, <<>>, {}, {})
    BY PlacedNothing DEF Pending, Pieces
  <2>2. mailbox = <<>> /\ vm.out = <<>> /\ vm.pipe = <<>>
    BY DEF Init, Booted
  <2>3. QED
    BY <1>3, <2>1, <2>2 DEF Streamed, StreamOf
<1>5. WrongOnlyAfterLost
  BY DEF Init, WrongOnlyAfterLost
<1>6. QED
  BY <1>1, <1>2, <1>4, <1>5 DEF IInv

\* Every step keeps the invariant.
LEMMA IInvStep == IInv /\ [Next]_vars => IInv'
BY TypedStep, DownStep, ToldStep, QueueStep, ForgottenStep, StreamStep, WrongStep DEF IInv

\* The invariant gives the types, with the numbers those of calls.
LEMMA IInvTypeOK == IInv => TypeOK
<1> SUFFICES ASSUME IInv PROVE TypeOK
  OBVIOUS
<1> DEFINE N == 1..Len(calls)
<1>0. /\ Typed /\ Queue /\ Streamed
      /\ Len(calls) \in Nat
      /\ DOMAIN calls = 1..Len(calls)
      /\ DOMAIN mailbox = 1..Len(mailbox)
      /\ Len(commanded) \in Nat
  BY LenProperties DEF IInv, Typed
<1>1. ASSUME NEW s \in Seq(Halves), Within(s, Sent)
      PROVE  s \in Seq(Half)
  <2>1. /\ Len(s) \in Nat /\ s \in [1..Len(s) -> Halves]
        /\ \A i \in 1..Len(s) : s[i] \in Halves /\ s[i].of \in Sent
    BY <1>1, LenProperties, ElementOfSeq DEF Within
  <2>2. Sent \subseteq 1..Len(calls)
    BY <1>0 DEF Sent, Numbers, Queue, Numbered
  <2>3. \A i \in 1..Len(s) : s[i] \in Half
    BY <2>1, <2>2 DEF Half, Halves
  <2>4. s \in [1..Len(s) -> Half]
    BY <2>1, <2>3
  <2>5. QED
    BY <2>1, <2>4, SeqDef
<1>2. ASSUME NEW s \in Seq(Nat), \A i \in 1..Len(s) : s[i] \in 1..Len(calls)
      PROVE  s \in Seq(1..Len(calls))
  <2>1. Len(s) \in Nat /\ s \in [1..Len(s) -> 1..Len(calls)]
    BY <1>2, LenProperties
  <2>2. QED
    BY <2>1, SeqDef
<1>3. commanded \in Seq(1..Len(calls))
  BY <1>0, <1>2 DEF Typed, Queue, Numbered
<1>4. from \in 0..Len(calls)
  BY <1>0 DEF Typed, Queue, Numbered, Asked
<1>5. vm.out \in Seq(Half)
  BY <1>0, <1>1 DEF Typed, Streamed, StreamOf, Placed
<1>6. vm.pipe \in Seq(1..Len(calls))
  <2>1. Sent \subseteq 1..Len(calls)
    BY <1>0 DEF Sent, Numbers, Queue, Numbered
  <2>2. QED
    BY <1>0, <1>2, <2>1 DEF Typed, Streamed, StreamOf, Pending
<1>7. ASSUME NEW i \in 1..Len(mailbox)
      PROVE  \/ mailbox[i].type = "command" /\ mailbox[i].from \in 1..Len(calls)
             \/ mailbox[i].type = "data" /\ mailbox[i].data \in Seq(Half)
             \/ mailbox[i].type = "exit_status"
  <2>1. mailbox[i] \in Messages
    BY <1>0, ElementOfSeq DEF Typed
  <2>2. CASE mailbox[i].type = "command"
    BY <1>0, <2>2 DEF Queue, Numbered
  <2>3. CASE mailbox[i].type = "data"
    <3>1. mailbox[i].data \in Seq(Halves) /\ Piece(mailbox[i]) = mailbox[i].data
      BY <2>1, <2>3, MessageCases DEF Piece
    <3>2. Within(mailbox[i].data, Sent)
      BY <1>0, <3>1 DEF Streamed, StreamOf, Pieces, Placed
    <3>3. QED
      BY <1>1, <2>3, <3>1, <3>2
  <2>4. QED
    BY <2>1, <2>2, <2>3, MessageCases
<1>8. \A n \in DOMAIN calls : calls[n] \in {"waiting", "replied", "timeout", "exit"}
  BY <1>0, ElementOfSeq DEF Typed, Standings
<1>9. QED
  BY <1>0, <1>3, <1>4, <1>5, <1>6, <1>7, <1>8 DEF TypeOK, Typed

\* The state of lib/csvm.ex has the types the code relies on.
THEOREM TypeCorrect == Spec => []TypeOK
BY IInvInit, IInvStep, IInvTypeOK, PTL DEF Spec

\* A caller is given the response to another command only after some earlier
\* command was left without any (handle_info, which compares no numbers).
THEOREM WrongAfterLost == Spec => []WrongOnlyAfterLost
<1>1. IInv => WrongOnlyAfterLost
  BY DEF IInv
<1>2. QED
  BY <1>1, IInvInit, IInvStep, PTL DEF Spec

\* A running server that holds a closed port has the notice of its exit in the
\* mailbox (lib/csvm.ex: open_port asks for exit_status).
THEOREM PortNotice == Spec => []ClosedPortHasNotice
<1>1. IInv => ClosedPortHasNotice
  BY QueuedHas DEF IInv, Told, ClosedPortHasNotice
<1>2. QED
  BY <1>1, IInvInit, IInvStep, PTL DEF Spec

\* A caller that waits and is nowhere in the server was displaced by a later
\* command or lost its place to an exit of the VM (handle_call and handle_info).
THEOREM Forgotten == Spec => []ForgottenExplained
<1>1. IInv => ForgottenExplained
  BY QueuedHas DEF IInv, NobodyForgotten, Explained, ForgottenExplained
<1>2. QED
  BY <1>1, IInvInit, IInvStep, PTL DEF Spec

-----------------------------------------------------------------------------
(* The refinement *)

\* Every step of the server is a command or a reply of LateReplies, or changes
\* neither of its variables.
LEMMA StepSimulation == IInv /\ [Next]_vars => [Calls!Next]_(Calls!vars)
<1> SUFFICES ASSUME IInv, [Next]_vars PROVE Calls!Next \/ UNCHANGED <<commanded, replies>>
  BY DEF Calls!vars
<1>0. /\ Typed /\ Queue /\ Streamed
      /\ DOMAIN commanded = 1..Len(commanded) /\ Len(commanded) \in Nat
      /\ DOMAIN replies = 1..Len(replies)
      /\ Len(calls) \in Nat /\ Len(calls) <= MaxCalls
  BY LenProperties DEF IInv, Typed
<1>1. ASSUME Message("command"), commanded' = Append(commanded, Head(mailbox).from), replies' = replies
      PROVE  Calls!Next
  <2> DEFINE n == Head(mailbox).from
  <2>1. n \in 1..Len(calls) /\ \A i \in 1..Len(commanded) : commanded[i] < n
    BY <1>0, <1>1, NumberedTake, Taken DEF Queue, Typed
  <2>2. n \in 1..MaxCalls
    BY <1>0, <2>1
  <2> HIDE DEF n
  <2>3. Calls!Command(n)
    BY <1>0, <1>1, <2>1 DEF Calls!Command, n
  <2>4. QED
    BY <2>2, <2>3 DEF Calls!Next
<1>2. CASE HandleCommand \/ HandleCommandDegraded
  BY <1>1, <1>2 DEF HandleCommand, HandleCommandDegraded, PortCommand
<1>3. CASE HandleData
  <2>1. PICK of \in Sent :
          /\ replies' = Append(replies, [to |-> from, of |-> of])
          /\ \A k \in 1..Len(replies) : replies[k].to < from /\ replies[k].of < of
          /\ of <= from
    BY <1>0, <1>3, ReplyDue
  <2>2. commanded' = commanded /\ from = commanded[Len(commanded)]
    BY <1>0, <1>3, ReplyGiven DEF HandleData, Queue, Asked
  <2>3. PICK i \in DOMAIN commanded : of = commanded[i]
    BY <1>0 DEF Sent, Numbers
  <2>4. Calls!Reply(commanded[i])
    BY <1>0, <2>1, <2>2, <2>3 DEF Calls!Reply
  <2>5. QED
    BY <2>4 DEF Calls!Next
<1>4. CASE Command \/ CommandNoProc \/ Timeout \/ UNCHANGED vars
  BY <1>4 DEF Command, CommandNoProc, Timeout, vars, serverVars, history
<1>5. CASE HandleCommandClosedPort \/ HandleDataMalformed \/ HandleDataUnexpected \/ HandleExitStatus
  BY <1>5 DEF HandleCommandClosedPort, HandleDataMalformed, HandleDataUnexpected,
     HandleExitStatus, history
<1>6. CASE Restart \/ GiveUp \/ RestartExpires
  BY <1>6 DEF Restart, GiveUp, RestartExpires, history
<1>7. CASE VmAnswer \/ VmSkip \/ VmExit \/ PortData \/ PortExit
  BY <1>7 DEF VmAnswer, VmSkip, VmExit, PortData, PortExit, history
<1>8. QED
  BY <1>2, <1>3, <1>4, <1>5, <1>6, <1>7 DEF Next, Handle, Supervise, Environment

\* The server of lib/csvm.ex implements the calls with late replies.
THEOREM Refinement == Spec => ImplementsLateReplies
<1>1. Init => Calls!Init
  BY DEF Init, Calls!Init
<1>2. QED
  BY <1>1, StepSimulation, IInvInit, IInvStep, PTL DEF Spec, ImplementsLateReplies, Calls!Spec

=============================================================================
