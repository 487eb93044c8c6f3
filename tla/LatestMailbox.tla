---------------------------- MODULE LatestMailbox ----------------------------
(***************************************************************************)
(* What the one-slot buffer of c_src/main.c promises to whoever reads it.  *)
(* Requests are numbered 1, 2, ... in the order they are sent.  A handler  *)
(* takes at most one turn per request, never sees a request older than the *)
(* turn it takes or than one it saw before, but may skip requests and may  *)
(* see one request several times.                                          *)
(***************************************************************************)
EXTENDS Naturals, Sequences

VARIABLES sent,     \* the number of requests sent so far
          handled   \* the requests handled, one entry per turn

vars == <<sent, handled>>

Init == /\ sent = 0
        /\ handled = <<>>

Send == /\ sent' = sent + 1
        /\ UNCHANGED handled

Handle(n) == /\ Len(handled) < n
             /\ \A i \in 1..Len(handled) : handled[i] <= n
             /\ handled' = Append(handled, n)
             /\ UNCHANGED sent

Next == \/ Send
        \/ \E n \in 1..sent : Handle(n)

Spec == Init /\ [][Next]_vars

=============================================================================
