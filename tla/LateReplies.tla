----------------------------- MODULE LateReplies -----------------------------
(***************************************************************************)
(* What Csvm.command promises its callers about replies.  Commands are     *)
(* numbered in the order the calls were made.  A reply goes to the command *)
(* sent last, which gets one at most; it carries the response to that      *)
(* command or to an earlier one, and no response is used twice or out of   *)
(* order.  A command may never get a reply.                                *)
(***************************************************************************)
EXTENDS Naturals, Sequences

CONSTANT Commands     \* the numbers of commands

VARIABLES commanded,  \* the commands sent to the VM, in order
          replies     \* the replies given: [to, of], in order

vars == <<commanded, replies>>

Init == /\ commanded = <<>>
        /\ replies = <<>>

Command(n) == /\ \A i \in DOMAIN commanded : commanded[i] < n
              /\ commanded' = Append(commanded, n)
              /\ UNCHANGED replies

Reply(of) == LET to == commanded[Len(commanded)]
             IN /\ of <= to
                /\ \A i \in DOMAIN replies : replies[i].to < to /\ replies[i].of < of
                /\ replies' = Append(replies, [to |-> to, of |-> of])
                /\ UNCHANGED commanded

Next == \/ \E n \in Commands : Command(n)
        \/ \E i \in DOMAIN commanded : Reply(commanded[i])

Spec == Init /\ [][Next]_vars

=============================================================================
