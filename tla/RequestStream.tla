---------------------------- MODULE RequestStream ----------------------------
(***************************************************************************)
(* What specifications.md asks of whoever reads the request stream: a      *)
(* header is followed by as many payload bytes as it announces, so the     *)
(* requests come out as they were sent, in order, none added, none lost.   *)
(***************************************************************************)
EXTENDS Naturals, Sequences

CONSTANT Sessions    \* the sequences of requests a peer may send

VARIABLES sent,      \* the requests of this session
          published  \* the requests the reader has handed on

vars == <<sent, published>>

Init == /\ sent \in Sessions
        /\ published = <<>>

Publish == /\ Len(published) < Len(sent)
           /\ published' = Append(published, sent[Len(published) + 1])
           /\ UNCHANGED sent

Spec == Init /\ [][Publish]_vars

=============================================================================
