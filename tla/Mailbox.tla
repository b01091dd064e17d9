------------------------------- MODULE Mailbox --------------------------------
(****************************************************************************)
(* What a message service promises: a mailbox of bounded size whose         *)
(* messages are taken out one by one in the order they were accepted, each  *)
(* taken out eventually and its service ended before the next one's begins. *)
(****************************************************************************)
EXTENDS Naturals, Sequences

CONSTANTS Messages, QueueSize, NoMsg

VARIABLES box, serving

Init == box = <<>> /\ serving = NoMsg

Accept(m) ==
    /\ Len(box) < QueueSize
    /\ box' = Append(box, m)
    /\ UNCHANGED serving

Serve ==
    /\ serving = NoMsg
    /\ box # <<>>
    /\ serving' = Head(box)
    /\ box' = Tail(box)

Finish ==
    /\ serving # NoMsg
    /\ serving' = NoMsg
    /\ UNCHANGED box

Next == (\E m \in Messages : Accept(m)) \/ Serve \/ Finish

vars == <<box, serving>>

Spec == Init /\ [][Next]_vars

FairSpec == Spec /\ WF_vars(Serve) /\ WF_vars(Finish)
=============================================================================
