-------------------------- MODULE ReliableChannel --------------------------
(***************************************************************************)
(* What the remote connection of VS Code promises its two users, whatever  *)
(* happens to the sockets under it: each end receives what the other end   *)
(* has sent, once, in order, and nothing else.                             *)
(***************************************************************************)
EXTENDS Sequences, Naturals

CONSTANTS
    Data    \* what can be sent

Ends == {"c", "s"}              \* the client (a browser window) and the server

Other(e) == IF e = "c" THEN "s" ELSE "c"

VARIABLES
    sent,       \* sent[e]: everything end e has been asked to send
    delivered   \* delivered[e]: everything end e has handed to its listeners

channelVars == <<sent, delivered>>

ChannelInit ==
    /\ sent = [e \in Ends |-> <<>>]
    /\ delivered = [e \in Ends |-> <<>>]

Accept(e) ==
    /\ \E d \in Data : sent' = [sent EXCEPT ![e] = Append(@, d)]
    /\ UNCHANGED delivered

Deliver(e) ==
    LET next == Len(delivered[e]) + 1
    IN /\ next <= Len(sent[Other(e)])
       /\ delivered' = [delivered EXCEPT ![e] = Append(@, sent[Other(e)][next])]
       /\ UNCHANGED sent

ChannelNext == \E e \in Ends : Accept(e) \/ Deliver(e)

ChannelSpec == ChannelInit /\ [][ChannelNext]_channelVars
=============================================================================
