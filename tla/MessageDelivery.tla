--------------------------- MODULE MessageDelivery --------------------------
(***************************************************************************)
(* What the asynchronous server promises to the writer of a message        *)
(* handler (MessageHandler, src/src/async/NamedPipeServer.h): the messages *)
(* a client has sent are handed to the handler unchanged, once each and in *)
(* the order the client sent them.                                         *)
(***************************************************************************)
EXTENDS Naturals, Sequences

CONSTANTS
  Client,      \* the clients, each with a connection of its own
  Content(_)   \* the messages a client may send

VARIABLES
  sent,        \* the messages each client has sent so far
  delivered    \* the messages of each client the handler was given so far

vars == <<sent, delivered>>

Init == /\ sent = [c \in Client |-> << >>]
        /\ delivered = [c \in Client |-> << >>]

Send(c) == \E m \in Content(c) :
             /\ sent' = [sent EXCEPT ![c] = Append(@, m)]
             /\ UNCHANGED delivered

Undelivered(c) == Len(delivered[c]) < Len(sent[c])

Deliver(c) == /\ Undelivered(c)
              /\ delivered' = [delivered EXCEPT
                                 ![c] = Append(@, sent[c][Len(@) + 1])]
              /\ UNCHANGED sent

Next == \E c \in Client : Send(c) \/ Deliver(c)

Spec == Init /\ [][Next]_vars

-----------------------------------------------------------------------------
\* A message that can be handed over is not kept back for ever.
Fairness == \A c \in Client : WF_vars(Deliver(c))

FairSpec == Spec /\ Fairness

=============================================================================
