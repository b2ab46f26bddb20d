--------------------------- MODULE RequestResponse ---------------------------
(***************************************************************************)
(* What the rpc StreamData promises to its client (src/src/grpc): the        *)
(* answers come in the order of the requests, one to each, and answer n      *)
(* carries the number n and the message of request n.                        *)
(***************************************************************************)
EXTENDS Naturals, Sequences

VARIABLES
  asked,      \* requests sent so far
  answers,    \* the answers made so far
  got,        \* how many of them the client has read
  open        \* both ends still work on the stream

vars == <<asked, answers, got, open>>

Init == asked = 0 /\ answers = << >> /\ got = 0 /\ open \in BOOLEAN

Ask == asked' = asked + 1 /\ UNCHANGED <<answers, got, open>>

AnswerTo(n) == [counter |-> n, message |-> n]

Answer ==
  /\ Len(answers) < asked
  /\ answers' = Append(answers, AnswerTo(Len(answers) + 1))
  /\ UNCHANGED <<asked, got, open>>

Get == got < Len(answers) /\ got' = got + 1 /\ UNCHANGED <<asked, answers, open>>

Opens == open' = TRUE /\ UNCHANGED <<asked, answers, got>>

Closes == open' = FALSE /\ UNCHANGED <<asked, answers, got>>

Next == Ask \/ Answer \/ Get \/ Opens \/ Closes

Spec == Init /\ [][Next]_vars

\* While the stream is open no request and no answer waits for ever.
FairSpec == Spec /\ WF_vars(open /\ Answer) /\ WF_vars(open /\ Get)

=============================================================================
