----------------------------- MODULE BasicServer -----------------------------
(***************************************************************************)
(* src/src/basic/main.cpp: one blocking pipe instance.  The program waits for *)
(* a client and writes the numbers 1, 2, 3, ... to it until the client leaves *)
(* (the process returns 1) or SIGINT was seen (it returns 0).                 *)
(* A definition named Wrong... is the one after it with a mistake; it is      *)
(* used by no other definition.                                              *)
(***************************************************************************)
EXTENDS Integers, Sequences

CONSTANTS
  Client,       \* programs that open the pipe, once each
  NoClient,     \* nobody
  MaxCount,     \* bound: numbers the server writes
  PipeSize      \* numbers that fit into the pipe

ASSUME BasicAssumption ==
  NoClient \notin Client /\ MaxCount \in Nat /\ PipeSize \in Nat \ {0}

VARIABLES
  running,      \* running, which SIGINT clears
  pc,           \* where main is
  counter,      \* its local counter
  listening,    \* whether a client can open the instance
  peer,         \* the client the instance belongs to, until it is disconnected
  pipe,         \* numbers written and not read yet
  client,       \* the client's end
  received      \* numbers each client has read

vars == <<running, pc, counter, listening, peer, pipe, client, received>>

instance == <<listening, peer, pipe, client, received>>

Init ==
  /\ running = TRUE
  /\ pc = "Create"
  /\ counter = 0
  /\ listening = FALSE
  /\ peer = NoClient
  /\ pipe = << >>
  /\ client = [c \in Client |-> "none"]
  /\ received = [c \in Client |-> << >>]

-----------------------------------------------------------------------------
\* Clients.

Open(c) ==
  /\ listening /\ client[c] = "none"
  /\ listening' = FALSE
  /\ peer' = c
  /\ client' = [client EXCEPT ![c] = "open"]
  /\ UNCHANGED <<running, pc, counter, pipe, received>>

Read(c) ==
  /\ client[c] = "open" /\ pipe # << >>
  /\ received' = [received EXCEPT ![c] = Append(@, Head(pipe))]
  /\ pipe' = Tail(pipe)
  /\ UNCHANGED <<running, pc, counter, listening, peer, client>>

Leave(c) ==
  /\ client[c] = "open"
  /\ client' = [client EXCEPT ![c] = "gone"]
  /\ pipe' = << >>
  /\ UNCHANGED <<running, pc, counter, listening, peer, received>>

-----------------------------------------------------------------------------
\* The server.  Its end of the pipe drops the client and what it has not read.
Drops ==
  /\ client' = [c \in Client |-> IF client[c] = "open" THEN "dropped" ELSE client[c]]
  /\ pipe' = << >>
  /\ peer' = NoClient
  /\ listening' = FALSE
  /\ UNCHANGED received

Goes(place) == pc' = place /\ UNCHANGED <<running, counter>>

Create ==
  /\ pc = "Create"
  /\ Goes("Top")
  /\ listening' = TRUE
  /\ UNCHANGED <<peer, pipe, client, received>>

CreateFails == pc = "Create" /\ Goes("Failed") /\ UNCHANGED instance

\* while (running): one more client, or CloseHandle and return 0.
Top == /\ pc = "Top"
       /\ IF running THEN Goes("Connect") /\ UNCHANGED instance
                     ELSE Goes("Returned") /\ Drops

\* ConnectNamedPipe finds nobody: it listens, again if the instance was
\* disconnected, and blocks.
ConnectBlocks ==
  /\ pc = "Connect" /\ peer = NoClient
  /\ Goes("Blocked")
  /\ listening' = TRUE
  /\ UNCHANGED <<peer, pipe, client, received>>

\* The result of ConnectNamedPipe is taken the wrong way round.
WrongConnectReturns ==
  pc = "Blocked" /\ peer # NoClient /\ Goes("Disconnect") /\ UNCHANGED instance

ConnectReturns ==
  pc = "Blocked" /\ peer # NoClient /\ Goes("Check") /\ UNCHANGED instance

\* The instance of a client that was early is not disconnected.
WrongConnectFails ==
  pc = "Connect" /\ peer # NoClient /\ Goes("Top") /\ UNCHANGED instance

\* FALSE with ERROR_PIPE_CONNECTED, or ERROR_NO_DATA: a client that was there
\* before counts as a failure.
ConnectFails ==
  pc = "Connect" /\ peer # NoClient /\ Goes("Disconnect") /\ UNCHANGED instance

\* The inner loop ignores running.
WrongCheck ==
  /\ pc = "Check"
  /\ counter < MaxCount /\ counter' = counter + 1
  /\ pc' = "Write"
  /\ UNCHANGED <<running, instance>>

\* The inner while (running) and ++counter.
Check ==
  /\ pc = "Check"
  /\ IF running THEN /\ counter < MaxCount /\ counter' = counter + 1
                     /\ pc' = "Write" /\ UNCHANGED running
                ELSE Goes("Disconnect")
  /\ UNCHANGED instance

\* WriteFile blocks while the pipe is full.
Write ==
  /\ pc = "Write" /\ client[peer] = "open"
  /\ Len(pipe) < PipeSize
  /\ pipe' = Append(pipe, counter)
  /\ Goes("Check")
  /\ UNCHANGED <<listening, peer, client, received>>

\* The server goes on to the next client, with the counter of the last one.
WrongWriteFails ==
  pc = "Write" /\ client[peer] = "gone" /\ Goes("Disconnect") /\ UNCHANGED instance

\* WriteFile fails because the client has left: return 1.
WriteFails == pc = "Write" /\ client[peer] = "gone" /\ Goes("Failed") /\ Drops

Disconnect == pc = "Disconnect" /\ Goes("Top") /\ Drops

\* handleSignal
Sigint ==
  /\ running /\ pc \notin {"Returned", "Failed"}
  /\ running' = FALSE
  /\ UNCHANGED <<pc, counter, instance>>

-----------------------------------------------------------------------------
ServerNext ==
  \/ Create \/ CreateFails \/ Top
  \/ ConnectBlocks \/ ConnectReturns \/ ConnectFails
  \/ Check \/ Write \/ WriteFails \/ Disconnect

Next == \/ \E c \in Client : Open(c) \/ Read(c) \/ Leave(c)
        \/ ServerNext
        \/ Sigint

Spec == Init /\ [][Next]_vars

\* The program runs.  No client has to open, to read or to leave.
FairSpec == Spec /\ WF_vars(ServerNext)

-----------------------------------------------------------------------------
\* Properties.

\* Every variable has its type, and main serves the client at the instance.
TypeOK ==
  /\ running \in BOOLEAN
  /\ pc \in {"Create", "Top", "Connect", "Blocked", "Check", "Write", "Disconnect",
             "Returned", "Failed"}
  /\ counter \in 0..MaxCount
  /\ listening \in BOOLEAN
  /\ peer \in Client \cup {NoClient}
  /\ pc \in {"Check", "Write"} => peer # NoClient
  /\ pipe \in Seq(1..MaxCount)
  /\ client \in [Client -> {"none", "open", "gone", "dropped"}]
  /\ received \in [Client -> Seq(1..MaxCount)]

Written == IF pc = "Write" THEN counter - 1 ELSE counter

UpTo(n) == [k \in 1..n |-> k]

\* Whichever client reads, it reads the numbers from 1 on: none is lost before
\* the server drops the client, none was meant for a client before it.
CountsInOrder ==
  /\ \A c \in Client : received[c] = UpTo(Len(received[c]))
  /\ \A c \in Client : client[c] = "open" => received[c] \o pipe = UpTo(Written)

Ended == pc \in {"Returned", "Failed"}

\* SIGINT ends the program, except while it waits for somebody else: for a
\* client to connect, or to read from a full pipe.
SigintEnds ==
  (/\ ~running
   /\ pc # "Blocked" /\ (pc = "Connect" => peer # NoClient)
   /\ pc = "Write" => client[peer] = "gone" \/ Len(pipe) < PipeSize) ~> Ended

\* A client that connects before ConnectNamedPipe is called costs only itself:
\* the server drops it and listens again.
ListensAgain ==
  (pc = "Connect" /\ peer # NoClient) ~> (pc = "Blocked" \/ ~running)

\* A client that connects while the server waits for one, and stays, is sent
\* something unless SIGINT comes first.
ClientsServed ==
  \A c \in Client :
    (pc = "Blocked" /\ peer = c) ~>
      (pipe # << >> \/ received[c] # << >> \/ client[c] = "gone" \/ ~running)

=============================================================================
