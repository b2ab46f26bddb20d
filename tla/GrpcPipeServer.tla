---------------------------- MODULE GrpcPipeServer ----------------------------
(***************************************************************************)
(* The class NamedPipeServer of src/src/grpc/grpc_server.cpp: Run serves     *)
(* clients one after the other at one pipe instance, with overlapped calls   *)
(* whose events it waits for, while the owner calls Shutdown from another    *)
(* thread; the destructor calls it again when Run has ended.                 *)
(* The pipe is a byte stream: ReadFile returns whatever is in it, and a      *)
(* request may come in two pieces.                                           *)
(* A definition named Wrong... is the one after it with a mistake; it is     *)
(* used by no other definition.                                              *)
(***************************************************************************)
EXTENDS Integers, Sequences

CONSTANTS
  Capacity,      \* pieces, or answers, a direction of the pipe holds
  MaxSent        \* bound: requests all clients send

ASSUME PipeServerAssumption == Capacity \in Nat \ {0} /\ MaxSent \in Nat

VARIABLES
  running,       \* running_
  runner,        \* where Run is
  owner,         \* where the owner is
  instance,      \* what the system knows behind pipe_handle_
  received,      \* the pieces in buffer, bytes_read of them
  message_counter,
  client,        \* what the client may do, see ClientWrites
  sent,          \* requests sent so far
  requests,      \* pieces in the pipe
  answers        \* how many answers are in the pipe

serverVars == <<running, runner, owner, received, message_counter>>
clientVars == <<client, sent>>
pipeVars == <<instance, requests, answers>>
vars == <<serverVars, clientVars, pipeVars>>

Init ==
  /\ running = TRUE
  /\ runner = "Create" /\ owner = "Idle"
  /\ instance = "none"
  /\ received = << >> /\ message_counter = 0
  /\ client = "any" /\ sent = 0
  /\ requests = << >> /\ answers = 0

-----------------------------------------------------------------------------
\* Clients.

Piece == {"whole", "first", "rest"}

\* One sends requests as it likes; another waits for the answer to each.
ClientOpens ==
  /\ instance = "listening"
  /\ instance' = "connected"
  /\ client' \in {"any", "polite"}
  /\ UNCHANGED <<serverVars, sent, requests, answers>>

\* What it has written can still be read.
ClientLeaves ==
  /\ instance = "connected"
  /\ instance' = "left"
  /\ UNCHANGED <<serverVars, clientVars, requests, answers>>

Writes(from, piece, to) ==
  /\ instance = "connected" /\ Len(requests) < Capacity
  /\ client = from /\ client' = to
  /\ requests' = Append(requests, piece)
  /\ sent' = IF piece = "rest" THEN sent ELSE sent + 1
  /\ sent' <= MaxSent
  /\ UNCHANGED <<serverVars, instance, answers>>

ClientWrites ==
  \/ Writes("any", "whole", "any")
  \/ Writes("any", "first", "half") \/ Writes("half", "rest", "any")
  \/ Writes("polite", "whole", "waiting")

ClientReads ==
  /\ instance = "connected" /\ answers > 0
  /\ answers' = answers - 1
  /\ client' = IF client = "waiting" THEN "polite" ELSE client
  /\ UNCHANGED <<serverVars, sent, instance, requests>>

ClientNext == ClientOpens \/ ClientLeaves \/ ClientWrites \/ ClientReads

-----------------------------------------------------------------------------
\* Shutdown.

InOwner == UNCHANGED <<runner, received, message_counter, clientVars>>

ShutdownStops ==
  /\ owner = "Idle"
  /\ owner' = "Close" /\ running' = FALSE
  /\ UNCHANGED pipeVars /\ InOwner

\* The instance and what is in it are gone, and what waits for it is woken.
Closes == instance' = "none" /\ requests' = << >> /\ answers' = 0

\* The handle stays open, and with it what waits for the pipe.
WrongShutdownCloses ==
  /\ owner = "Close"
  /\ owner' = "Idle"
  /\ UNCHANGED <<running, pipeVars>> /\ InOwner

ShutdownCloses ==
  /\ owner = "Close"
  /\ Closes
  /\ owner' = "Idle"
  /\ UNCHANGED running /\ InOwner

\* The destructor takes a server that is not running for one that was closed.
WrongDestructs ==
  /\ runner \in {"Returned", "Threw"} /\ owner = "Idle"
  /\ IF running THEN Closes ELSE UNCHANGED pipeVars
  /\ running' = FALSE /\ owner' = "Destroyed"
  /\ InOwner

\* Run has ended and the server goes out of scope.
Destructs ==
  /\ runner \in {"Returned", "Threw"} /\ owner = "Idle"
  /\ Closes
  /\ running' = FALSE /\ owner' = "Destroyed"
  /\ InOwner

OwnerNext == ShutdownStops \/ ShutdownCloses \/ Destructs

-----------------------------------------------------------------------------
\* Run.  Every call on a handle that was closed, or not yet made, fails.

InRun == UNCHANGED <<running, owner, clientVars>>
Goes(from, to) ==
  /\ runner = from /\ runner' = to
  /\ UNCHANGED <<received, message_counter, pipeVars>> /\ InRun

RunCreates ==
  /\ runner = "Create"
  /\ instance' = "listening" /\ runner' = "Top"
  /\ UNCHANGED <<received, message_counter, requests, answers>> /\ InRun

RunThrows ==
  \/ Goes("Create", "Threw")
  \/ instance \in {"left", "none"} /\ Goes("Connect", "Threw")

\* The loop of Run ...
RunTop == running /\ Goes("Top", "Connect")
RunReturns == ~running /\ Goes("Top", "Returned")

\* ... which ends the process instead when BuildAndStart gave no server, as it may
\* for a port that has the name of a pipe: server->Shutdown() does not ask.
RunCrashes ==
  /\ runner = "Top" /\ ~running
  /\ runner' = "Crashed" /\ owner' = "Crashed"
  /\ Closes
  /\ UNCHANGED <<running, received, message_counter, clientVars>>

\* The loop of HandleClientConnection.
RunChecks ==
  \/ running /\ Goes("Check", "Read")
  \/ ~running /\ Goes("Check", "Disconnect")

\* ConnectNamedPipe: ERROR_PIPE_CONNECTED, or ERROR_IO_PENDING.
RunConnects ==
  \/ instance = "connected" /\ Goes("Connect", "Check")
  \/ /\ instance \in {"listening", "disconnected"}
     /\ runner = "Connect" /\ runner' = "Connecting"
     /\ instance' = "listening"
     /\ UNCHANGED <<received, message_counter, requests, answers>> /\ InRun

\* Its event is set by a client, or when the handle is closed.
RunConnected == instance # "listening" /\ Goes("Connecting", "Check")

\* ReadFile with something in the pipe takes it all ...
RunReads ==
  /\ runner = "Read" /\ requests # << >>
  /\ received' = requests /\ requests' = << >>
  /\ runner' = "Process"
  /\ UNCHANGED <<message_counter, instance, answers>> /\ InRun

\* ... and a read that was waiting, what is written first.
RunReadCompletes ==
  /\ runner = "Reading" /\ requests # << >>
  /\ received' = <<Head(requests)>> /\ requests' = Tail(requests)
  /\ runner' = "Process"
  /\ UNCHANGED <<message_counter, instance, answers>> /\ InRun

\* ERROR_IO_PENDING, or an error.
RunReadWaits == requests = << >> /\ instance = "connected" /\ Goes("Read", "Reading")
RunReadFails == requests = << >> /\ instance # "connected" /\ Goes("Read", "Disconnect")

\* Nobody asks how the read ended: bytes_read and the buffer are the last ones.
WrongRunReadEnds ==
  /\ runner = "Reading" /\ requests = << >> /\ instance # "connected"
  /\ runner' = "Process"
  /\ UNCHANGED <<received, message_counter, pipeVars>> /\ InRun

\* The event of a read that failed: GetOverlappedResult makes bytes_read 0.
RunReadEnds == requests = << >> /\ instance # "connected" /\ Goes("Reading", "Check")

\* A chunk that ends in the middle of a request does not parse; one that begins
\* there may or may not; of several requests the last one is seen.
Parses(chunk) ==
  IF chunk = << >> \/ chunk[Len(chunk)] = "first" THEN {FALSE}
  ELSE IF chunk[1] = "rest" THEN BOOLEAN ELSE {TRUE}

\* A request that comes alone is held back for the next one.
WrongRunProcesses ==
  /\ runner = "Process"
  /\ \E ok \in Parses(received) :
       IF ok /\ Len(received) > 1
       THEN message_counter' = message_counter + 1 /\ runner' = "Write"
       ELSE UNCHANGED message_counter /\ runner' = "Check"
  /\ UNCHANGED <<received, pipeVars>> /\ InRun

RunProcesses ==
  /\ runner = "Process"
  /\ \E ok \in Parses(received) :
       IF ok THEN message_counter' = message_counter + 1 /\ runner' = "Write"
             ELSE UNCHANGED message_counter /\ runner' = "Check"
  /\ UNCHANGED <<received, pipeVars>> /\ InRun

\* WriteFile, or its event, when there is room.
RunWrites ==
  /\ runner = "Write" /\ instance = "connected" /\ answers < Capacity
  /\ answers' = answers + 1 /\ runner' = "Check"
  /\ UNCHANGED <<received, message_counter, instance, requests>> /\ InRun

\* Errors of the write are ignored.
RunWriteFails == instance # "connected" /\ Goes("Write", "Check")

\* The instance stays with the client that has left.
WrongRunDisconnects == Goes("Disconnect", "Top")

\* DisconnectNamedPipe drops the client and what is in the pipe.
RunDisconnects ==
  /\ runner = "Disconnect" /\ runner' = "Top"
  /\ instance' = IF instance = "none" THEN "none" ELSE "disconnected"
  /\ requests' = << >> /\ answers' = 0
  /\ UNCHANGED <<received, message_counter>> /\ InRun

RunNext ==
  \/ RunCreates \/ RunThrows \/ RunTop \/ RunReturns \/ RunCrashes
  \/ RunConnects \/ RunConnected \/ RunChecks
  \/ RunReads \/ RunReadCompletes \/ RunReadWaits \/ RunReadFails \/ RunReadEnds
  \/ RunProcesses \/ RunWrites \/ RunWriteFails \/ RunDisconnects

-----------------------------------------------------------------------------
Next == RunNext \/ OwnerNext \/ ClientNext

Spec == Init /\ [][Next]_vars

\* Run and a call of Shutdown go on, and the server is destroyed in the end; no
\* client has to do anything, and nobody has to call Shutdown while Run works.
FairSpec == Spec /\ WF_vars(RunNext) /\ WF_vars(ShutdownCloses) /\ WF_vars(Destructs)

-----------------------------------------------------------------------------
\* Properties.

\* Every variable has its type; the queues of the pipe keep to their capacity.
TypeOK ==
  /\ running \in BOOLEAN
  /\ runner \in {"Create", "Top", "Connect", "Connecting", "Check", "Read", "Reading",
                 "Process", "Write", "Disconnect", "Returned", "Threw", "Crashed"}
  /\ owner \in {"Idle", "Close", "Destroyed", "Crashed"}
  /\ client \in {"any", "half", "polite", "waiting"}
  /\ instance \in {"none", "listening", "connected", "left", "disconnected"}
  /\ received \in Seq(Piece) /\ requests \in Seq(Piece) /\ Len(requests) <= Capacity
  /\ sent \in 0..MaxSent /\ answers \in 0..Capacity
  /\ message_counter \in Nat

\* However the requests are cut into chunks, no more of them are counted than were
\* sent.
CountsRequests == message_counter <= sent

\* A server that is no more has left no instance behind, not even when Shutdown
\* was called before Run had made one.
NothingLeft == owner = "Destroyed" => instance = "none"

\* Shutdown ends Run, or the process, wherever Run waits: for a client, a request
\* or room.
ShutdownEndsRun == ~running ~> runner \in {"Returned", "Threw", "Crashed"}

\* A client that has been served does not keep the next one out, though one that
\* comes and goes before the first ConnectNamedPipe makes Run throw.
ServesTheNext ==
  (runner = "Disconnect" /\ running) ~> (instance = "listening" \/ owner = "Close")

\* A client that waits for the answer to each whole request gets it.
PoliteAnswered ==
  client = "waiting" ~> (answers > 0 \/ instance # "connected")

=============================================================================
