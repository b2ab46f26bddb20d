----------------------------- MODULE GrpcListener -----------------------------
(***************************************************************************)
(* GrpcNamedPipeServer of src/src/grpc/grpc_server.cpp with the listener and *)
(* the endpoint of named_pipe_transport: the server's thread accepts clients *)
(* one after the other and closes each after a while; the owner shuts the    *)
(* server down and destroys it.  The system gives a closed handle's value    *)
(* out again.  A definition named Wrong... or Null... is the one after it    *)
(* with a mistake; it is used by no other definition.                        *)
(***************************************************************************)
EXTENDS Integers

CONSTANTS
  Handle,       \* handle values of pipe instances
  NoHandle,     \* INVALID_HANDLE_VALUE
  MayFail       \* whether CreateNamedPipe and BuildAndStart may fail

ASSUME ListenerAssumption == NoHandle \notin Handle /\ MayFail \in BOOLEAN

VARIABLES
  running,      \* running_ of the server
  ownerPc,      \* where the owner of the server is
  serverPc,     \* where server_thread_ is
  pipe,         \* pipe_ of the listener
  endpoint,     \* pipe_ of the endpoint that Accept returned, if any
  instance      \* what the system knows behind each handle

vars == <<running, ownerPc, serverPc, pipe, endpoint, instance>>

Init ==
  /\ running = TRUE
  /\ ownerPc = "Start"
  /\ serverPc = "none"
  /\ pipe = NoHandle
  /\ endpoint = NoHandle
  /\ instance = [h \in Handle |-> "none"]

-----------------------------------------------------------------------------
\* Clients open an instance that nobody is connected to, and leave.

ClientConnects(h) ==
  /\ instance[h] = "listening"
  /\ instance' = [instance EXCEPT ![h] = "connected"]
  /\ UNCHANGED <<running, ownerPc, serverPc, pipe, endpoint>>

ClientLeaves(h) ==
  /\ instance[h] = "connected"
  /\ instance' = [instance EXCEPT ![h] = "left"]
  /\ UNCHANGED <<running, ownerPc, serverPc, pipe, endpoint>>

-----------------------------------------------------------------------------
\* pipe_ = CreateNamedPipe(...), which succeeds.
CreatePipe(h) ==
  /\ instance[h] = "none"
  /\ instance' = [instance EXCEPT ![h] = "listening"]
  /\ pipe' = h

Closed(h) == [instance EXCEPT ![h] = "none"]

-----------------------------------------------------------------------------
\* The owner: constructor, Shutdown and destructor.

OwnerStarts ==
  /\ ownerPc = "Start"
  /\ \E h \in Handle : CreatePipe(h)
  /\ ownerPc' = "Alive"
  /\ serverPc' = "Top"
  /\ UNCHANGED <<running, endpoint>>

\* Start returned false: the constructor throws.
OwnerThrows ==
  /\ ownerPc = "Start" /\ MayFail
  /\ ownerPc' = "Threw"
  /\ UNCHANGED <<running, serverPc, pipe, endpoint, instance>>

OwnerShutsDown ==
  /\ ownerPc = "Alive" /\ running
  /\ running' = FALSE
  /\ UNCHANGED <<ownerPc, serverPc, pipe, endpoint, instance>>

\* The destructor shuts down too and joins server_thread_.
OwnerDestroys ==
  /\ ownerPc = "Alive"
  /\ running' = FALSE
  /\ ownerPc' = "Join"
  /\ UNCHANGED <<serverPc, pipe, endpoint, instance>>

\* The thread has ended; the listener is destroyed and closes pipe_.
OwnerJoined ==
  /\ ownerPc = "Join" /\ serverPc = "Exited"
  /\ IF pipe # NoHandle THEN instance' = Closed(pipe) ELSE UNCHANGED instance
  /\ pipe' = NoHandle
  /\ ownerPc' = "Destroyed"
  /\ UNCHANGED <<running, serverPc, endpoint>>

-----------------------------------------------------------------------------
\* RunServer.

\* The loop ignores running_.
WrongServerTop ==
  /\ serverPc = "Top"
  /\ serverPc' = "Connect"
  /\ UNCHANGED <<running, ownerPc, pipe, endpoint, instance>>

\* IsRunning is true until the listener is destroyed, after the join.
ServerTop ==
  /\ serverPc = "Top"
  /\ serverPc' = IF running THEN "Connect" ELSE "Exited"
  /\ UNCHANGED <<running, ownerPc, pipe, endpoint, instance>>

\* Nobody looks at what BuildAndStart returned either: without a server,
\* server->Shutdown() after the loop ends the process, and the system closes
\* its handles.
ServerCrashes ==
  /\ serverPc = "Top" /\ ~running /\ MayFail
  /\ serverPc' = "Crashed" /\ ownerPc' = "Crashed"
  /\ pipe' = NoHandle /\ endpoint' = NoHandle
  /\ instance' = [h \in Handle |-> "none"]
  /\ UNCHANGED running

\* Accept: ConnectNamedPipe finds nobody and blocks.
AcceptBlocks ==
  /\ serverPc = "Connect"
  /\ pipe # NoHandle /\ instance[pipe] = "listening"
  /\ serverPc' = "Blocked"
  /\ UNCHANGED <<running, ownerPc, pipe, endpoint, instance>>

\* ERROR_PIPE_CONNECTED counts as a failure.
WrongConnectReturns == serverPc = "Blocked" /\ instance[pipe] # "listening"

\* It returns TRUE, or FALSE with ERROR_PIPE_CONNECTED.
ConnectReturns ==
  \/ serverPc = "Blocked" /\ instance[pipe] # "listening"
  \/ serverPc = "Connect" /\ pipe # NoHandle /\ instance[pipe] = "connected"

\* The client gets pipe_ as its endpoint.
AcceptClient ==
  /\ ConnectReturns
  /\ endpoint' = pipe
  /\ serverPc' = "Create"
  /\ UNCHANGED <<running, ownerPc, pipe, instance>>

\* It fails, on INVALID_HANDLE_VALUE or with ERROR_NO_DATA after a client that
\* has left already: no endpoint, and pipe_ stays as it is.
AcceptFails ==
  /\ serverPc = "Connect"
  /\ ~ConnectReturns
  /\ pipe # NoHandle => instance[pipe] # "listening"
  /\ serverPc' = "Sleep"
  /\ UNCHANGED <<running, ownerPc, pipe, endpoint, instance>>

AcceptCreates ==
  /\ serverPc = "Create"
  /\ \E h \in Handle : CreatePipe(h)
  /\ serverPc' = "Sleep"
  /\ UNCHANGED <<running, ownerPc, endpoint>>

\* pipe_ keeps the handle it has given to the endpoint.
WrongAcceptCreateFails ==
  /\ serverPc = "Create" /\ MayFail
  /\ serverPc' = "Sleep"
  /\ UNCHANGED <<running, ownerPc, pipe, endpoint, instance>>

\* Nobody looks at what CreateNamedPipe returned.
AcceptCreateFails ==
  /\ serverPc = "Create" /\ MayFail
  /\ pipe' = NoHandle
  /\ serverPc' = "Sleep"
  /\ UNCHANGED <<running, ownerPc, endpoint, instance>>

\* After 100 ms the endpoint goes out of scope and closes its handle.
ServerSleeps ==
  /\ serverPc = "Sleep"
  /\ IF endpoint # NoHandle THEN instance' = Closed(endpoint) ELSE UNCHANGED instance
  /\ endpoint' = NoHandle
  /\ serverPc' = "Top"
  /\ UNCHANGED <<running, ownerPc, pipe>>

-----------------------------------------------------------------------------
ClientNext == \E h \in Handle : ClientConnects(h) \/ ClientLeaves(h)

ConstructorNext == OwnerStarts \/ OwnerThrows

ServerNext ==
  \/ ServerTop \/ ServerCrashes \/ AcceptBlocks \/ AcceptClient \/ AcceptFails
  \/ AcceptCreates \/ AcceptCreateFails \/ ServerSleeps

Next ==
  \/ ClientNext
  \/ ConstructorNext \/ OwnerShutsDown \/ OwnerDestroys \/ OwnerJoined
  \/ ServerNext

Spec == Init /\ [][Next]_vars

\* Threads run.  Nobody has to connect, to leave or to shut the server down.
FairSpec == Spec /\ WF_vars(ServerNext) /\ WF_vars(OwnerJoined)

-----------------------------------------------------------------------------
\* Properties.

\* Every variable has its type.
TypeOK ==
  /\ running \in BOOLEAN
  /\ ownerPc \in {"Start", "Alive", "Join", "Destroyed", "Threw", "Crashed"}
  /\ serverPc \in {"none", "Top", "Connect", "Blocked", "Create", "Sleep", "Exited",
                   "Crashed"}
  /\ pipe \in Handle \union {NoHandle}
  /\ endpoint \in Handle \union {NoHandle}
  /\ instance \in [Handle -> {"none", "listening", "connected", "left"}]

\* The handles that are open are those of the listener and the endpoint, and
\* while Accept has not made the next instance they are the same one: no handle
\* leaks, none is used after it was closed, none is closed twice.
HandlesOwned ==
  /\ {h \in Handle : instance[h] # "none"} = {pipe, endpoint} \ {NoHandle}
  /\ pipe = endpoint /\ pipe # NoHandle => serverPc = "Create"

\* A server that is no more has left no instance behind.
NothingLeft ==
  ownerPc \in {"Threw", "Destroyed"} => \A h \in Handle : instance[h] = "none"

\* A client at the listener's instance gets its endpoint, unless it leaves or
\* the server is shut down before.
ClientsAccepted ==
  \A h \in Handle :
    pipe = h /\ instance[h] = "connected" ~>
      endpoint = h \/ instance[h] # "connected" \/ ~running

\* The destructor returns, unless the process ends first, once the server's
\* thread is past ConnectNamedPipe: the loop does not go round again.  A thread
\* that nobody connects to any more stays in that call.
DestructorReturns ==
  ownerPc = "Join" /\ serverPc \notin {"Connect", "Blocked"} ~>
    ownerPc \in {"Destroyed", "Crashed"}

=============================================================================
