-------------------------- MODULE GrpcListenerProofs --------------------------
(***************************************************************************)
(* Who owns the handles of GrpcListener, for any set of handle values.       *)
(***************************************************************************)
EXTENDS GrpcListener, TLAPS

\* The endpoint exists between Accept and the end of the loop's body, and is
\* the listener's own instance until Accept has made the next one.
EndpointLives ==
  /\ serverPc = "Create" => pipe = endpoint /\ endpoint # NoHandle
  /\ endpoint # NoHandle => serverPc \in {"Create", "Sleep"}
  /\ serverPc = "Blocked" => pipe # NoHandle

\* The server's thread and the listener's handle live as long as the server.
OwnerKnows ==
  /\ ownerPc \in {"Start", "Threw"} =>
       serverPc = "none" /\ pipe = NoHandle /\ endpoint = NoHandle
  /\ ownerPc \in {"Destroyed", "Crashed"} =>
       /\ serverPc \in {"Exited", "Crashed"}
       /\ pipe = NoHandle /\ endpoint = NoHandle

IInv == TypeOK /\ HandlesOwned /\ EndpointLives /\ OwnerKnows

-----------------------------------------------------------------------------
\* The initial states satisfy the invariant: nothing is open.
LEMMA InitIInv == Init => IInv
  BY ListenerAssumption DEF Init, IInv, TypeOK, HandlesOwned, EndpointLives, OwnerKnows

\* What a successful CreateNamedPipe does to the owners: the new instance is
\* the listener's and nobody else's.
LEMMA CreatePipeOwned ==
  ASSUME IInv, NEW h \in Handle, CreatePipe(h),
         pipe \in {NoHandle, endpoint}, endpoint' = endpoint
  PROVE  /\ instance' \in [Handle -> {"none", "listening", "connected", "left"}]
         /\ pipe' \in Handle
         /\ {k \in Handle : instance'[k] # "none"} = {pipe', endpoint'} \ {NoHandle}
         /\ pipe' # endpoint'
  <1>1. h # endpoint /\ h # NoHandle
    BY ListenerAssumption DEF IInv, TypeOK, HandlesOwned, CreatePipe
  <1>2. \A k \in Handle : instance'[k] # "none" <=> k = h \/ instance[k] # "none"
    BY DEF IInv, TypeOK, CreatePipe
  <1>3. \A k \in Handle : instance[k] # "none" <=> k = endpoint
    BY ListenerAssumption DEF IInv, TypeOK, HandlesOwned
  <1>4. \A k \in Handle : instance'[k] # "none" <=> k \in {pipe', endpoint'} \ {NoHandle}
    BY <1>1, <1>2, <1>3, ListenerAssumption DEF CreatePipe
  <1>5. {pipe', endpoint'} \ {NoHandle} \subseteq Handle
    BY DEF IInv, TypeOK, CreatePipe
  <1> QED
    BY <1>1, <1>4, <1>5 DEF IInv, TypeOK, CreatePipe

\* Closing a handle that one of the two owners gives up leaves the other's.
LEMMA ClosedOwned ==
  ASSUME IInv, NEW p \in Handle, NEW q \in Handle \union {NoHandle},
         {p, q} \ {NoHandle} = {pipe, endpoint} \ {NoHandle}, p # q,
         instance' = Closed(p)
  PROVE  /\ instance' \in [Handle -> {"none", "listening", "connected", "left"}]
         /\ {k \in Handle : instance'[k] # "none"} = {q} \ {NoHandle}
  <1>1. \A k \in Handle : instance'[k] # "none" <=> k # p /\ instance[k] # "none"
    BY DEF IInv, TypeOK, Closed
  <1>2. \A k \in Handle : instance[k] # "none" <=> k \in {p, q}
    BY ListenerAssumption DEF IInv, HandlesOwned
  <1>3. \A k \in Handle : instance'[k] # "none" <=> k = q
    BY <1>1, <1>2
  <1> QED
    BY <1>3, ListenerAssumption DEF IInv, TypeOK, Closed

\* Each step of a client keeps the invariant.
LEMMA ClientStep == IInv /\ ClientNext => IInv'
  <1> SUFFICES ASSUME IInv, ClientNext PROVE IInv'
    OBVIOUS
  <1>1. PICK h \in Handle : ClientConnects(h) \/ ClientLeaves(h)
    BY DEF ClientNext
  <1>2. \A k \in Handle : instance'[k] # "none" <=> instance[k] # "none"
    BY <1>1 DEF IInv, TypeOK, ClientConnects, ClientLeaves
  <1>3. TypeOK'
    BY <1>1 DEF IInv, TypeOK, ClientConnects, ClientLeaves
  <1>4. UNCHANGED <<running, ownerPc, serverPc, pipe, endpoint>>
    BY <1>1 DEF ClientConnects, ClientLeaves
  <1> QED
    BY <1>2, <1>3, <1>4 DEF IInv, HandlesOwned, EndpointLives, OwnerKnows

\* Each step of the owner keeps the invariant.
LEMMA OwnerStep ==
  IInv /\ (ConstructorNext \/ OwnerShutsDown \/ OwnerDestroys \/ OwnerJoined) => IInv'
  <1> SUFFICES ASSUME IInv,
                      ConstructorNext \/ OwnerShutsDown \/ OwnerDestroys \/ OwnerJoined
               PROVE  IInv'
    OBVIOUS
  <1>1. CASE OwnerStarts
    <2>1. PICK h \in Handle : CreatePipe(h)
      BY <1>1 DEF OwnerStarts
    <2>2. pipe = NoHandle /\ endpoint = NoHandle /\ endpoint' = endpoint
      BY <1>1 DEF OwnerStarts, IInv, OwnerKnows
    <2> QED
      BY <1>1, <2>1, <2>2, CreatePipeOwned
      DEF OwnerStarts, IInv, TypeOK, HandlesOwned, EndpointLives, OwnerKnows
  <1>2. CASE OwnerThrows \/ OwnerShutsDown \/ OwnerDestroys
    BY <1>2 DEF OwnerThrows, OwnerShutsDown, OwnerDestroys, IInv, TypeOK,
                HandlesOwned, EndpointLives, OwnerKnows
  <1>3. CASE OwnerJoined
    <2>1. endpoint = NoHandle
      BY <1>3 DEF OwnerJoined, IInv, EndpointLives
    <2>2. CASE pipe # NoHandle
      BY <1>3, <2>1, <2>2, ClosedOwned
      DEF OwnerJoined, IInv, TypeOK, HandlesOwned, EndpointLives, OwnerKnows
    <2>3. CASE pipe = NoHandle
      BY <1>3, <2>1, <2>3
      DEF OwnerJoined, IInv, TypeOK, HandlesOwned, EndpointLives, OwnerKnows
    <2> QED BY <2>2, <2>3
  <1> QED BY <1>1, <1>2, <1>3 DEF ConstructorNext

\* Each step of the server's thread keeps the invariant.
LEMMA ServerStep == IInv /\ ServerNext => IInv'
  <1> SUFFICES ASSUME IInv, ServerNext PROVE IInv'
    OBVIOUS
  <1>1. CASE ServerTop \/ AcceptBlocks \/ AcceptFails
    BY <1>1 DEF ServerTop, AcceptBlocks, AcceptFails, IInv, TypeOK, HandlesOwned,
                EndpointLives, OwnerKnows
  <1>2. CASE AcceptClient
    BY <1>2 DEF AcceptClient, ConnectReturns, IInv, TypeOK, HandlesOwned,
                EndpointLives, OwnerKnows
  <1>3. CASE AcceptCreates
    <2>1. PICK h \in Handle : CreatePipe(h)
      BY <1>3 DEF AcceptCreates
    <2>2. pipe = endpoint /\ endpoint' = endpoint
      BY <1>3 DEF AcceptCreates, IInv, EndpointLives
    <2> QED
      BY <1>3, <2>1, <2>2, CreatePipeOwned
      DEF AcceptCreates, IInv, TypeOK, HandlesOwned, EndpointLives, OwnerKnows
  <1>4. CASE AcceptCreateFails
    BY <1>4 DEF AcceptCreateFails, IInv, TypeOK, HandlesOwned, EndpointLives, OwnerKnows
  <1>5. CASE ServerSleeps
    <2>1. pipe # endpoint \/ pipe = NoHandle
      BY <1>5 DEF ServerSleeps, IInv, HandlesOwned
    <2>2. CASE endpoint # NoHandle
      BY <1>5, <2>1, <2>2, ClosedOwned
      DEF ServerSleeps, IInv, TypeOK, HandlesOwned, EndpointLives, OwnerKnows
    <2>3. CASE endpoint = NoHandle
      BY <1>5, <2>3
      DEF ServerSleeps, IInv, TypeOK, HandlesOwned, EndpointLives, OwnerKnows
    <2> QED BY <2>2, <2>3
  <1>6. CASE ServerCrashes
    <2>1. pipe' = NoHandle /\ endpoint' = NoHandle /\ \A h \in Handle : instance'[h] = "none"
      BY <1>6 DEF ServerCrashes
    <2> QED
      BY <1>6, <2>1, ListenerAssumption
      DEF ServerCrashes, IInv, TypeOK, HandlesOwned, EndpointLives, OwnerKnows
  <1> QED BY <1>1, <1>2, <1>3, <1>4, <1>5, <1>6 DEF ServerNext

\* The invariant is inductive.
LEMMA NextIInv == IInv /\ [Next]_vars => IInv'
  <1> SUFFICES ASSUME IInv, [Next]_vars PROVE IInv'
    OBVIOUS
  <1>1. CASE UNCHANGED vars
    BY <1>1 DEF vars, IInv, TypeOK, HandlesOwned, EndpointLives, OwnerKnows
  <1> QED BY <1>1, ClientStep, OwnerStep, ServerStep DEF Next

\* The invariant holds throughout.
LEMMA IInvHolds == Spec => []IInv
  BY InitIInv, NextIInv, PTL DEF Spec

\* The variables of GrpcNamedPipeServer keep their types.
THEOREM ListenerTypeCorrect == Spec => []TypeOK
  <1>1. IInv => TypeOK
    BY DEF IInv
  <1> QED BY <1>1, IInvHolds, PTL

\* The open handles are those that the listener and the endpoint hold, each in
\* one place: RunServer, Accept and the destructors leak none and close none twice.
THEOREM HandlesOwnedHolds == Spec => []HandlesOwned
  <1>1. IInv => HandlesOwned
    BY DEF IInv
  <1> QED BY <1>1, IInvHolds, PTL

\* After the constructor threw, or the destructor returned, every instance is
\* closed, clients or not.
THEOREM NothingLeftHolds == Spec => []NothingLeft
  <1>1. IInv => NothingLeft
    BY ListenerAssumption DEF IInv, HandlesOwned, OwnerKnows, NothingLeft
  <1> QED BY <1>1, IInvHolds, PTL

=============================================================================
